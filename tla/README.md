# Formal specification of go-libp2p-kad-dht

This directory holds TLA+ specifications of the Kademlia DHT of go-libp2p: the
iterative lookup and what is built on it, the message sender and the server, the
stores for value and provider records, the upkeep of the routing table, the
crawler and the client with a full routing table, and the pair of DHTs for wide
and local network. TLC checks them on small instances; TLAPS proves the central
safety properties of all of them for all values of the constants.

Everything is translated from the Go source. Source positions in this file are
relative to the root of the repository (`src/` in PROJECT.json), whose "map"
gives the lines that each definition stands for.

Contents: 1 the system, 2 modules and code, 3 runs, 4 fairness, 5 proofs,
6 disagreements between code and comments, 7 what is not modelled, 8 plan.

## 1. The system

A DHT node answers requests of other nodes, keeps a routing table, and offers
its user `FindPeer`, `PutValue`, `GetValue`/`SearchValue`, `Provide` and
`FindProviders`. All of these are lookups with a query function and a stop
function.

| Component | State | Operations | What makes it correct |
|---|---|---|---|
| Lookup engine (`query.go`) | peerset, update channel, `terminated`, WaitGroup, result | `runLookupWithFollowup`, `runQuery`, `run`, `spawnQuery`, `queryPeer`, `updateState` | it returns; no panic; no report blocks; no healthy peer is evicted but to make room for another; a completed result was queried in full |
| Query peerset (`qpeerset/`) | slice, `sorted` flag | `TryAdd`, `SetState`, `GetState`, `GetReferrer`, `NumHeard`, `NumWaiting`, `GetClosestNInStates` | behaves as a map with answers nearest first |
| FindPeer (`routing.go`) | none of its own | one lookup, then the peer store | a target that was contacted is found |
| Message sender (`internal/net/message_manager.go`, `internal/ctx_mutex.go`) | map peer to sender; per sender lock, stream, `invalid`, `singleMes` | `SendRequest`, `SendMessage`, `OnDisconnect`, `prepOrInvalidate`, `ctxReadMsg` | a reply belongs to its request; no stream is forgotten; every call returns |
| Value records (`handlers.go`, `routing.go`, `dht.go`) | datastore, striped locks | `handlePutValue`, `handleGetValue`, `PutValue` | a newer record is not replaced by an older one |
| Provider records (`records/`) | datastore, LRU cache, GC timer, query and skip set | `AddProvider`, `GetProviders`, GC, `Close` | no live record is collected; the cache is complete; GC goes on |
| Value search (`routing.go`) | `valCh`, `stopCh`, best value, peers that have it | `SearchValue`, `getValues`, `processValues`, `updatePeerValues` | ends with the best value; each value emitted is better than the one before |
| Provider search (`routing.go`) | the set of providers found | `findProvidersAsyncRoutine` | neither too many nor too few providers |
| Optimistic provide (`lookup_optim.go`) | states of peers, `doneChan`, counters, jobs pool | `optimisticProvide`, `stopFn`, `waitForRPCs`, `consumeDoneChan` | the threshold is waited for; RPCs left behind are bounded; nobody sends on a closed channel |
| Refresh manager (`rtrefresh/`) | batch of callers, last refresh times | `Refresh`, `loop`, `doRefresh`, `pingAndEvictPeers` | every caller is answered, a forcing one after a round that left out only what the gap rule cuts off |
| Routing table maintenance (`dht.go`, `subscriber_notifee.go`) | table, replaceable flags, bootstrap state | `rtPeerLoop`, `peerFound`, `validPeerFound`, `peerStoppedDHT`, `Close` | no bucket outgrows its size; peers that left the DHT go; a bootstrap's freeze is not lost; `Close` returns |
| Stream handler and mode (`dht_net.go`, `dht.go`) | mode and its lock, inbound streams | `handleNewStream`, `handleNewMessage`, `setMode`, `moveToServerMode`, `moveToClientMode` | nothing is read from an open stream in client mode; a stream that was reset ends |
| Crawler (`crawler/`) | peers to dial, seen, queried and their addresses; job and result channel | `Run`, `queryPeer` | every peer that becomes known is dialed, the run ends |
| Full routing table client (`fullrt/`) | three tables under three locks, crawl loop | `runCrawler`, `TriggerRefresh`, `GetClosestPeers`, `execOnMany`, the searches and puts, `bulkMessageSend`, `Close` | readers miss no peer that stays; no send on a closed channel; answers reach the reader; every operation ends |
| Dual DHT (`dual/`) | none of its own | `FindProvidersAsync`, `FindPeer`, `GetValue` | merged answers are complete, without repetition, and both searches end |

Not modelled (section 7): classic `Provide` and `GetClosestPeers`, the
protocol messenger, public keys, the network size estimator, filters, events
and options.

How they interact. A user call starts a lookup. Each `queryPeer` goroutine
dials its peer, and sends its request through the message sender that all
lookups share. Peers that answer go over a channel to `rtPeerLoop`, the one goroutine
that adds to the routing table; peers that fail are removed from it directly.
The refresh manager starts lookups and pings, and hands a signal to
`rtPeerLoop`, so these two goroutines wait for each other. Requests of other
nodes reach the record stores through the stream handler, at the same time as
the local user, and only in server mode, which the reachability of the host
switches on and off. The dual DHT runs two DHTs and merges what they find. The
full client has neither lookups nor a bucket table: it crawls the network,
replaces its tables after each crawl and asks the closest peers directly.

What is hard here:
- one channel of capacity alpha serves goroutines that outlive its reader;
- cancellation (of the caller, at termination, at the stop function) cuts off
  dials and RPCs that would have succeeded, and must not be taken for failures;
- states are read when the lookup ends and used after more has happened;
- check and write of a record are separate datastore accesses;
- streams are reused after time-outs, disconnects and cancelled waits;
- the GC of provider records works on a snapshot while records are renewed;
- bounded channels and pools whose other end may have left;
- channels that are closed while goroutines which send on them may still run;
- tables that are replaced one after the other under the eyes of readers;
- a mode that changes while streams are being opened, read and handled.

PROJECT.json lists each of these under "hazards", at the line where it bites.

## 2. Modules and code

| Module | Models | Composition |
|---|---|---|
| `Keyspace` | the peers of a lookup, their distances, the closest of a set | |
| `AbstractLookup` | what a lookup promises to the code that calls it | |
| `Lookup` | `query.go` | extends `Keyspace`, implements `AbstractLookup` |
| `FindPeer` | `FindPeer`, `routing.go` | extends `Lookup` |
| `AbstractPeerset` | what a peerset promises: a map from peers to states | extends `Keyspace` |
| `QueryPeerset` | `qpeerset.go`: the slice and its flag | extends `Keyspace`, implements `AbstractPeerset` |
| `MessageSender` | `message_manager.go`, `ctx_mutex.go` | |
| `RecordStore` | `handlePutValue`, `handleGetValue`, `PutValue` | |
| `ProviderManager` | `records/providers_manager.go`, `provider_set.go` | |
| `ValueSearch` | `SearchValue`, `getValues`, `processValues` | a lookup seen from outside |
| `FindProviders` | `findProvidersAsyncRoutine` | a lookup seen from outside |
| `DualDHT` | `dual/dual.go`: the merge, `FindPeer`, `GetValue` | extends `FindProviders`, the search in the WAN |
| `StreamHandler` | `dht_net.go`, `setMode` and the moves | extends `RecordStore`: streams call its handlers |
| `Crawler` | `crawler.go`: one run | |
| `FullRT` | `fullrt/dht.go`: crawl loop, tables, `TriggerRefresh`, `Close` | extends `Crawler` |
| `ExecOnMany` | `execOnMany` | |
| `FullRTSearch` | `FindProviders`, `SearchValue`, `FindPeer`, `Provide`, `PutValue` of `fullrt` | extends `ExecOnMany` |
| `BulkSend` | `bulkMessageSend`, `divideByChunkSize` | |
| `FullRTOperations` | a user of the full client | composes `FullRTSearch` and `BulkSend` |
| `OptimisticProvide` | `lookup_optim.go` | several calls share one pool |
| `PeerTable` | go-libp2p-kbucket as this code uses it (external) | |
| `RtRefreshManager` | `rt_refresh_manager.go` | extends `PeerTable` |
| `RoutingTable` | `rtPeerLoop` and its partners, `Close` | extends `RtRefreshManager` |
| `RoutingTableProofs`, `MessageSenderProofs`, `ValueSearchProofs` | theorems | each extends its module |
| `ProviderProofs` | theorems about `ProviderManager` and `OptimisticProvide` | extends both |
| `LookupProofs` | theorems about `Lookup`, `FindPeer` and `QueryPeerset` | extends `FindPeer` and `QueryPeerset` |
| `StreamHandlerProofs` | theorems about `RecordStore` and `StreamHandler` | extends `StreamHandler` |
| `DualDHTProofs` | theorems about `FindProviders` and `DualDHT` | extends `DualDHT` |
| `FullRTProofs` | theorems about `FullRTOperations`, and about `FullRT` with `Crawler` | extends `FullRTOperations` and `FullRT` |
| `MCFindPeer`, `MCQueryPeerset`, `MCStreamHandler`, `MCRoutingTable`, `MCDualDHT`, `MCFullRT`, `MCFullRTOperations` | constants for TLC that a .cfg cannot express | each extends its module |

Conventions. A variable `pc` (or one named after the goroutine: `loop`,
`rtLoop`, `worker`) says where a goroutine is; an action is what a goroutine
does between two points at which others can interfere: a channel operation, a
lock, an RPC, a datastore access. `cancelled` is the context of the caller and
may become true at any time. An operator marked "Fault" in its comment is a
plausible slip in the operation that follows it. Nothing in the
specification uses it: substituted for the operation it must break a
property, which shows that the property says something about the code.

**Lookup.** `ps` is `q.queryPeers`; `worker[p]` and `report[p]` are the
goroutine `queryPeer` of `p` and the update it sends; `ch` the channel of
capacity alpha; `pc` walks through `runLookupWithFollowup`: `start`, `run`,
`wait` (the WaitGroup), `followup`, `drain` (after the stop function or the
context ended the follow-ups), and the final points `returned`, `failed` and
`panic`. A step of `run` receives an update, applies `updateState`, tests
termination in the order of the code and spawns as many queries as
`alpha - NumWaiting` allows. `Faulty` peers may fail by themselves; every peer
may fail when a context is cancelled. `stop` is what the stop function
returns, and may change at any time in both directions.

**FindPeer.** The stop function is true once the host is connected to the target. The
module reads the result as `FindPeer` does: the target counts as found if it is
among the peers of the result in state queried, waiting or unreachable.

**QueryPeerset.** The state is the slice `all` of peer, state and referrer (the
distance follows from the peer) and `sorted`. Each `GetClosestNInStates` records
question and answer, and `AbstractPeerset` gives the same answer from the map
alone. Sorting (`sort.Sort`, external) is the choice of a rearrangement of the
slice that is in order, and the filter of `GetClosestNInStates` picks the first
n places of the slice that hold one of the states asked for.

**MessageSender.** One remote peer: `cur` is the map entry, and each sender
object has its lock, its stream and the replies still to be read from it. Reads
time out, streams fail to open, the peer disconnects and the goroutine that
`OnDisconnect` starts invalidates the sender after it left the map, or gives up
when the DHT is closed (`DHT` in `cancelled`, `InvalidateCancelled`). The
encoding of messages is left out; whose reply was read is kept.

**RecordStore.** One key. Each task serves one call at a time: a remote put
(under the striped lock), a remote get (which deletes old records without a
lock) or a local put (without a lock). Records age and values stop validating
at any time; each datastore access may fail.

**StreamHandler.** A task of `RecordStore` is the goroutine of an inbound
stream: it looks at the mode, reads a request, has it handled by the steps of
`RecordStore`, answers and begins again, until the stream ends in one of the
ways of the code. The host gives a stream to the handler first and sets its
protocol after that (external). `toReset` are the streams that
`moveToClientMode` has still to look at while it holds the lock of the mode.
Requests that touch no value record are a single step.

**ProviderManager.** One key; a record is absent, live or expired. The select
of `run` takes any ready case. `errors` chooses which kinds of datastore errors
may occur in a behaviour, so that a property can say what it needs.

**ValueSearch, FindProviders, OptimisticProvide.** These see the lookup from
outside: it runs query functions on up to alpha peers and starts none while its
stop function holds; then it may start follow-ups, all at once, and when the stop
function holds after one of them it cancels the others; it returns when none is
running. That is `AbstractLookup`, which `Lookup` implements
(`LookupFromOutside`), and `LookupReturns` of `Lookup` says that it does return.
A follow-up has a context of its own, which ends with the lookup's decision to
stop: `cut` in `FindProviders` are the providers that follow-ups had noted and
not passed on when that happened. In `OptimisticProvide` all
peers are alike and are counted; which are near enough depends on
estimates of the network size and is a free choice.

**DualDHT.** `merge` is the goroutine of `FindProvidersAsync`. The search in
the WAN is `FindProviders` in full detail, with its channel read by the merge;
the LAN is known by what its channel delivers, in any order and up to `MaxLan`
entries. A third kind of behaviour has a user who reads the channel of one DHT
("direct"), a fourth the calls that go to both DHTs at once (`side`).

**Crawler, FullRT.** `crawl` is `Run`, `worker[w]` a worker with its peer and
its answer; both channels have room for one item, as in the code. An answer is
the set of peers named, empty for a failure. `loop` is `runCrawler`, with the
three replacements as three steps. `GetClosestPeers` is an operator on the
tables: it reads under all three locks, so any state is one it may see.

**ExecOnMany, FullRTSearch, BulkSend, FullRTOperations.** `fn[p]` is the
goroutine of `execOnMany` for `p` and what the function it was given is doing:
`rpc`, `take` (the next item of the answer), `send`, `check`. `putctxDone` is
the context of the functions, `cancelled` that of the user. `reader` is the
goroutine at the other end of the channel: the user, `processValues` or the
collector of FindPeer. In `BulkSend` a message is a peer with the keys it is to
get; the distances are left open, so each key may be close to any peers. One
call at a time is modelled, since calls share only the tables.

**RoutingTable.** `rt`, `replaceable` and `recent` (within the grace period) are
the table; `loop` walks through the refresh loop; `adding` are peers on their
way to `rtPeerLoop`, `received` is the one it has taken and, having looked
whether the table is empty, is about to add: two steps, since each takes the
lock of the table. Lookups show in what they do to the table: a peer that
answered may be on its way at any time, and one whose query fails, or whose
event says that it is not accepted, is removed at any time. No peer is spared: a
ping or a query of a peer that answers fails if another caller's context is
cancelled (`message_manager.go:192`), and the filter may reject it.
`validPeerFound` is the sending half that queries and checks share; what
`peerFound` asks before its check need not hold when the check ends, so it
allows no less. `fixLowPeers` only causes such steps. Peers in `Stopping` may
stop speaking the protocol (`stopped`); they answer no more, but an answer given
before may still be on its way. `refreshCpl` is one prefix length of
`doRefresh`; with a gap it is also the lengths after the gap up to `lastCpl`,
which are refreshed whatever happens to the table meanwhile. `gap` is set if
that cuts lengths off.

## 3. Runs

Bounds are the constants in the .cfg files; no run has a state constraint.

**lookup** (`MCFindPeer`). Three peers at distances that differ, concurrency 2,
beta 2, bucket size 3, one peer faulty and not accepted by the filter. Three
peers are the fewest with which two queries are in flight while a third peer has
been heard of, so that a slot is reused, peers are named twice, and termination
cuts off a query whose answer is already queued. Checks `QueriesAccounted`
(types; no panic; a peer is waiting exactly while its goroutine is in flight or
its update queued, at most alpha are; a report always has room), `ReturnSound`
(no query runs when the lookup has returned; every peer of a completed result
answered or was asked again), `ContactedTargetFound` (a healthy target that
`run` contacted is reported by FindPeer), `EvictOnlyFaulty` (a peer that does
not fail leaves the table only to make room for one that answered) and
`LookupReturns`.

**peerset** (`MCQueryPeerset`). Three peers, two referrers, two
questions: `PeersetInv` (a set flag means a strictly sorted slice) and `ImplementsMap`,
the refinement of `AbstractPeerset`.

**message_sender** (`MessageSender`). Two callers, two sender objects, one
disconnect, the DHT closed at any time; a stream carries one message after the
first failed reuse (`streamReuseTries = 0`), so that both modes occur. `Inv` (an
invalidated sender has no stream and leaves the map, at most one retry),
`ReplyMatchesRequest`, `NoForgottenStreamUncancelled`, `CallsReturn`. Two
callers are enough for one to time out on, cancel or invalidate what the other
uses; two senders for a replacement while the old one is in use.

**server** (`MCStreamHandler`). Two tasks, each a stream after the other or a
call of the local user, and two sequence numbers, starting in either mode.
Two tasks are enough for a put to meet a put, a get that deletes, or the local
user, while a third actor moves the mode at any time; streams come and go
without bound. `ServerInv` (types; what a remote put compared with is what it
overwrites, or that no longer validates; in client mode, after the move, no goroutine
waits for a request on an open stream, not even one that the loop over the
streams passed by because its protocol was not set yet), `HandlersKeepNewest`,
and `ServerLive` (the goroutine of a stream that was reset ends).

**providers** (`ProviderManager`). One client that calls again and again, two
providers, every combination of kinds of errors. One client suffices because
`run` serves one request at a time and requests keep nothing of their caller;
two providers so that one expires while the other is renewed. `Inv`,
`LiveNeverCollected`, `ExpiredLeavesCache`, `CallsServed`.

**value_search** (`ValueSearch`). Two peers, two values, a local record or none,
no quorum and quorum 1. `Inv` (emitted values improve), `SearchFindsBest`,
`HoldersNotUpdated`, `SearchEnds` (the search returns, and the lookup behind it
does unless a quorum left a query function waiting; section 6).

**dual** (`MCDualDHT`). Two peers and the local store, each with up to one
provider in all its responses, two providers with and without addresses, a LAN that
delivers one entry, counts 0 (all) and 1; users who cancel. Two query functions meet at
the limit, one follow-up is cut off by the other while it holds a provider,
and each provider can come from all sides. `Inv` (never more than
count providers; one DHT passes a provider on twice only to add its addresses, the
merge never), `SearchFinds` and `DualFinds` (who does not cancel gets every
provider that was met or as many as asked for, but for those that cancelled
follow-ups gave up; a call to both fails only if
neither could answer), `CallsEnd` (with the searches behind a merge that has
enough).

**full_rt** (`MCFullRT`). Three peers, two of them bootstrap peers that name
each other, two workers, bucket size 1, one caller. The third peer is known
to one peer only, so that crawls differ in what they reach; crawls
follow each other without bound. `FullRTInv` (jobs handed out are accounted for;
when a crawl is over every peer it saw was dialed), `ReadsSteady` (a reader,
also between two replacements, misses no peer that is among the nearest before
and after), `CrawlsEnd` (crawls, `TriggerRefresh` and `Close`).

**full_rt_operations** (`MCFullRTOperations`). Three peers with answers of up
to two items, one of which repeats an item, counts and quorums 0 and 1; two keys, two peers near to them, two
workers, tables of 0, 2 and 8 peers, so that both keys are in one group or each in its own.
`Inv` (no send on a closed channel, each goroutine reports once, at most
count providers, no peer gets a key twice), `SuccessDelivered` (an answer that counts as a success has
reached the reader, whatever ended the query), `BulkComplete` (each key was
tried at, or skipped for, each peer near to it), `OperationEnds`.

**optimistic_provide** (`OptimisticProvide`). Two calls, three peers each,
bucket size 2, thresholds 1 and 2, a pool of one lease: with threshold 1 both
calls have RPCs left and only one of them gets the lease. `ProvideInv` (no send on a closed
channel, no double close, leases match goroutines), `ReturnsSound` (RPCs
left behind are bounded by the pool, a call returns after its threshold),
`ProvideReturns` (for calls that issued an RPC).
**provide_hang** states the same without that condition (`WaitEnds`), which
is violated (section 6).

**routing_table** (`MCRoutingTable`). Two peers at prefix length 3 in a bucket
with one place, one caller, of a forced refresh; one of the peers may stop. So
the peers replace each other, the table empties and fills again, and the lengths
0 to 2 are gaps: the gap at 0 ends the round with length 2 and cuts off length
3. `Inv` (types; no bucket outgrows its size; `BatchServed`: the round that
answers a forcing caller left out no length as not due, and by the gap rule only
those beyond twice the gap), `FreezeAhead` (peers added during a bootstrap are
made irreplaceable: the refresh that starts the timer is to come or the timer
runs, whatever emptied the table), `RefreshAnswered` and `StoppedLeave`.
Deadlock is checked: the system never stops before `Close`.

The runs with `CHECK_DEADLOCK FALSE` model calls that end.

## 4. Fairness

Fairness is assumed only of goroutines and of what the code bounds by a
timeout; never of the user, of cancellation, of failures or of the stop function.

- *Lookup, FindProviders, ValueSearch*: weak fairness of each
  goroutine's steps, the lookup's taking note of a follow-up included. A dial or an RPC ends because streams have read and dial
  timeouts; a caller of a search reads the channel it was given. Nothing makes
  a lookup start another query.
- *MessageSender*: weak fairness of callers and of the goroutine that
  invalidates a dropped sender. A read ends with `dhtReadMessageTimeout`.
  A lock is always released by a caller that itself is fair; weak fairness
  suffices because each caller makes one call.
- *StreamHandler*: weak fairness of each stream's goroutine, of datastore
  accesses and of the loop that resets streams; a read ends with a request or
  with `dhtStreamIdleTimeout`. Strong fairness of taking the lock of the mode and
  of a key: Go hands a mutex to a goroutine that has waited for a millisecond, so
  nobody waits for ever for a lock that is freed again and again.
- *DualDHT*: weak fairness of the goroutines of search and merge and of both
  calls, and a LAN search that ends; the user reads.
- *FullRT*: weak fairness of run, workers (a query has timeouts) and
  replacements; strong fairness of the cases of the select of `runCrawler`,
  which chooses at random among those that are ready. Nothing makes the ticker
  fire.
- *FullRTOperations*: weak fairness of functions (RPCs time out), of
  `execOnMany` (its context ends after `timeoutPerOp`), of readers and of the
  workers of a bulk send.
- *ProviderManager*: strong fairness of serving a client, since the select
  chooses at random among its ready cases and so does not pass over one for
  ever; weak fairness of responding, of the GC and of closing once the
  context is done.
- *OptimisticProvide*: weak fairness of calls and RPCs (`putCtx` has a
  timeout); strong fairness of the goroutines that wait on `doneChan`, as Go
  channels queue their receivers.
- *RoutingTable*: weak fairness of the refresh loop, pings (with timeout), the
  passing of grace periods, the addition of a peer that was received and Close;
  strong fairness of the select cases (request, refresh signal, exit), for the
  reason above. `ReceivePeer` and `FreezeTimer` need none.

## 5. Proofs

Each theorem holds for all constants that satisfy the named assumptions of
its modules:

| Module | Assumptions | What they ask for |
|---|---|---|
| `Keyspace` | `PeersAssumption`, `DistAssumption` | finitely many peers at distinct distances |
| `Lookup`, `FindPeer` | `ParamAssumption`, `TargetAssumption` | positive alpha, beta and K; a target at distance 0 |
| `QueryPeerset` | `AskedAssumption` | any questions: a number and a set of states |
| `RecordStore` | `StoreAssumption` | any ranking of values by natural numbers |
| `PeerTable`, `RtRefreshManager`, `RoutingTable` | `TableAssumption`, `RefreshAssumption`, `StoppingAssumption` | finitely many peers, any prefix lengths, a positive bucket size; any callers, some of them forcing; any peers that may stop |
| `MessageSender` | `SenderAssumption` | finitely many callers and sender objects, any bounds on reuses and disconnects |
| `ValueSearch` | `SearchAssumption` | finitely many peers; values ranked by positive numbers; positive alpha, any quorums |
| `FindProviders`, `DualDHT` | `CountAssumption`, `DualAssumption` | finitely many providers, at least one; responses of bounded length; any counts |
| `ExecOnMany`, `FullRTSearch` | `ExecAssumption`, `SearchAssumption` | finitely many peers, a threshold up to their number; answers are finitely many sequences, which may repeat items |
| `Crawler`, `FullRT` | `CrawlerAssumption`, `FullRTAssumption` | finitely many peers named by their order, at least one worker, any answers, any bootstrap peers, a positive bucket size, finitely many callers |
| `BulkSend` | `BulkAssumption` | at least one key and one worker, finitely many peers, any table sizes (0 included) |
| `OptimisticProvide` | `ProvideAssumption` | finitely many calls, any number of peers, a positive bucket size `K`, thresholds in `1..K`, any pool size |

`ProviderManager` assumes nothing. In each module an inductive invariant `IInv`
was first checked by TLC on the instance of the run.

**LookupProofs.** `TypeCorrect`, then `Invariance`: the conjunction `IInv` of
`TypeOK`, `WaitingAccounted`, `UpdateShape`, `LoopShape` and `NoPanic` is inductive.
`NoPanic` alone is not: a panic is avoided because an update is queued only for
a peer that is waiting and whose goroutine has exited, and because at most
alpha peers are waiting, which is what `WaitingAccounted` says of peerset,
goroutines and channel together. `UpdateShape` says what updates look like
(each reports on the peer that caused it and on no other), `LoopShape` that a lookup which
goes on has work in flight. The lemmas `PeerRanks`, `ClosestBound` and
`ClosestNonEmpty` state what the closest n of any set are:
at most n peers, and at least one if there is one. From `IInv` follow
`NeverPanics`, `WaitingIsAccounted`, `ReportsNeverBlock` (the waiting peers
without a queued update are at least as many as the goroutines about to send),
`NeverStuck`, `EvictsOnlyFaulty` and `ContactsOnce`. A second invariant `FInv`
on top of it (no active goroutine once `run` has ended, follow-ups running only in
`followup` and `drain`, every peer of the result queried or followed
up) gives `ReturnsQuiescent` and `CompletedWasQueried`. `EngineSafe` and
`ReturnsSound` put them together as the run checks them. `TargetFound` rests on
`ResultStays` (once `run` is over the result is that of a peerset nothing
changes any more): a contacted target is waiting or queried, and at distance 0
nobody is nearer, so it is among the K peers of the result.

The lookup from outside: `LookupFromOutside` maps the point of the code to a
stage, the goroutines to the peers being asked, and each step of `Lookup` to a step or a
stutter of `AbstractLookup` (`StepSeen`). The bound on the peers asked at a time is
that on waiting peers in `IInv`; that the follow-ups start with nobody being
asked is in `FInv`. So what is shown about the searches with a lookup of this
kind holds for the lookup of the code.

The peerset: `PeersetInv` is not inductive, since sorting makes a slice strictly
ascending only if no peer is in it twice; `PeersetIInv` adds that. No induction over slices is needed. A sorted slice is known only
by what `sort.Sort` promises (`Sorting`); where a peer stands among those a
question is about is the number of peers nearer than it (`NearerIsBefore`,
`IdsInOrder`), so the first n are the nearest n (`AnswerIsNearest`). With it every
operation maps to that of `AbstractPeerset` and a sort to a stutter
(`SliceImplementsMap`). `AnswersAreClosest` ties the slice to the lookup: an
answer has exactly the peers that `Closest` gives the engine.

**StreamHandlerProofs**, the store. `Invariance` of `TypeOK`, `Begun` (what a task holds at
each point), `LockHeld` (a remote put between its read and its write holds the
lock), `Preferred` (Select ranked its value at least as high as what it read) and
`ComparedIsCurrent`. The lock is what makes `ComparedIsCurrent` inductive: no
other remote put can write, a delete leaves nothing to downgrade, and a record
that stops validating does not validate again. `ComparesWithCurrent` and
`RemotePutsKeepNewest` follow.

The streams: every step of the server is a step or a stutter of
`RecordStore` (`StoreRefined`), so that its invariant and the step lemma behind
`RemotePutsKeepNewest` carry over. `ClientDeaf` needs two facts more:
`ProtocolSet` (a stream has its protocol as soon as its goroutine looks at the
mode) and `ReadersToReset` (in client mode a goroutine that waits for a request
has a stream that is reset or still to be looked at): it read the mode before
the move, and its protocol was set before that. Together they are inductive and give
`ServerSafe`; `ServerKeepsNewest` is the promise about records, for any number
of streams, values and moves.

**ProviderProofs**, the provider manager. `Inv` (types, `GCSound`, `CacheComplete`) is inductive as
it stands. `LiveSurvives` follows from `GCSound`: what the GC may delete is
expired, or marked to be skipped.

The optimistic provide: `ProvideInv` says where the tokens of finished RPCs are,
but nothing of the RPCs still running, so it is not inductive. `Counted` adds
that: from the second loop of `waitForRPCs` on, every RPC of a call is counted,
or has one iteration, one waiting goroutine or one releasing goroutine left for
it; and `doneChan` is closed when all are counted. `LeasesHeld` says that the
pool holds one lease per goroutine of `consumeDoneChan`. The sum over all calls
is the number of pairs of a call and a number up to its value, so that what a
step adds to it is the size of one set less that of another
(`SumGrows`, `SumMonotone`, from `FiniteSetTheorems`) and no induction over the
calls is needed. `TokensAndLeases` is `ProvideInv` of the run.
`ProvideReturnsSound` follows since a call that has returned has a waiting
goroutine for each RPC it left behind, and with it a lease.

**RoutingTableProofs.** `TableInv` (types and `BucketsBounded`) is inductive;
the core is that a peer is added to a bucket with room or in place of another of
the same bucket, for which sizes of sets are compared (`FiniteSetTheorems`);
that there is a longest prefix to look at needs that a finite set of numbers has
a maximum (`MaxExists`, from the well-founded order of subsets). On top of it
`BatchInv`: `Fresh` (a round begins with nothing skipped), `ForcedStays` (the
batch of a forcing caller is forced), `ForcedSkipsNone` (a forced round finds
nothing not due) and `LengthsDone` (a round that tells the DHT has gone through
all lengths, one that does not left out those the gap rule cuts off,
`GapCutsOff`). They give `BatchIsServed`: the flag says nothing about lengths
the loop never reached, so the lengths are counted too. `TableConsistent` puts
both together. For `FreezeIsAhead`, `FreezeAhead` is not inductive: a peer is
added as replaceable on the strength of `isBootstrapping`, and `Uncounted` says
that then no refresh has been counted.

**MessageSenderProofs.** The lock of a sender is held exactly by the caller at
work on its stream (`LockInv`), so nobody else invalidates it meanwhile
(`HolderValid`), and the one reply under way on a stream is the one its reader
waits for (`OwnReply`: whoever stops reading early closes the stream). From
these follow `RepliesMatch` and, with `SendsAccounted` and `DroppedLeft`,
`SendersConsistent`. `NoneForgotten` needs `LeavesByInvalidation`: without a
cancellation a sender leaves the map only to be invalidated, by its caller or by
the goroutine of `OnDisconnect`. With one, the DHT's included, it does not hold
(section 6).

**ValueSearchProofs.** `SearchFindsBest` is not inductive. `Compared` says what
it means on the way: a value that was sent still waits in the channel, or was
compared with the best, and its sender noted. `ReturnedIsQuiet` and
`EndedDrained` say that a search ending by itself has emptied a channel nobody
sends on any more; `Emitted` relates what the caller saw to the best value.
`ValuesImprove`, `FindsBest` and `HoldersSpared` follow.

**DualDHTProofs.** The search: `Carried` (what the set `ps` knows of a provider
is with the caller, in the hand of a worker or given up by a follow-up),
`CutEnough` (follow-ups are cut off only with enough providers), `SeenNoted` (what was met is in
`ps` unless that is full) and `Distinct` (entries in hand and passed on
differ) with `PassedNoted` and `Phases`. The bound on the providers in `out`
compares the size of `ps` with that of the set of its identifiers. The merge:
`AllMerged` and `ReturnedComplete` carry completeness through the merging
goroutine, `GotAll` says what the user of both then has, `CancelledBy` and `WanEnded` say who may have cut the search off.
`EntriesOnce`, `SearchComplete` and `DualComplete` follow.

**FullRTProofs**, the operations. For a search, the order of routine and `execOnMany`
(`CallOrder`: without sloppy exit it returns after all functions) with
`ReportsAccounted` gives `NoSendOnClosed`. For the items: `Owned` (a provider
has one owner, the user or one function that is sending it), `AddedSent` (an added
provider is with the user, being sent, or cut off) and `ItemsHandled` (what a
function has dealt with was added, is in the buffer or was received), relative to
the place a function has reached (`Positions`). They give `AtMostCount` and
`AnswersDelivered`. For a bulk send, `OnePlace` and `Accounted` say that each
pair of a peer and a key is in exactly one of: the group, the channel, the hand
of a worker, tried, skipped; with the order of the goroutines (`BulkOrder`)
`BulkLosesNothing` follows, and `OperationsSafe` is `Inv` of the run.

The crawl: `FullRTInv` says at its end what only counting shows on the way. A peer
is on the way as often as it is in the list to dial, in the job channel, at a
worker or in the result channel; `FullRTIInv` adds that this, with how often it was
handled, is at most one more than the number of bootstrap entries for it
(`DialsBounded`), that the peers seen are those handled or on the
way (`SeenIsDialed`), and that `Run` closes the jobs with nothing left to do (`Closed`). When no job is
outstanding nothing is on the way (`CrawlDrained`), so all that was seen was
handled: `CrawlsComplete`. How often a peer is in a sequence is the size of the
set of its places, so that moving a job from one place to the next is a fact
about two sets and no induction. For the readers, `Tables` says at each point of
the replacement which table is the old one and which the new one, and a peer
among the nearest of both is among the nearest in any mixture
(`NearestInBoth`): `ReadersMissNothing`, for any number of peers and crawls.

Only model-checked: the liveness properties, since the prover handles neither
fairness nor ENABLED.

## 6. Disagreements between code and comments

Shown by a run:

1. `lookup_optim.go:274` - if no RPC was issued, the loop that waits for
   `returnThreshold` (then 0) RPCs waits for ever (`provide_hang`).

Met while modelling and part of the models; the property beside
each one says what remains true:

- `query.go:79-80` - `completed` is described as "reached end", but line 243
  computes it from the states after termination, so a stopped or cancelled
  lookup can be completed (`ReturnSound` holds all the same).
- `routing.go:676-679` - FindPeer also reads the state unreachable, which
  `query.go:246` never puts into a result.
- `message_manager.go:153` - a caller whose wait for the lock is cancelled
  removes its sender from the map without invalidating it, and a stream that
  another caller opens on it afterwards is forgotten, against the comment at
  174-176 (`NoForgottenStreamUncancelled`).
- `message_manager.go:61-63` - once the DHT is closed, the goroutine that is to
  invalidate the sender of a disconnected peer may give up, and the sender stays
  valid outside the map, with its stream, for a caller that has it.
- `message_manager.go:192` - one caller's cancelled context fails the opening of
  a stream and invalidates the sender for another caller as well, whose query
  then fails. With it `queryPeer` (`query.go:430-432`) evicts the peer, and
  `pingAndEvictPeers` (`rt_refresh_manager.go:150-165`) one that answers pings.
- `rtrefresh/rt_refresh_manager.go:273-280` - "all buckets will be refreshed
  irrespective of when they were last refreshed" if forced (line 103), but in a
  forced round too the prefix lengths beyond twice the first gap are not
  refreshed (`BatchServed` says that these are all).
- `dht.go:622` - the size of the table is read before the peer is added: if the
  table empties in between, its first peer starts no bootstrap and is not
  replaceable (`FreezeAhead` is about those that are).
- `routing.go:67` - `PutValue` reads, compares and writes without the lock that
  `handlePutValue` holds; a record with a higher sequence number that arrives in
  between is overwritten, although the check is there to prevent it
  (`handlers.go:185-187`) and `PutValue` refuses with "can't replace a newer
  value with an older value" (`HandlersKeepNewest` is about remote puts).
- `routing.go:341` - after the quorum nobody reads `valCh`; a query function
  with a value waits until the caller's context ends, and the lookup with it,
  although a lookup is said to stop when the stop function returns true
  (`query.go:84-85`; `SearchEnds`). The search itself returns.
- `handlers.go:132` - a get that finds an old record deletes whatever is there
  by then, also a fresh one ("old record found, tossing.", line 123).
- `records/providers_manager.go:231` - after a failed GC query the timer is not
  set again (`ExpiredLeavesCache` assumes that queries do not fail).
- `routing.go:210` - the quorum is exceeded, not reached, before the search
  stops, against `routing_options.go:8-9`.
- `routing.go:526` - a provider passed on again to add its addresses counts once
  in the set and twice for the reader of the channel (`AtMostCount` is about
  different providers).
- `routing.go:594` - when a follow-up of a provider search sees that there are
  enough providers, the context of the other follow-ups is cancelled, and one
  that has counted a provider gives it up. A caller that did not cancel may so
  get fewer than count, even none, although "Peers will be returned on the
  channel as soon as they are found" (line 490; `SearchFinds` says that nothing
  else is lost).
- `rtrefresh/rt_refresh_manager.go:280` - a round that meets a gap returns
  without writing to `refreshDoneCh`, which is described as written after every
  refresh; a bootstrap may then not be seen to end.
- `fullrt/dht.go:375-386` - `GetClosestPeers` takes three locks so that the
  tables "cannot be changed during a GetClosestPeers call. Otherwise peers may
  be removed, resulting in keys missing in maps" (482-484), but `runCrawler`
  replaces them one by one, so a reader in between does find keys that the map
  lacks (`ReadsSteady` says what it does not miss).
- `fullrt/dht.go:1425` - a function that finds enough providers cancels the
  query while another holds one that it has counted and not yet sent: the user
  may get fewer than count, even none (`SuccessDelivered`).
- `fullrt/dht.go:1131` - a bulk send with an empty table divides by zero: the
  model reaches its `panic` state.
- `fullrt/dht.go:325` - a crawl that reaches nobody leaves the tables empty, and
  the next one has only the bootstrap peers. Bootstrap peers that were found too
  are dialed twice (`CrawlComplete`).
- `fullrt/dht.go` - the limit of the IP diversity filter is an option that
  `NewFullRT` never copies; the `stopCh` of a search is closed and never read.
- `dual/dual.go:232` - a provider that a search passes on again to add its
  addresses is dropped by the merge.

## 7. What is not modelled, and why

- Left out of the modelled parts: wording, logging, tracing, metrics, events,
  message encoding, the errors collected for callers, and timestamps in the routing table
  that only rank peers.
- *Classic Provide, GetClosestPeers*: a lookup, whose result is read, and a
  wait for all RPCs with no state shared between them.
- *Other handlers*: they read the stores and the table and keep no state.
- *Lookup check capacity, persisting peers*: a counter that bounds checks, and
  writes nobody in this code reads again while it runs.
- *Full client*: `CheckPeers`, the update of peers after a search for a value
  (as in `ValueSearch`), `Ready`, and the local record of `PutValue` (as
  in `RecordStore`).
- *Dual DHT*: `SearchValue` and `GetPublicKey` hand both DHTs to the routing
  helpers of another library; the other operations choose one DHT, or call both
  in turn.
- *Protocol messenger*: stateless.
- *Public keys*: two lookups whose answers go into channels with room for them;
  nothing waits and nothing is shared.
- *Network size estimator*: statistics on floating-point numbers, out of the
  tools' reach.
- *Filters*: predicates on addresses. *Options, generated code*: no behaviour.
- `providers/`: a deprecated copy of `records/`.

## 8. Plan

Done, in this order: lookup and its proofs, peerset, FindPeer, message sender,
record store, provider manager, value search, provider search, optimistic
provide, refresh and routing table; then crawler and full client, dual DHT,
stream handler and mode with its proofs; then the proofs of message sender,
value search, provider search and dual DHT, routing table, FindPeer, the
operations of the full client and the optimistic provide; then those of the
peerset, of crawls and tables of the full client, and of the view of a lookup
from outside, with the follow-ups of a provider search that it asked for.

Next: a composition of `Lookup` with `MessageSender`, for what
`message_manager.go:192` does to another lookup.
