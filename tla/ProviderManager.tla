--------------------------- MODULE ProviderManager ---------------------------
(***************************************************************************)
(* records/providers_manager.go for one key: the goroutine of run serves   *)
(* AddProvider and GetProviders, keeps a cache of the provider set and     *)
(* collects expired records with a query that runs between the calls.      *)
(*                                                                         *)
(* A provider record is its age, live or expired (older than               *)
(* ProvideValidity).  The times kept in a cached set are never read, so    *)
(* the cache is the set of its providers, {} when the key is not cached    *)
(* (an empty set is never cached).                                         *)
(***************************************************************************)
EXTENDS Integers, FiniteSets

CONSTANTS
  Clients,    \* goroutines that call AddProvider or GetProviders, in turn
  Provs       \* the providers

VARIABLES
  dstore,     \* dstore[p]: record of provider p: "absent", "live" or "expired"
  cache,      \* the cached providerSet
  gcTimer,    \* the timer is armed (or has fired unnoticed)
  gcRunning,  \* a GC is in progress: gcQueryRes and gcSkip are not nil
  gcQuery,    \* providers whose records the GC query has still to deliver
  gcOld,      \* those of them whose record was expired at gcTime
  gcSkip,     \* providers updated since the GC started
  run,        \* "running", "closing" (ctx is done), "closed"
  pc,         \* pc[c]: what client c does
  resp,       \* resp[c]: the answer in the channel of c's getProv
  errors      \* what the datastore may fail to do; never changes

gcVars == <<gcTimer, gcRunning, gcQuery, gcOld, gcSkip>>
clientVars == <<pc, resp>>
vars == <<dstore, cache, gcVars, run, clientVars, errors>>

(* Queries may return error entries, queries may fail, Put and Delete may. *)
ReadErrors == "read" \in errors
QueryErrors == "query" \in errors
WriteErrors == "write" \in errors

Live == {p \in Provs : dstore[p] = "live"}
Expired == {p \in Provs : dstore[p] = "expired"}

NewProviderManager ==
  /\ dstore \in [Provs -> {"absent", "live", "expired"}]
  /\ cache = {}
  /\ gcTimer = TRUE
  /\ gcRunning = FALSE
  /\ gcQuery = {}
  /\ gcOld = {}
  /\ gcSkip = {}
  /\ run = "running"
  /\ pc = [c \in Clients |-> "idle"]
  /\ resp = [c \in Clients |-> {}]
  /\ errors \in SUBSET {"read", "query", "write"}

Goto(c, l) == pc' = [pc EXCEPT ![c] = l]

(* run is in its select: it may take any ready case, the others although ctx
   is done too. *)
Selecting == run # "closed"

-----------------------------------------------------------------------------
(* Clients.  The channels have no buffer: a call waits until run takes it.
   Which provider an AddProvider names is chosen when run takes it. *)

AddProvider(c) ==
  /\ pc[c] = "idle"
  /\ Goto(c, "add")
  /\ UNCHANGED <<dstore, cache, gcVars, run, resp, errors>>

GetProviders(c) ==
  /\ pc[c] = "idle"
  /\ Goto(c, "get")
  /\ UNCHANGED <<dstore, cache, gcVars, run, resp, errors>>

(* ctx.Done wins in one of the selects of a call. *)
CallCancelled(c) ==
  /\ pc[c] \in {"add", "get", "resp"}
  /\ Goto(c, "idle")
  /\ resp' = [resp EXCEPT ![c] = {}]
  /\ UNCHANGED <<dstore, cache, gcVars, run, errors>>

(* Fault: an empty answer is not sent. *)
RespondNonEmpty(c) ==
  /\ pc[c] = "resp"
  /\ resp[c] # {}
  /\ Goto(c, "idle")
  /\ resp' = [resp EXCEPT ![c] = {}]
  /\ UNCHANGED <<dstore, cache, gcVars, run, errors>>

Respond(c) ==
  /\ pc[c] = "resp"
  /\ Goto(c, "idle")
  /\ resp' = [resp EXCEPT ![c] = {}]
  /\ UNCHANGED <<dstore, cache, gcVars, run, errors>>

-----------------------------------------------------------------------------
(* Fault: the record is written past the cache. *)
addProvUncached(c, p) ==
  /\ Selecting
  /\ pc[c] = "add"
  /\ dstore' = [dstore EXCEPT ![p] = "live"]
  /\ gcSkip' = IF gcRunning THEN gcSkip \cup {p} ELSE gcSkip
  /\ Goto(c, "idle")
  /\ UNCHANGED <<cache, gcTimer, gcRunning, gcQuery, gcOld, run, resp, errors>>

(* run, case np := <-pm.newprovs.  The cached set is updated before the
   record is written; only a written record is skipped by the GC. *)
addProv(c, p) ==
  /\ Selecting
  /\ pc[c] = "add"
  /\ cache' = IF cache = {} THEN {} ELSE cache \cup {p}
  /\ \/ /\ dstore' = [dstore EXCEPT ![p] = "live"]
        /\ gcSkip' = IF gcRunning THEN gcSkip \cup {p} ELSE gcSkip
     \/ /\ WriteErrors
        /\ UNCHANGED <<dstore, gcSkip>>
  /\ Goto(c, "idle")
  /\ UNCHANGED <<gcTimer, gcRunning, gcQuery, gcOld, run, resp, errors>>

(* loadProviderSet deletes the expired records it meets.  Entries the query
   could not read (bad) are left out of the set, and a failed Delete (kept)
   is ignored. *)
Failing(possible) == IF possible THEN SUBSET Provs ELSE {{}}

loadProviderSet(bad) ==
  /\ \E kept \in Failing(WriteErrors) :
       dstore' = [p \in Provs |-> IF p \in Expired \ (bad \cup kept) THEN "absent" ELSE dstore[p]]
  /\ cache' = Live \ bad

(* run, case gp := <-pm.getprovs: from the cache, or loaded and cached when
   not empty; a failed query answers with no provider. *)
getProvidersForKey(c) ==
  /\ Selecting
  /\ pc[c] = "get"
  /\ \/ /\ cache # {}
        /\ resp' = [resp EXCEPT ![c] = cache]
        /\ UNCHANGED <<dstore, cache>>
     \/ /\ cache = {}
        /\ \E bad \in Failing(ReadErrors) :
             /\ loadProviderSet(bad)
             /\ resp' = [resp EXCEPT ![c] = Live \ bad]
     \/ /\ cache = {} /\ QueryErrors
        /\ resp' = [resp EXCEPT ![c] = {}]
        /\ UNCHANGED <<dstore, cache>>
  /\ Goto(c, "resp")
  /\ UNCHANGED <<gcVars, run, errors>>

-----------------------------------------------------------------------------
(* Garbage collection *)

(* Fault: the cache is not dropped. *)
StartGCKeepsCache ==
  /\ Selecting
  /\ gcTimer
  /\ gcTimer' = FALSE
  /\ gcRunning' = TRUE
  /\ gcQuery' = Live \cup Expired
  /\ gcOld' = Expired
  /\ gcSkip' = {}
  /\ UNCHANGED <<dstore, cache, run, clientVars, errors>>

(* case gcTime = <-gcTimer.C: drop the cache and start a query over a snapshot
   of the records. *)
StartGC ==
  /\ Selecting
  /\ gcTimer
  /\ gcTimer' = FALSE
  /\ cache' = {}
  /\ \/ /\ gcRunning' = TRUE
        /\ gcQuery' = Live \cup Expired
        /\ gcOld' = Expired
        /\ gcSkip' = {}
     \/ /\ QueryErrors
        /\ UNCHANGED <<gcRunning, gcQuery, gcOld, gcSkip>>
  /\ UNCHANGED <<dstore, run, clientVars, errors>>

(* Fault: records updated since the GC started are not skipped. *)
GCResultNoSkip(p) ==
  /\ Selecting
  /\ gcRunning /\ p \in gcQuery
  /\ gcQuery' = gcQuery \ {p}
  /\ gcOld' = gcOld \ {p}
  /\ dstore' = IF p \in gcOld THEN [dstore EXCEPT ![p] = "absent"] ELSE dstore
  /\ UNCHANGED <<cache, gcTimer, gcRunning, gcSkip, run, clientVars, errors>>

(* case res := <-gcQueryRes: skip what was updated meanwhile, delete what had
   expired when the GC started; an error entry or a failed Delete is logged. *)
GCResult(p) ==
  /\ Selecting
  /\ gcRunning /\ p \in gcQuery
  /\ gcQuery' = gcQuery \ {p}
  /\ gcOld' = gcOld \ {p}
  /\ \/ /\ p \in gcOld \ gcSkip
        /\ dstore' = [dstore EXCEPT ![p] = "absent"]
     \/ /\ p \notin gcOld \/ p \in gcSkip \/ ReadErrors \/ WriteErrors
        /\ UNCHANGED dstore
  /\ UNCHANGED <<cache, gcTimer, gcRunning, gcSkip, run, clientVars, errors>>

(* case <-gcQueryRes, closed: the timer is set again. *)
EndGC ==
  /\ Selecting
  /\ gcRunning /\ gcQuery = {}
  /\ gcRunning' = FALSE
  /\ gcSkip' = {}
  /\ gcTimer' = TRUE
  /\ UNCHANGED <<dstore, cache, gcQuery, gcOld, run, clientVars, errors>>

-----------------------------------------------------------------------------
(* Close cancels the context; run returns, the deferred calls end the query
   and flush the datastore. *)
Close ==
  /\ run = "running"
  /\ run' = "closing"
  /\ UNCHANGED <<dstore, cache, gcVars, clientVars, errors>>

Stop ==
  /\ run = "closing"
  /\ run' = "closed"
  /\ gcTimer' = FALSE
  /\ gcRunning' = FALSE
  /\ gcQuery' = {}
  /\ gcOld' = {}
  /\ gcSkip' = {}
  /\ UNCHANGED <<dstore, cache, clientVars, errors>>

(* The record of p becomes older than ProvideValidity. *)
Expire(p) ==
  /\ dstore[p] = "live"
  /\ dstore' = [dstore EXCEPT ![p] = "expired"]
  /\ UNCHANGED <<cache, gcVars, run, clientVars, errors>>

(* The cache holds lruCacheSize keys: the sets of other keys push this out. *)
Evict ==
  /\ cache # {}
  /\ cache' = {}
  /\ UNCHANGED <<dstore, gcVars, run, clientVars, errors>>

-----------------------------------------------------------------------------
Serve(c) == (\E p \in Provs : addProv(c, p)) \/ getProvidersForKey(c)

GC == StartGC \/ (\E p \in Provs : GCResult(p)) \/ EndGC

Next ==
  \/ \E c \in Clients : AddProvider(c) \/ GetProviders(c) \/ CallCancelled(c) \/ Respond(c) \/ Serve(c)
  \/ GC
  \/ Close \/ Stop
  \/ \E p \in Provs : Expire(p)
  \/ Evict

(* The select of run chooses fairly among its ready cases: a waiting call, a
   GC result or the timer is taken in the end. *)
Fairness ==
  /\ \A c \in Clients : SF_vars(Serve(c)) /\ WF_vars(Respond(c))
  /\ WF_vars(GC)
  /\ WF_vars(Stop)

Spec == NewProviderManager /\ [][Next]_vars /\ Fairness

-----------------------------------------------------------------------------
(* Properties *)

(* The variables keep their types. *)
TypeOK ==
  /\ dstore \in [Provs -> {"absent", "live", "expired"}]
  /\ cache \in SUBSET Provs
  /\ gcTimer \in BOOLEAN
  /\ gcRunning \in BOOLEAN
  /\ gcQuery \in SUBSET Provs
  /\ gcOld \in SUBSET Provs
  /\ gcSkip \in SUBSET Provs
  /\ run \in {"running", "closing", "closed"}
  /\ pc \in [Clients -> {"idle", "add", "get", "resp"}]
  /\ resp \in [Clients -> SUBSET Provs]
  /\ errors \in SUBSET {"read", "query", "write"}

(* While a GC runs the timer is not armed, and what the GC has yet to visit
   and may delete is either still expired or marked to be skipped. *)
GCSound ==
  gcRunning =>
    /\ ~gcTimer
    /\ \A p \in gcOld : dstore[p] = "live" => p \in gcSkip

(* Unless a query that loaded it had error entries, the cached set lacks no
   live provider, whatever the order of writes, expiry, loads and GC:
   GetProviders may answer from it. *)
CacheComplete == ~ReadErrors /\ cache # {} => Live \subseteq cache

(* The state of the run goroutine is consistent: its types, the GC round
   (GCSound) and the cache (CacheComplete). *)
Inv == TypeOK /\ GCSound /\ CacheComplete

(* A live record is never deleted, although the GC works through a snapshot
   while providers renew their records ("tell it to skip this provider as
   we've updated it since the GC started"). *)
LiveNeverCollected ==
  [][\A p \in Provs : dstore[p] = "live" => dstore'[p] # "absent"]_vars

(* A provider whose record has expired is not served from the cache for ever,
   unless it comes back; GC must go on, and drop the cache, for this. *)
ExpiredLeavesCache ==
  \A p \in Provs :
    p \in cache /\ p \notin Live /\ ~QueryErrors
      ~> p \notin cache \/ p \in Live \/ run = "closed"

(* A call returns unless the manager is closed; after that only its own
   context ends it. *)
CallsServed == \A c \in Clients : pc[c] # "idle" ~> pc[c] = "idle" \/ run = "closed"
=============================================================================
