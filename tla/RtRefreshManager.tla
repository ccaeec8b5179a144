--------------------------- MODULE RtRefreshManager ---------------------------
(***************************************************************************)
(* rtrefresh/rt_refresh_manager.go: one goroutine that batches requests    *)
(* for a refresh, pings the peers it has not heard of for long, runs a     *)
(* query for itself and for each prefix length, tells the DHT that it is   *)
(* done and answers the callers.  With automatic refreshes, as configured  *)
(* by default.  A query shows here only in whether it failed; what it does *)
(* to the table is in module RoutingTable.  The errors a round collects    *)
(* for its callers are left out.                                           *)
(***************************************************************************)
EXTENDS PeerTable

CONSTANTS
  Callers,  \* calls of Refresh
  Forcing   \* those that force a refresh

ASSUME RefreshAssumption == Forcing \subseteq Callers

VARIABLES
  refresh,     \* refresh[c]: "idle", "asking", "batched" or "answered"
  loop,        \* where the loop is
  forced,      \* a request of the batch forces the refresh
  pinging,     \* peers being pinged
  refreshCpls, \* how many prefix lengths the table tracks
  cpl,         \* next prefix length to look at
  gap,         \* the prefix length without peers that cut the round short, if any did
  skipped,     \* a prefix length looked at in this round was not due and left out
  ctxDone      \* the context of the DHT is cancelled

cplVars == <<refreshCpls, cpl, gap, skipped>>
roundVars == <<forced, pinging, cplVars>>
refreshVars == <<refresh, loop, roundVars>>

NoGap == -1

(* The first refresh runs before the loop is entered. *)
InitRefresh ==
  /\ refresh = [c \in Callers |-> "idle"]
  /\ loop = "self"
  /\ forced = TRUE
  /\ pinging = {}
  /\ refreshCpls = 0 /\ cpl = 0 /\ gap = NoGap /\ skipped = FALSE

-----------------------------------------------------------------------------
(* Requests *)

Refresh(c) ==
  /\ refresh[c] = "idle"
  /\ refresh' = [refresh EXCEPT ![c] = "asking"]
  /\ UNCHANGED <<tableVars, loop, roundVars, ctxDone>>

(* The goroutine of Refresh gives up when the DHT is closed. *)
RefreshCancelled(c) ==
  /\ refresh[c] = "asking"
  /\ ctxDone
  /\ refresh' = [refresh EXCEPT ![c] = "answered"]
  /\ UNCHANGED <<tableVars, loop, roundVars, ctxDone>>

(* Fault: only the first request of a batch can force it. *)
TriggerFirst(c) ==
  /\ refresh[c] = "asking"
  /\ loop \in {"select", "batch"}
  /\ refresh' = [refresh EXCEPT ![c] = "batched"]
  /\ forced' = IF loop = "select" THEN c \in Forcing ELSE forced
  /\ loop' = "batch"
  /\ UNCHANGED <<tableVars, pinging, cplVars, ctxDone>>

(* The loop receives a request, the first one or one more of the batch. *)
Trigger(c) ==
  /\ refresh[c] = "asking"
  /\ loop \in {"select", "batch"}
  /\ refresh' = [refresh EXCEPT ![c] = "batched"]
  /\ forced' = (forced \/ c \in Forcing)
  /\ loop' = "batch"
  /\ UNCHANGED <<tableVars, pinging, cplVars, ctxDone>>

(* The ticker, or RefreshNoWait: a request that nobody waits for, and that is
   dropped when the loop is not waiting for one. *)
Tick ==
  /\ loop = "select"
  /\ loop' = "batch"
  /\ UNCHANGED <<tableVars, refresh, roundVars, ctxDone>>

LoopExits ==
  /\ loop = "select"
  /\ ctxDone
  /\ loop' = "exited"
  /\ UNCHANGED <<tableVars, refresh, roundVars, ctxDone>>

-----------------------------------------------------------------------------
(* pingAndEvictPeers *)

(* Fault: peers that may be replaced are not pinged. *)
StartPingsIrreplaceable ==
  /\ loop = "batch"
  /\ loop' = "ping"
  /\ pinging' = rt \ (recent \cup replaceable)
  /\ UNCHANGED <<tableVars, refresh, forced, cplVars, ctxDone>>

StartPings ==
  /\ loop = "batch"
  /\ loop' = "ping"
  /\ pinging' = rt \ recent
  /\ UNCHANGED <<tableVars, refresh, forced, cplVars, ctxDone>>

PingOk(p) ==
  /\ p \in pinging
  /\ pinging' = pinging \ {p}
  /\ UNCHANGED <<tableVars, refresh, loop, forced, cplVars, ctxDone>>

(* Connecting or the request fails.  It may fail for a peer that answers, too:
   the DHT is closed, or another caller's cancelled context invalidates the
   message sender. *)
PingFails(p) ==
  /\ p \in pinging
  /\ pinging' = pinging \ {p}
  /\ RemovePeer(p)
  /\ UNCHANGED <<refresh, loop, forced, cplVars, ctxDone>>

PingsDone ==
  /\ loop = "ping"
  /\ pinging = {}
  /\ loop' = "self"
  /\ UNCHANGED <<tableVars, refresh, roundVars, ctxDone>>

-----------------------------------------------------------------------------
(* doRefresh *)

queryForSelf ==
  /\ loop = "self"
  /\ loop' = "cpl"
  /\ refreshCpls' = NumTrackedCpls
  /\ UNCHANGED <<tableVars, refresh, forced, pinging, cpl, gap, skipped, ctxDone>>

(* The query for a prefix length is run, and fails or not, or is not due yet
   unless it is forced. *)
rfnc(failed) ==
  skipped' \in IF forced \/ failed THEN {skipped} ELSE {skipped, TRUE}

(* The last prefix length to look at after a gap at c *)
lastCpl(c) == Min({2 * (c + 1), refreshCpls - 1})

(* The gap c and the lengths after it up to lastCpl are refreshed, whatever the
   table looks like by then, and doRefresh returns without telling the DHT. *)
refreshAfterGap(c) ==
  /\ rfnc(FALSE)
  /\ cpl' = lastCpl(c) + 1
  /\ gap' = IF lastCpl(c) < refreshCpls - 1 THEN c ELSE NoGap
  /\ loop' = "reply"

(* One prefix length.  The first one without peers is a gap; after the last one
   the DHT is told. *)
refreshCpl ==
  /\ loop = "cpl"
  /\ \/ /\ Bucket(cpl) = {}
        /\ refreshAfterGap(cpl)
     \/ /\ \E failed \in BOOLEAN : (failed \/ Bucket(cpl) # {}) /\ rfnc(failed)
        /\ cpl' = cpl + 1
        /\ loop' = IF cpl + 1 = refreshCpls THEN "signal" ELSE "cpl"
        /\ UNCHANGED gap
  /\ UNCHANGED <<tableVars, refresh, forced, pinging, refreshCpls, ctxDone>>

(* The sending half of refreshDoneCh; the receiver is rtPeerLoop. *)
SendRefreshDone ==
  /\ loop = "signal"
  /\ loop' = "reply"

(* Fault: the end of the context does not end the wait for the receiver. *)
SignalCancelledNever ==
  /\ loop = "signal"
  /\ FALSE
  /\ UNCHANGED <<tableVars, refreshVars, ctxDone>>

SignalCancelled ==
  /\ loop = "signal"
  /\ ctxDone
  /\ loop' = "reply"
  /\ UNCHANGED <<tableVars, refresh, roundVars, ctxDone>>

(* Every caller of the batch is answered, and the loop starts over. *)
Reply ==
  /\ loop = "reply"
  /\ refresh' = [c \in Callers |-> IF refresh[c] = "batched" THEN "answered" ELSE refresh[c]]
  /\ loop' = "select"
  /\ forced' = FALSE
  /\ refreshCpls' = 0 /\ cpl' = 0 /\ gap' = NoGap /\ skipped' = FALSE
  /\ UNCHANGED <<tableVars, pinging, ctxDone>>

-----------------------------------------------------------------------------
RefreshLoop ==
  \/ (\E c \in Callers : Trigger(c)) \/ Tick \/ LoopExits
  \/ StartPings \/ PingsDone
  \/ queryForSelf \/ refreshCpl \/ SignalCancelled \/ Reply
=============================================================================
