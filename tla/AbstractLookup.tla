--------------------------- MODULE AbstractLookup ---------------------------
(***************************************************************************)
(* What runLookupWithFollowup promises to the code that calls it: its      *)
(* query function runs on at most Alpha peers at a time, on none twice and *)
(* on no further one while the stop function holds; then, unless stopped   *)
(* or cancelled, all at once on the peers of a follow-up, which a stop or  *)
(* a cancellation cuts short; and when the lookup returns it runs nowhere. *)
(*                                                                         *)
(* Modules ValueSearch and FindProviders have a lookup of this kind.       *)
(***************************************************************************)
EXTENDS Naturals, FiniteSets

CONSTANTS Peers, Alpha

VARIABLES
  stage,     \* "running", "followup", "stopping" or "returned"
  asking,    \* peers whose query function was started and is not over
  asked,     \* peers that were asked before the follow-up
  stop,      \* what the stop function returns
  cancelled  \* the context of the caller

vars == <<stage, asking, asked, stop, cancelled>>

Init ==
  /\ stage = "running" /\ asking = {} /\ asked = {}
  /\ stop = FALSE /\ cancelled = FALSE

Ask(Q) ==
  /\ stage = "running" /\ ~stop
  /\ Q \cap asked = {}
  /\ asking' = asking \cup Q
  /\ asked' = asked \cup Q
  /\ Cardinality(asking') <= Alpha
  /\ UNCHANGED <<stage, stop, cancelled>>

Answered(p) ==
  /\ p \in asking
  /\ asking' = asking \ {p}
  /\ UNCHANGED <<stage, asked, stop, cancelled>>

FollowUp(Q) ==
  /\ stage = "running" /\ asking = {}
  /\ ~stop /\ ~cancelled
  /\ stage' = "followup" /\ asking' = Q
  /\ UNCHANGED <<asked, stop, cancelled>>

CutShort ==
  /\ stage = "followup" /\ (stop \/ cancelled)
  /\ stage' = "stopping"
  /\ UNCHANGED <<asking, asked, stop, cancelled>>

Return ==
  /\ stage # "returned" /\ asking = {}
  /\ stage' = "returned"
  /\ UNCHANGED <<asking, asked, stop, cancelled>>

(* The caller *)
Cancel ==
  /\ cancelled' = TRUE
  /\ UNCHANGED <<stage, asking, asked, stop>>

StopChanges ==
  /\ stop' = ~stop
  /\ UNCHANGED <<stage, asking, asked, cancelled>>

Next ==
  \/ \E Q \in SUBSET Peers : Ask(Q) \/ FollowUp(Q)
  \/ \E p \in Peers : Answered(p)
  \/ CutShort \/ Return \/ Cancel \/ StopChanges

Spec == Init /\ [][Next]_vars
=============================================================================
