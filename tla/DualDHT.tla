------------------------------- MODULE DualDHT -------------------------------
(***************************************************************************)
(* dual/dual.go: a DHT for the wide area network and one for the local     *)
(* network behind one interface.                                           *)
(*                                                                         *)
(* FindProvidersAsync merges the channels of two searches.  The search in  *)
(* the WAN is module FindProviders; the one in the LAN is known by what    *)
(* its channel delivers.  The same module also has a user who reads the    *)
(* channel of a single DHT, without the goroutine that merges.             *)
(*                                                                         *)
(* FindPeer and GetValue ask both DHTs at once and wait for both.  The     *)
(* other operations go to the WAN if its routing table has peers, else to  *)
(* the LAN.                                                                *)
(***************************************************************************)
EXTENDS FindProviders

CONSTANT MaxLan      \* bound of the entries the LAN delivers

ASSUME DualAssumption == MaxLan \in Nat

VARIABLES
  merge,         \* the merging goroutine: "select", "send", "returned"; or "direct", "none"
  wanCh,         \* "open", or "nil" once its end was seen
  lanCh,         \* "open", "closed" by the search, "nil"
  lanLeft,       \* entries the LAN may still deliver
  lanSeen,       \* the entries it delivered (history)
  pi,            \* the entry in hand
  outCh,         \* what the user got
  userCancelled, \* the context of the user; reqCtx is derived from it
  op,            \* "findPeer", "getValue" or "none": the call to both DHTs
  has,           \* has[d]: d would find the peer or the value
  side,          \* side[d]: the call to d, "running", "found" or "failed"
  lanCancelled   \* cancelLan was called

mergeVars == <<merge, wanCh, lanCh, lanLeft, lanSeen, pi, outCh>>
bothVars == <<op, has, side, lanCancelled>>
vars == <<findVars, mergeVars, userCancelled, bothVars>>

found == {outCh[i].id : i \in DOMAIN outCh}
DHTs == {"wan", "lan"}

Init ==
  /\ InitFind
  /\ wanCh = "open" /\ lanCh = "open" /\ lanLeft = MaxLan /\ lanSeen = {}
  /\ pi = NoEntry /\ outCh = << >>
  /\ userCancelled = FALSE /\ lanCancelled = FALSE
  /\ \/ /\ merge \in {"select", "direct"}
        /\ op = "none" /\ has = [d \in DHTs |-> FALSE] /\ side = [d \in DHTs |-> "failed"]
     \/ /\ merge = "none"
        /\ op \in {"findPeer", "getValue"} /\ has \in [DHTs -> BOOLEAN]
        /\ side = [d \in DHTs |-> "running"]

-----------------------------------------------------------------------------
(* FindProvidersAsync: the merging goroutine *)

(* A user who reads the channel of the search itself. *)
EmitDirect(w) ==
  /\ merge = "direct"
  /\ Emit(w)
  /\ UNCHANGED <<mergeVars, userCancelled, bothVars>>

(* Fault: an entry that was found before is sent again. *)
ReceivedAgain(e) ==
  /\ merge' = "send"
  /\ pi' = e

(* A provider that was found already is dropped. *)
Received(e) ==
  IF e.id \in found
  THEN UNCHANGED <<merge, pi>>
  ELSE merge' = "send" /\ pi' = e

Wanted == findAll \/ Len(outCh) < count

(* case pi, ok = <-wanCh: neither channel has a buffer. *)
EmitToMerge(w) ==
  /\ merge = "select" /\ Wanted
  /\ wanCh = "open"
  /\ Emit(w)
  /\ Received(item[w])
  /\ UNCHANGED <<wanCh, lanCh, lanLeft, lanSeen, outCh, userCancelled, bothVars>>

WanFinished ==
  /\ merge = "select" /\ Wanted
  /\ wanCh = "open" /\ lookup = "returned"
  /\ wanCh' = "nil"
  /\ UNCHANGED <<findVars, merge, lanCh, lanLeft, lanSeen, pi, outCh, userCancelled, bothVars>>

(* case pi, ok = <-lanCh *)
LanDelivers ==
  /\ merge = "select" /\ Wanted
  /\ lanCh = "open" /\ lanLeft > 0
  /\ \E e \in Entry :
       /\ Received(e)
       /\ lanSeen' = lanSeen \cup {e}
  /\ lanLeft' = lanLeft - 1
  /\ UNCHANGED <<findVars, wanCh, lanCh, outCh, userCancelled, bothVars>>

(* The search in the LAN ends: module FindProviders shows that it does. *)
LanCloses ==
  /\ merge \notin {"direct", "none"} /\ lanCh = "open"
  /\ lanCh' = "closed"
  /\ UNCHANGED <<findVars, merge, wanCh, lanLeft, lanSeen, pi, outCh, userCancelled, bothVars>>

LanFinished ==
  /\ merge = "select" /\ Wanted
  /\ lanCh = "closed"
  /\ lanCh' = "nil"
  /\ UNCHANGED <<findVars, merge, wanCh, lanLeft, lanSeen, pi, outCh, userCancelled, bothVars>>

(* outCh <- pi: the user reads. *)
Deliver ==
  /\ merge = "send"
  /\ outCh' = Append(outCh, pi)
  /\ pi' = NoEntry
  /\ merge' = "select"
  /\ UNCHANGED <<findVars, wanCh, lanCh, lanLeft, lanSeen, userCancelled, bothVars>>

(* Fault: the goroutine leaves without cancel. *)
LeaveMergeUncancelled ==
  /\ merge' = "returned"
  /\ pi' = NoEntry
  /\ UNCHANGED cancelled

(* The deferred close of outCh and cancel of reqCtx *)
LeaveMerge ==
  /\ merge' = "returned"
  /\ pi' = NoEntry
  /\ cancelled' = TRUE

DeliverCancelled ==
  /\ merge = "send" /\ userCancelled
  /\ LeaveMerge
  /\ UNCHANGED <<count, ps, queryVars, lookup, out, seen, cut, wanCh, lanCh, lanLeft, lanSeen, outCh,
                 userCancelled, bothVars>>

(* Fault: the loop ends with the first search. *)
MergeOverEarly == ~Wanted \/ wanCh = "nil" \/ lanCh = "nil"

(* The condition of the loop *)
MergeOver == ~Wanted \/ (wanCh = "nil" /\ lanCh = "nil")

MergeReturns ==
  /\ merge = "select" /\ MergeOver
  /\ LeaveMerge
  /\ UNCHANGED <<count, ps, queryVars, lookup, out, seen, cut, wanCh, lanCh, lanLeft, lanSeen, outCh,
                 userCancelled, bothVars>>

-----------------------------------------------------------------------------
(* FindPeer and GetValue *)

(* A DHT answers the call: with what it has, or with an error. *)
Answer(d) ==
  /\ side[d] = "running"
  /\ \/ has[d] /\ side' = [side EXCEPT ![d] = "found"]
     \/ /\ ~has[d] \/ userCancelled \/ (d = "lan" /\ lanCancelled)
        /\ side' = [side EXCEPT ![d] = "failed"]
  /\ UNCHANGED <<findVars, mergeVars, userCancelled, op, has, lanCancelled>>

(* GetValue: a value from the WAN ends the search in the LAN. *)
CancelLan ==
  /\ op = "getValue" /\ side["wan"] = "found" /\ ~lanCancelled
  /\ lanCancelled' = TRUE
  /\ UNCHANGED <<findVars, mergeVars, userCancelled, op, has, side>>

(* Both calls wait for both answers, and report an error only if neither of
   them found anything. *)
BothAnswered == \A d \in DHTs : side[d] # "running"
CallSucceeds == \E d \in DHTs : side[d] = "found"

-----------------------------------------------------------------------------
(* The user, and the WAN search *)

UserCancels ==
  /\ ~userCancelled
  /\ userCancelled' = TRUE
  /\ cancelled' = TRUE
  /\ UNCHANGED <<count, ps, queryVars, lookup, out, seen, cut, mergeVars, bothVars>>

WanStep(w) == merge # "none" /\ Step(w) /\ UNCHANGED <<mergeVars, userCancelled, bothVars>>

WanLookup ==
  /\ merge # "none"
  /\ LookupReturns \/ \E w \in Peers : FollowUpOver(w)
  /\ UNCHANGED <<mergeVars, userCancelled, bothVars>>

WanOther ==
  /\ merge # "none"
  /\ StoreFails \/ FollowUp \/ \E w \in Peers : Query(w)
  /\ UNCHANGED <<mergeVars, userCancelled, bothVars>>

Merge ==
  \/ \E w \in Workers : EmitToMerge(w)
  \/ WanFinished \/ LanDelivers \/ LanFinished \/ Deliver \/ MergeReturns

Next ==
  \/ \E w \in Workers : WanStep(w) \/ EmitDirect(w)
  \/ WanLookup \/ WanOther
  \/ Merge \/ DeliverCancelled \/ LanCloses
  \/ CancelLan \/ \E d \in DHTs : Answer(d)
  \/ UserCancels

(* RPCs return, the user reads the channel and runnable goroutines run. *)
Fairness ==
  /\ \A w \in Workers : WF_vars(WanStep(w)) /\ WF_vars(EmitDirect(w))
  /\ WF_vars(WanLookup) /\ WF_vars(Merge) /\ WF_vars(LanCloses)
  /\ WF_vars(CancelLan) /\ \A d \in DHTs : WF_vars(Answer(d))

Spec == Init /\ [][Next]_vars /\ Fairness

-----------------------------------------------------------------------------
(* Properties *)

TypeOK ==
  /\ FindTypeOK
  /\ merge \in {"select", "send", "returned", "direct", "none"}
  /\ wanCh \in {"open", "nil"} /\ lanCh \in {"open", "closed", "nil"}
  /\ lanLeft \in 0..MaxLan /\ lanSeen \subseteq Entry
  /\ pi \in Entry /\ outCh \in Seq(Entry)
  /\ side \in [DHTs -> {"running", "found", "failed"}]

(* The user of both DHTs gets a provider once, and at most count of them
   although each search may deliver as many. *)
MergedOnce ==
  /\ Cardinality(found) = Len(outCh)
  /\ findAll \/ Len(outCh) <= count

(* Types, and what the users are promised of the entries they get. *)
Inv == TypeOK /\ AtMostCount /\ RepeatsAddAddrs /\ MergedOnce

(* A search of one DHT that is not cancelled passes on all providers it met, with
   addresses if it met them, or as many as were asked for less those that were
   in the hand of a follow-up when there were enough. *)
SearchFinds == FindsAll /\ FindsEnough

(* The user of both gets every provider that the WAN search met and that the
   LAN delivered, or as many as were asked for: the merge does not end with the
   first of the searches, and what is missing was given up by the WAN search,
   which had found enough (cut).  A call that asks both fails only if neither could
   have answered, the LAN having been cancelled or not. *)
DualFinds ==
  ~userCancelled =>
    /\ merge = "returned" =>
         \/ Len(outCh) = count /\ ~findAll
         \/ /\ \A e \in lanSeen : e.id \in found
            /\ \/ \A e \in seen : e.id \in found
               \/ cut # {} /\ Cardinality(found \cup {e.id : e \in cut}) >= count
    /\ op # "none" /\ BothAnswered /\ (\E d \in DHTs : has[d]) => CallSucceeds

(* Every call ends.  When the merge is over, the searches it started end too,
   although nobody reads their channels any more. *)
CallsEnd ==
  <>(IF merge = "none" THEN BothAnswered ELSE merge \in {"returned", "direct"} /\ lookup = "returned")
=============================================================================
