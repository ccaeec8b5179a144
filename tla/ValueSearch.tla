----------------------------- MODULE ValueSearch -----------------------------
(***************************************************************************)
(* SearchValue and GetValue of routing.go: getValues runs a lookup whose   *)
(* query function puts each valid record it gets into valCh; the goroutine *)
(* of SearchValue takes them out (processValues), passes every better one  *)
(* on to the caller, stops the lookup once the quorum is reached, and at   *)
(* the end sends the best value to the peers of the result that lack it.   *)
(*                                                                         *)
(* The lookup is seen from outside: it runs query functions on peers of    *)
(* its choice, asks the stop function between them, and returns when all   *)
(* it started are over (module Lookup, QuiescentOnReturn).                 *)
(***************************************************************************)
EXTENDS Integers, Sequences, FiniteSets

CONSTANTS
  Peers,    \* remote peers
  Self,     \* dht.self
  Values,   \* valid values of the key, ranked by Validator.Select as numbers
  Alpha,    \* concurrency of the lookup
  Quorums   \* the quorums a caller may ask for

ASSUME SearchAssumption ==
  /\ Self \notin Peers /\ IsFiniteSet(Peers)
  /\ Values \subseteq Nat \ {0}
  /\ Alpha \in Nat \ {0} /\ Quorums \subseteq Nat

VARIABLES
  lookup,     \* runLookupWithFollowup: "running", "followup", "stopping"
              \* (its follow-ups are cancelled) or "returned"
  queryFn,    \* queryFn[p]: where the query function for p is
  val,        \* val[p]: the value it has to send
  valCh,      \* valCh, of capacity 1; closed once the lookup has returned
  nvals,      \* responsesNeeded: the quorum, 0 to run the lookup to its end
  stopCh,     \* stopCh is closed
  pc,         \* the goroutine of SearchValue
  best,       \* the best value so far, 0 for nil
  peersWithBest,
  numResponses,
  emitted,    \* values passed to the caller, in order
  updated,    \* peers updatePeerValues sends the best value to
  cancelled,  \* the caller's context is done
  sent        \* history: what was put into valCh and could be compared

lookupVars == <<lookup, queryFn, val>>
procVars == <<nvals, best, peersWithBest, numResponses>>
vars == <<lookupVars, valCh, stopCh, pc, procVars, emitted, updated, cancelled, sent>>

Active == {p \in Peers : queryFn[p] \in {"rpc", "send"}}

(* getValues: a valid local record is the first value. *)
Init ==
  /\ lookup = "running"
  /\ queryFn = [p \in Peers |-> "idle"]
  /\ val = [p \in Peers |-> 0]
  /\ \/ valCh = << >> /\ sent = {}
     \/ \E v \in Values : /\ valCh = <<[from |-> Self, val |-> v]>>
                          /\ sent = {[from |-> Self, val |-> v]}
  /\ nvals \in Quorums
  /\ stopCh = FALSE
  /\ pc = "process"
  /\ best = 0
  /\ peersWithBest = {}
  /\ numResponses = 0
  /\ emitted = << >>
  /\ updated = {}
  /\ cancelled = FALSE

-----------------------------------------------------------------------------
(* The lookup *)

(* A loop of run that did not stop starts queries. *)
Spawn(p) ==
  /\ lookup = "running"
  /\ ~stopCh
  /\ queryFn[p] = "idle"
  /\ Cardinality(Active) < Alpha
  /\ queryFn' = [queryFn EXCEPT ![p] = "rpc"]
  /\ UNCHANGED <<lookup, val, valCh, stopCh, pc, procVars, emitted, updated, cancelled, sent>>

(* The follow-up queries, on peers of the result that are not known to have
   been queried. *)
FollowUp ==
  /\ lookup = "running"
  /\ Active = {}
  /\ ~stopCh /\ ~cancelled
  /\ lookup' = "followup"
  /\ \E Q \in SUBSET Peers :
       queryFn' = [p \in Peers |-> IF p \in Q THEN "rpc" ELSE "idle"]
  /\ UNCHANGED <<val, valCh, stopCh, pc, procVars, emitted, updated, cancelled, sent>>

(* The lookup takes note of a follow-up that is over, asks the stop function,
   and cancels the other follow-ups when it has to stop. *)
FollowUpOver(p) ==
  /\ lookup = "followup"
  /\ queryFn[p] = "done"
  /\ queryFn' = [queryFn EXCEPT ![p] = "idle"]
  /\ lookup' = IF stopCh THEN "stopping" ELSE lookup
  /\ UNCHANGED <<val, valCh, stopCh, pc, procVars, emitted, updated, cancelled, sent>>

(* run ends (any time, or because it was stopped) and there are no follow-ups,
   or they are over; valCh is closed. *)
LookupReturns ==
  /\ lookup # "returned"
  /\ Active = {}
  /\ lookup = "followup" => \A p \in Peers : queryFn[p] = "idle"
  /\ lookup' = "returned"
  /\ UNCHANGED <<queryFn, val, valCh, stopCh, pc, procVars, emitted, updated, cancelled, sent>>

(* GetValue RPC: a valid record, or nothing to send (no record, a nil or an
   invalid one, an error). *)
Response(p) ==
  /\ queryFn[p] = "rpc"
  /\ \/ \E v \in Values : /\ val' = [val EXCEPT ![p] = v]
                          /\ queryFn' = [queryFn EXCEPT ![p] = "send"]
     \/ /\ queryFn' = [queryFn EXCEPT ![p] = "done"]
        /\ UNCHANGED val
  /\ UNCHANGED <<lookup, valCh, stopCh, pc, procVars, emitted, updated, cancelled, sent>>

(* valCh <- recvdVal blocks while the channel is full. *)
SendValue(p) ==
  /\ queryFn[p] = "send"
  /\ Len(valCh) < 1
  /\ valCh' = Append(valCh, [from |-> p, val |-> val[p]])
  /\ sent' = sent \cup {[from |-> p, val |-> val[p]]}
  /\ queryFn' = [queryFn EXCEPT ![p] = "done"]
  /\ val' = [val EXCEPT ![p] = 0]
  /\ UNCHANGED <<lookup, stopCh, pc, procVars, emitted, updated, cancelled>>

(* Fault: the send does not watch the caller's context. *)
SendAbortedByStop(p) ==
  /\ queryFn[p] = "send"
  /\ lookup = "stopping"
  /\ queryFn' = [queryFn EXCEPT ![p] = "done"]
  /\ val' = [val EXCEPT ![p] = 0]
  /\ UNCHANGED <<lookup, valCh, stopCh, pc, procVars, emitted, updated, cancelled, sent>>

(* The context of a query of run is the caller's, which stopping the lookup
   does not end; that of a follow-up ends with cancelFollowUp too. *)
SendAborted(p) ==
  /\ queryFn[p] = "send"
  /\ cancelled \/ lookup = "stopping"
  /\ queryFn' = [queryFn EXCEPT ![p] = "done"]
  /\ val' = [val EXCEPT ![p] = 0]
  /\ UNCHANGED <<lookup, valCh, stopCh, pc, procVars, emitted, updated, cancelled, sent>>

-----------------------------------------------------------------------------
(* processValues with the callback of searchValueQuorum *)

(* Fault: a value as good as the best one counts as better. *)
SelectsNewOrEqual(v) == v >= best

(* Validator.Select over the best and a new value picks the new one. *)
SelectsNew(v) == best = 0 \/ v > best

(* The end of the callback: stop when the quorum is exceeded. *)
Quorum(n) ==
  IF nvals > 0 /\ n > nvals
  THEN stopCh' = TRUE /\ pc' = "returned"
  ELSE UNCHANGED stopCh /\ pc' = "process"

(* Fault: another peer with the best value is not noted. *)
ProcessOtherUnnoted ==
  /\ pc = "process"
  /\ valCh # << >>
  /\ ~SelectsNew(Head(valCh).val)
  /\ valCh' = Tail(valCh)
  /\ numResponses' = numResponses + 1
  /\ Quorum(numResponses')
  /\ UNCHANGED <<lookupVars, nvals, best, peersWithBest, emitted, updated, cancelled, sent>>

(* A value that is equal to the best one or not better. *)
ProcessOther ==
  /\ pc = "process"
  /\ valCh # << >>
  /\ ~SelectsNew(Head(valCh).val)
  /\ valCh' = Tail(valCh)
  /\ peersWithBest' = IF Head(valCh).val = best THEN peersWithBest \cup {Head(valCh).from}
                      ELSE peersWithBest
  /\ numResponses' = numResponses + 1
  /\ Quorum(numResponses')
  /\ UNCHANGED <<lookupVars, nvals, best, emitted, updated, cancelled, sent>>

(* A better value, which is passed on first. *)
ProcessBetter ==
  /\ pc = "process"
  /\ valCh # << >>
  /\ SelectsNew(Head(valCh).val)
  /\ valCh' = Tail(valCh)
  /\ best' = Head(valCh).val
  /\ peersWithBest' = {Head(valCh).from}
  /\ numResponses' = numResponses + 1
  /\ pc' = "emit"
  /\ UNCHANGED <<lookupVars, nvals, stopCh, emitted, updated, cancelled, sent>>

(* Select fails: the value is dropped and not counted. *)
SelectFails ==
  /\ pc = "process"
  /\ valCh # << >>
  /\ best # 0 /\ Head(valCh).val # best
  /\ valCh' = Tail(valCh)
  /\ sent' = sent \ {Head(valCh)}
  /\ UNCHANGED <<lookupVars, stopCh, pc, procVars, emitted, updated, cancelled>>

(* out <- v.Val: the caller takes it. *)
Emit ==
  /\ pc = "emit"
  /\ emitted' = Append(emitted, best)
  /\ Quorum(numResponses)
  /\ UNCHANGED <<lookupVars, valCh, procVars, updated, cancelled, sent>>

EmitCancelled ==
  /\ pc = "emit"
  /\ cancelled
  /\ pc' = "process"
  /\ UNCHANGED <<lookupVars, valCh, stopCh, procVars, emitted, updated, cancelled, sent>>

(* Fault: the end of the lookup is noticed before the channel is empty. *)
DrainedEarly ==
  /\ pc = "process"
  /\ lookup = "returned"
  /\ pc' = IF best = 0 THEN "returned" ELSE "update"
  /\ UNCHANGED <<lookupVars, valCh, stopCh, procVars, emitted, updated, cancelled, sent>>

(* valCh is closed and empty: without a value the search is over, otherwise
   the result of the lookup is taken. *)
Drained ==
  /\ pc = "process"
  /\ lookup = "returned" /\ valCh = << >>
  /\ pc' = IF best = 0 THEN "returned" ELSE "update"
  /\ UNCHANGED <<lookupVars, valCh, stopCh, procVars, emitted, updated, cancelled, sent>>

(* processValues returns when the context is done, with what it has. *)
ProcessCancelled ==
  /\ pc = "process"
  /\ cancelled
  /\ pc' = IF best = 0 THEN "returned" ELSE "update"
  /\ UNCHANGED <<lookupVars, valCh, stopCh, procVars, emitted, updated, cancelled, sent>>

(* updatePeerValues: the best value goes to the peers of the lookup's result
   that did not send it; no result when the lookup failed. *)
Update ==
  /\ pc = "update"
  /\ lookup = "returned"
  /\ \E result \in SUBSET Peers : updated' = result \ peersWithBest
  /\ pc' = "returned"
  /\ UNCHANGED <<lookupVars, valCh, stopCh, procVars, emitted, cancelled, sent>>

UpdateCancelled ==
  /\ pc = "update"
  /\ cancelled
  /\ pc' = "returned"
  /\ UNCHANGED <<lookupVars, valCh, stopCh, procVars, emitted, updated, cancelled, sent>>

Cancel ==
  /\ ~cancelled
  /\ cancelled' = TRUE
  /\ UNCHANGED <<lookupVars, valCh, stopCh, pc, procVars, emitted, updated, sent>>

-----------------------------------------------------------------------------
Query(p) == Response(p) \/ SendValue(p) \/ SendAborted(p)

Process ==
  \/ ProcessOther \/ ProcessBetter \/ SelectFails \/ Emit \/ EmitCancelled
  \/ Drained \/ ProcessCancelled \/ Update \/ UpdateCancelled

Next ==
  \/ \E p \in Peers : Spawn(p) \/ Query(p) \/ FollowUpOver(p)
  \/ FollowUp
  \/ LookupReturns
  \/ Process
  \/ Cancel

(* RPCs return, the caller reads the channel it got, runnable goroutines run
   and a lookup with no query in flight ends. *)
Fairness ==
  /\ \A p \in Peers : WF_vars(Query(p)) /\ WF_vars(FollowUpOver(p))
  /\ WF_vars(LookupReturns)
  /\ WF_vars(Process)

Spec == Init /\ [][Next]_vars /\ Fairness

-----------------------------------------------------------------------------
(* Properties *)

Msg == [from : Peers \cup {Self}, val : Values]

(* The variables keep their types. *)
TypeOK ==
  /\ lookup \in {"running", "followup", "stopping", "returned"}
  /\ queryFn \in [Peers -> {"idle", "rpc", "send", "done"}]
  /\ val \in [Peers -> Values \cup {0}]
  /\ valCh \in Seq(Msg) /\ Len(valCh) <= 1
  /\ nvals \in Quorums
  /\ stopCh \in BOOLEAN
  /\ pc \in {"process", "emit", "update", "returned"}
  /\ best \in Values \cup {0}
  /\ peersWithBest \in SUBSET (Peers \cup {Self})
  /\ numResponses \in Nat
  /\ emitted \in Seq(Values)
  /\ updated \in SUBSET Peers
  /\ cancelled \in BOOLEAN
  /\ sent \in SUBSET Msg

(* The values a caller of SearchValue sees get better and better: GetValue may
   return the last one. *)
EmittedImproves ==
  \A i, j \in DOMAIN emitted : i < j => emitted[i] < emitted[j]

(* Types, and the order of the emitted values. *)
Inv == TypeOK /\ EmittedImproves

(* A search that is neither stopped by the quorum nor cancelled ends with the
   best of all values any query function sent, but for those Select failed on,
   though they are sent concurrently with the reader, up to the moment the lookup returns. *)
SearchFindsBest ==
  pc = "returned" /\ ~stopCh /\ ~cancelled =>
    /\ \A m \in sent : m.val <= best
    /\ best # 0 => emitted # << >> /\ emitted[Len(emitted)] = best

(* Unless the search is cancelled, a peer that sent the best value is not sent
   it again. *)
HoldersNotUpdated ==
  ~cancelled => \A p \in updated : [from |-> p, val |-> best] \notin sent

(* The search returns: the channel the caller reads is closed, whatever the
   lookup does.  The lookup behind it ends as well, if the caller's context is
   cancelled or no quorum was asked for; with a quorum a query function may wait
   for room in valCh after the reader left. *)
SearchEnds ==
  /\ <>(pc = "returned")
  /\ (cancelled \/ nvals = 0) ~> lookup = "returned"
=============================================================================
