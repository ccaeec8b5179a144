-------------------------- MODULE FullRTOperations --------------------------
(***************************************************************************)
(* The operations of the full client that its user calls: one of those of  *)
(* FullRTSearch, or a bulk send.  They share only the tables, which module *)
(* FullRT replaces and these modules take as given from call to call, so   *)
(* one call at a time shows all that calls can do.                         *)
(***************************************************************************)
EXTENDS FullRTSearch, BulkSend

vars == <<allSearchVars, bulkVars>>

Init ==
  \/ \E o \in {"findProviders", "searchValue", "findPeer", "put"} :
       InitSearch(o) /\ InitBulk("off")
  \/ InitSearch("none") /\ InitBulk("start")

Next ==
  \/ SearchNext /\ UNCHANGED bulkVars
  \/ BulkNext /\ UNCHANGED allSearchVars

(* An RPC or a dial ends with its timeout, and putctx after timeoutPerOp; the
   user of a search reads the channel it was given. *)
Fairness ==
  /\ WF_vars(Routine /\ UNCHANGED bulkVars) /\ WF_vars(Exec /\ UNCHANGED bulkVars)
  /\ WF_vars(Reader /\ UNCHANGED bulkVars)
  /\ \A p \in Targets : WF_vars(Fn(p) /\ UNCHANGED bulkVars)
  /\ WF_vars(BulkMain /\ UNCHANGED allSearchVars)
  /\ \A w \in BulkWorkers : WF_vars(BulkWork(w) /\ UNCHANGED allSearchVars)

Spec == Init /\ [][Next]_vars /\ Fairness

-----------------------------------------------------------------------------
(* No goroutine sends on a closed channel, every goroutine of execOnMany
   reports once, a user gets at most count providers and each once, and a
   bulk send gives no peer the same key twice. *)
Inv == SearchSafe /\ BulkTypeOK /\ SentOnce

(* Every operation ends, all its goroutines with it: also those that a reader
   which has what it needs, or a put, has left behind. *)
OperationEnds == <>(SearchOver /\ BulkOver)
=============================================================================
