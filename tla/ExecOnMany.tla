----------------------------- MODULE ExecOnMany -----------------------------
(***************************************************************************)
(* execOnMany of fullrt/dht.go: one goroutine per peer runs a function of  *)
(* the caller under a common context putctx, and the caller waits for all  *)
(* of them, or only until the results are good enough.                     *)
(*                                                                         *)
(* errCh has room for every result, so that no goroutine waits to report.  *)
(* It is kept as the result per peer that was not yet received; the order  *)
(* of the results is left open.  The function itself, between its call and *)
(* its return, belongs to module FullRTSearch.                             *)
(***************************************************************************)
EXTENDS Integers, FiniteSets

CONSTANTS
  Targets,                 \* the peers
  numSuccessfulToWaitFor   \* int(len(peers) * waitFrac)

ASSUME ExecAssumption == IsFiniteSet(Targets) /\ numSuccessfulToWaitFor \in 0..Cardinality(Targets)

VARIABLES
  exec,        \* "off", "loop" or "returned"
  fn,          \* fn[p]: "off", "rpc", the points of the function, or "done"
  result,      \* result[p]: what the function returned, "none" before
  errCh,       \* the peers whose result waits to be received
  numDone,
  numSuccess,
  ticker,      \* successSinceLastTick, or -1 as long as there is no ticker
  putctxDone

execVars == <<exec, fn, result, errCh, numDone, numSuccess, ticker, putctxDone>>
countVars == <<numDone, numSuccess, ticker>>

InitExec ==
  /\ exec = "off"
  /\ fn = [p \in Targets |-> "off"]
  /\ result = [p \in Targets |-> "none"]
  /\ errCh = {}
  /\ numDone = 0 /\ numSuccess = 0 /\ ticker = -1
  /\ putctxDone = FALSE

(* All goroutines are started; with no peers the call returns at once.  The
   context may be done already. *)
StartExec(ctxDone) ==
  /\ exec = "off"
  /\ exec' = IF Targets = {} THEN "returned" ELSE "loop"
  /\ fn' = [p \in Targets |-> "rpc"]
  /\ putctxDone' = ctxDone
  /\ UNCHANGED <<result, errCh, countVars>>

(* errCh <- fn(putctx, p) *)
FnReturns(p, res) ==
  /\ fn' = [fn EXCEPT ![p] = "done"]
  /\ result' = [result EXCEPT ![p] = res]
  /\ errCh' = errCh \cup {p}

-----------------------------------------------------------------------------
(* Fault: the call leaves although it was asked to wait for the functions. *)
GoodEnoughLeaves(sloppyExit) ==
  /\ putctxDone' = TRUE
  /\ exec' = "returned"

(* cancel(), and the return if the caller does not mind functions that still
   run. *)
GoodEnough(sloppyExit) ==
  /\ putctxDone' = TRUE
  /\ exec' = IF sloppyExit THEN "returned" ELSE exec

(* A result is received.  A success may start the ticker, and may be enough. *)
ReceiveErr(sloppyExit) ==
  /\ exec = "loop"
  /\ \E p \in errCh :
       LET success == result[p] = "ok"
           successes == IF success THEN numSuccess + 1 ELSE numSuccess
       IN
         /\ errCh' = errCh \ {p}
         /\ numDone' = numDone + 1
         /\ numSuccess' = successes
         /\ ticker' = IF success /\ successes >= numSuccessfulToWaitFor /\ ticker = -1
                      THEN successes ELSE ticker
         /\ IF success /\ successes + numDone + 1 >= Cardinality(Targets)
            THEN GoodEnough(sloppyExit)
            ELSE UNCHANGED <<putctxDone, exec>>
  /\ UNCHANGED <<fn, result>>

(* A tick without a success since the one before ends the wait. *)
Tick(sloppyExit) ==
  /\ exec = "loop" /\ numDone < Cardinality(Targets)
  /\ ticker # -1
  /\ IF numSuccess > ticker
     THEN ticker' = numSuccess /\ UNCHANGED <<putctxDone, exec>>
     ELSE GoodEnough(sloppyExit) /\ UNCHANGED ticker
  /\ UNCHANGED <<fn, result, errCh, numDone, numSuccess>>

(* timeoutPerOp, or an end of the context that putctx comes from. *)
CtxEnds ==
  /\ exec = "loop"
  /\ putctxDone' = TRUE
  /\ UNCHANGED <<exec, fn, result, errCh, countVars>>

(* All results are in; the deferred cancel ends putctx. *)
ExecReturns ==
  /\ exec = "loop" /\ numDone = Cardinality(Targets)
  /\ exec' = "returned"
  /\ putctxDone' = TRUE
  /\ UNCHANGED <<fn, result, errCh, countVars>>

-----------------------------------------------------------------------------
ExecTypeOK ==
  /\ exec \in {"off", "loop", "returned"}
  /\ result \in [Targets -> {"none", "ok", "err"}]
  /\ errCh \subseteq Targets
  /\ numDone \in 0..Cardinality(Targets) /\ numSuccess \in 0..numDone
  /\ ticker \in -1..numSuccess
  /\ putctxDone \in BOOLEAN

Returned == {p \in Targets : fn[p] = "done"}

(* Each goroutine reports exactly once: the loop has received every report
   that is not in errCh, so that numDone reaches len(peers) when, and only
   when, no goroutine runs. *)
ReportsAccounted ==
  /\ errCh \subseteq Returned
  /\ exec # "off" => numDone = Cardinality(Returned) - Cardinality(errCh)
=============================================================================
