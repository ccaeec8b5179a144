---------------------------- MODULE FullRTSearch ----------------------------
(***************************************************************************)
(* One call of an operation of fullrt/dht.go that asks many peers at once: *)
(* FindProviders, SearchValue, FindPeer, and Provide or PutValue ("put").  *)
(* Each gives execOnMany a function: it sends a request, and hands what it *)
(* learns to a reader over a channel: peerOut (no buffer, read by the      *)
(* user), valCh or addrsCh (room for one item, read by processValues or by *)
(* the collector of FindPeer).  The channel is closed when execOnMany has  *)
(* returned.  A put has no channel, and does not wait for its functions.   *)
(*                                                                         *)
(* An item is a provider, a value (the greater the better; those that do   *)
(* not validate are discarded before they are sent) or the addresses of    *)
(* the peer that is searched for.  Select does not fail on valid values.   *)
(***************************************************************************)
EXTENDS ExecOnMany, Sequences, SequencesExt

CONSTANTS
  Answers,    \* the sequences of items that a peer, or the local store, may answer
  Counts,     \* what FindProviders is asked for, 0 for all
  Quorums     \* what SearchValue is asked for, 0 for no quorum

ASSUME SearchAssumption ==
  /\ IsFiniteSet(Answers) /\ << >> \in Answers
  /\ \A a \in Answers : a \in Seq(ToSet(a))
  /\ Counts \subseteq Nat /\ Quorums \subseteq Nat

VARIABLES
  op,         \* the operation
  limit,      \* count, or nvals
  cancelled,  \* the context of the caller
  call,       \* the routine: "start", "exec", "over" (the channel is closed)
  given,      \* given[p]: the items in the answer of p, in order
  pos,        \* pos[p]: how many of them the function has dealt with
  ps,         \* the providers that were added
  buffer,     \* the channel, of records [from, item]
  received,   \* what the reader has received
  reader      \* "reading", "left" or, after the close of the channel, "done"

searchVars == <<op, limit, cancelled, call, given, pos, ps, buffer, received, reader>>
allSearchVars == <<execVars, searchVars>>

Self == -1
sloppyExit == op = "put"
findAll == limit = 0
Msg(p, x) == [from |-> p, item |-> x]
Items == UNION {ToSet(a) : a \in Answers}
AnswersOf(o) == CASE o = "findProviders" -> Answers
                  [] o \in {"searchValue", "findPeer"} -> {a \in Answers : Len(a) <= 1}
                  [] o = "put" -> {<< >>}

(* The operation o is called; "none" stands for none of them. *)
InitSearch(o) ==
  /\ InitExec
  /\ op = o
  /\ limit \in CASE o = "findProviders" -> Counts
                [] o = "searchValue" -> Quorums
                [] OTHER -> {0}
  /\ cancelled = FALSE
  /\ call = IF o = "none" THEN "over" ELSE "start"
  /\ given = [p \in Targets |-> << >>]
  /\ pos = [p \in Targets |-> 0]
  /\ ps = {} /\ buffer = << >> /\ received = << >>
  /\ reader = IF o \in {"put", "none"} THEN "done" ELSE "reading"

-----------------------------------------------------------------------------
(* The routine *)

(* psTryAdd, under the lock of ps *)
psTryAdd(x) == x \notin ps /\ (findAll \/ Cardinality(ps) < limit)

Enough == ~findAll /\ Cardinality(ps) >= limit

(* The local store, which lists a provider once: providers are sent until
   there are enough or the context ends; a value is put into the empty channel,
   or dropped if the context has ended. *)
Local ==
  /\ call = "start"
  /\ \E local \in {a \in AnswersOf(op) : IsInjective(a)} :
       LET n == IF findAll \/ Len(local) < limit THEN Len(local) ELSE limit IN
       IF op = "findProviders"
       THEN \E sent \in 0..n :
              /\ sent < n => cancelled
              /\ received' = [i \in 1..sent |-> Msg(Self, local[i])]
              /\ ps' = {local[i] : i \in 1..n} \ {local[i] : i \in (sent + 2)..n}
              /\ call' = IF sent < n \/ (~findAll /\ n = limit) THEN "over" ELSE "exec"
              /\ UNCHANGED buffer
       ELSE /\ \/ /\ op = "searchValue" /\ local # << >>
                  /\ buffer' = <<Msg(Self, local[1])>>
               \/ /\ op = "searchValue" => local = << >> \/ cancelled
                  /\ buffer' = << >>
            /\ call' = "exec"
            /\ UNCHANGED <<received, ps>>
  /\ UNCHANGED <<execVars, op, limit, cancelled, given, pos, reader>>

(* GetProviders of the provider manager fails. *)
StoreFails ==
  /\ call = "start" /\ op = "findProviders"
  /\ call' = "over"
  /\ UNCHANGED <<execVars, op, limit, cancelled, given, pos, ps, buffer, received, reader>>

CallExec ==
  /\ call = "exec"
  /\ StartExec(cancelled)
  /\ UNCHANGED <<op, limit, cancelled, call, given, pos, ps, buffer, received, reader>>

(* execOnMany has returned: the deferred close of the channel. *)
CloseChannel ==
  /\ call = "exec" /\ exec = "returned"
  /\ call' = "over"
  /\ UNCHANGED <<execVars, op, limit, cancelled, given, pos, ps, buffer, received, reader>>

(* The steps of execOnMany *)
Exec ==
  /\ ReceiveErr(sloppyExit) \/ Tick(sloppyExit) \/ CtxEnds \/ ExecReturns
  /\ UNCHANGED <<op, limit, cancelled, call, given, pos, ps, buffer, received, reader>>

-----------------------------------------------------------------------------
(* The functions *)

(* The RPC fails, or brings an answer. *)
RpcFails(p) ==
  /\ fn[p] = "rpc"
  /\ FnReturns(p, "err")
  /\ UNCHANGED <<exec, countVars, putctxDone, searchVars>>

RpcAnswers(p) ==
  /\ fn[p] = "rpc"
  /\ \E a \in AnswersOf(op) :
       /\ given' = [given EXCEPT ![p] = a]
       /\ IF a = << >>
          THEN FnReturns(p, "ok")
          ELSE fn' = [fn EXCEPT ![p] = "take"] /\ UNCHANGED <<result, errCh>>
  /\ UNCHANGED <<exec, countVars, putctxDone,
                 op, limit, cancelled, call, pos, ps, buffer, received, reader>>

Item(p) == given[p][pos[p] + 1]

(* The next item: a provider is sent only if it was added. *)
Take(p) ==
  /\ fn[p] = "take"
  /\ \/ /\ op = "findProviders" /\ psTryAdd(Item(p))
        /\ ps' = ps \cup {Item(p)}
        /\ fn' = [fn EXCEPT ![p] = "send"]
     \/ /\ op = "findProviders" /\ ~psTryAdd(Item(p))
        /\ fn' = [fn EXCEPT ![p] = "check"]
        /\ UNCHANGED ps
     \/ /\ op # "findProviders"
        /\ fn' = [fn EXCEPT ![p] = "send"]
        /\ UNCHANGED ps
  /\ UNCHANGED <<exec, result, errCh, countVars, putctxDone,
                 op, limit, cancelled, call, given, pos, buffer, received, reader>>

(* The user receives a provider, or the item goes into the buffer. *)
Send(p) ==
  /\ fn[p] = "send"
  /\ IF op = "findProviders"
     THEN received' = Append(received, Msg(p, Item(p))) /\ UNCHANGED buffer
     ELSE buffer = << >> /\ buffer' = <<Msg(p, Item(p))>> /\ UNCHANGED received
  /\ fn' = [fn EXCEPT ![p] = "check"]
  /\ UNCHANGED <<exec, result, errCh, countVars, putctxDone,
                 op, limit, cancelled, call, given, pos, ps, reader>>

(* Fault: the send is given up only with the context of the caller. *)
SendAbortedByCaller(p) ==
  /\ fn[p] = "send" /\ cancelled
  /\ FnReturns(p, "err")
  /\ UNCHANGED <<exec, countVars, putctxDone, searchVars>>

(* case <-ctx.Done(), of putctx *)
SendAborted(p) ==
  /\ fn[p] = "send" /\ putctxDone
  /\ FnReturns(p, "err")
  /\ UNCHANGED <<exec, countVars, putctxDone, searchVars>>

(* After each provider the function looks at their number, and ends the
   whole query with cancelquery when there are enough.  The other functions
   have nothing to look at. *)
Check(p) ==
  /\ fn[p] = "check"
  /\ LET enough == op = "findProviders" /\ Enough
         last == pos[p] + 1 = Len(given[p])
     IN
       /\ putctxDone' = (putctxDone \/ enough)
       /\ pos' = [pos EXCEPT ![p] = @ + 1]
       /\ IF enough \/ last
          THEN FnReturns(p, "ok")
          ELSE fn' = [fn EXCEPT ![p] = "take"] /\ UNCHANGED <<result, errCh>>
  /\ UNCHANGED <<exec, countVars, op, limit, cancelled, call, given, ps, buffer, received, reader>>

Fn(p) == RpcFails(p) \/ RpcAnswers(p) \/ Take(p) \/ Send(p) \/ SendAborted(p) \/ Check(p)

-----------------------------------------------------------------------------
(* The reader and the user *)

(* processValues or the collector receives an item; processValues is done
   when it has more than nvals responses, and nobody reads valCh after it. *)
Receive ==
  /\ reader = "reading" /\ buffer # << >>
  /\ received' = received \o buffer
  /\ buffer' = << >>
  /\ reader' = IF op = "searchValue" /\ limit > 0 /\ Len(received) + 1 > limit
               THEN "left" ELSE reader
  /\ UNCHANGED <<execVars, op, limit, cancelled, call, given, pos, ps>>

(* case <-ctx.Done(), of the caller *)
ReaderCancelled ==
  /\ reader = "reading" /\ cancelled /\ op # "findProviders"
  /\ reader' = "left"
  /\ UNCHANGED <<execVars, op, limit, cancelled, call, given, pos, ps, buffer, received>>

(* Fault: the reader stops at the close with an item in the buffer. *)
ReaderDoneUndrained ==
  /\ reader = "reading" /\ call = "over"
  /\ reader' = "done"
  /\ UNCHANGED <<execVars, op, limit, cancelled, call, given, pos, ps, buffer, received>>

(* The channel is closed and empty. *)
ReaderDone ==
  /\ reader = "reading" /\ call = "over" /\ buffer = << >>
  /\ reader' = "done"
  /\ UNCHANGED <<execVars, op, limit, cancelled, call, given, pos, ps, buffer, received>>

Cancel ==
  /\ ~cancelled
  /\ cancelled' = TRUE
  /\ putctxDone' = (putctxDone \/ exec = "loop")
  /\ UNCHANGED <<exec, fn, result, errCh, countVars,
                 op, limit, call, given, pos, ps, buffer, received, reader>>

Reader == Receive \/ ReaderDone

Routine == Local \/ StoreFails \/ CallExec \/ CloseChannel

SearchNext ==
  \/ Routine \/ Exec \/ Cancel \/ Reader \/ ReaderCancelled
  \/ \E p \in Targets : Fn(p)

-----------------------------------------------------------------------------
(* Properties *)

Got == {m.item : m \in ToSet(received)}

Running == {p \in Targets : fn[p] \notin {"off", "done"}}

SearchTypeOK ==
  /\ ExecTypeOK
  /\ fn \in [Targets -> {"off", "rpc", "take", "send", "check", "done"}]
  /\ op \in {"findProviders", "searchValue", "findPeer", "put", "none"}
  /\ call \in {"start", "exec", "over"} /\ reader \in {"reading", "left", "done"}
  /\ ps \subseteq Items /\ Len(buffer) <= 1 /\ Got \subseteq Items

(* When a channel is closed no function is left that could send on it. *)
NoSendOnClosed == call = "over" /\ ~sloppyExit => Running = {}

(* The user gets at most count providers, and none of them twice. *)
AtMostCount ==
  op = "findProviders" =>
    /\ Cardinality(Got) = Len(received)
    /\ findAll \/ Len(received) <= limit

SearchSafe == SearchTypeOK /\ ReportsAccounted /\ NoSendOnClosed /\ AtMostCount

CutOff(x) == \E q \in Targets : result[q] = "err" /\ pos[q] < Len(given[q]) /\ Item(q) = x

(* Whatever ended the query, an answer that counts as a success has reached
   the reader.  A provider in it is missing only if there are enough, or if
   the function that had added it first was cut off while it was sending. *)
SuccessDelivered ==
  reader = "done" =>
    \A p \in Targets : result[p] = "ok" =>
      ToSet(given[p]) \subseteq
        Got \cup (IF op = "findProviders" THEN {x \in Items : Enough \/ CutOff(x)} ELSE {})

SearchOver == call = "over" /\ reader # "reading" /\ Running = {}
=============================================================================
