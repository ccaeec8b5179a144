---------------------------- MODULE MessageSender ----------------------------
(***************************************************************************)
(* internal/net/message_manager.go: the requests and messages this node    *)
(* sends to one remote peer.  All callers share the peerMessageSender that *)
(* strmap holds for the peer; its lock lk serialises them on one stream.   *)
(* A sender is created by the first caller that finds none, dropped when   *)
(* its stream cannot be opened and when the peer disconnects.  Peers do    *)
(* not interact, so strmap is one entry.                                   *)
(***************************************************************************)
EXTENDS Integers, Sequences, FiniteSets

CONSTANTS
  Callers,          \* goroutines that call SendRequest or SendMessage, once each
  Senders,          \* peerMessageSender objects: bounds how many are created
  Disconnects,      \* bound on the disconnect notifications
  streamReuseTries, \* failed reuses after which a stream carries one message
  DHT,              \* this node, with a context of its own
  None

ASSUME SenderAssumption ==
  /\ IsFiniteSet(Callers) /\ IsFiniteSet(Senders)
  /\ None \notin Callers \cup Senders /\ DHT \notin Callers
  /\ streamReuseTries \in Nat /\ Disconnects \in Nat

VARIABLES
  cur,         \* strmap[p], None when there is no entry
  created,     \* the senders created so far
  lk,          \* lk[o]: holder of the lock of sender o, None when free
  stream,      \* stream[o]: o.s is an open stream
  replies,     \* replies[o]: callers whose replies the remote peer will send on it
  invalid,     \* invalid[o]
  singleMes,   \* singleMes[o]
  dropping,    \* senders an OnDisconnect goroutine has still to invalidate
  disconnects,
  pc,          \* pc[c]: where caller c is
  kind,        \* kind[c]: "request" or "message"
  ms,          \* ms[c]: the sender c works with
  retry,       \* retry[c]: c failed once already
  sends,       \* sends[c]: messages c has written
  got,         \* got[c]: whose reply c has read
  cancelled    \* callers whose context is cancelled; the DHT too, once it is closed

smVars == <<cur, created, disconnects, dropping>>
objVars == <<lk, stream, replies, invalid, singleMes>>
callVars == <<kind, retry, sends, got>>
vars == <<smVars, objVars, pc, ms, callVars, cancelled>>

-----------------------------------------------------------------------------
Init ==
  /\ cur = None
  /\ created = {}
  /\ lk = [o \in Senders |-> None]
  /\ stream = [o \in Senders |-> FALSE]
  /\ replies = [o \in Senders |-> << >>]
  /\ invalid = [o \in Senders |-> FALSE]
  /\ singleMes = [o \in Senders |-> 0]
  /\ dropping = {}
  /\ disconnects = 0
  /\ pc = [c \in Callers |-> "idle"]
  /\ kind \in [Callers -> {"request", "message"}]
  /\ ms = [c \in Callers |-> None]
  /\ retry = [c \in Callers |-> FALSE]
  /\ sends = [c \in Callers |-> 0]
  /\ got = [c \in Callers |-> None]
  /\ cancelled = {}

(* Helpers on the sender of caller c. *)
Goto(c, l) == pc' = [pc EXCEPT ![c] = l]
Lock(c) == lk[ms[c]] = None
Locked(c) == lk' = [lk EXCEPT ![ms[c]] = c]
Unlocked(c) == lk' = [lk EXCEPT ![ms[c]] = None]
OpenStream(o) ==
  /\ stream' = [stream EXCEPT ![o] = TRUE]
  /\ replies' = [replies EXCEPT ![o] = << >>]
(* Reset or Close of the stream, and s = nil; whatever was under way is lost. *)
DropStream(o) ==
  /\ stream' = [stream EXCEPT ![o] = FALSE]
  /\ replies' = [replies EXCEPT ![o] = << >>]
invalidate(o) ==
  /\ invalid' = [invalid EXCEPT ![o] = TRUE]
  /\ DropStream(o)

-----------------------------------------------------------------------------
(* messageSenderForPeer *)

(* Under smlk: reuse the sender of the map, or put a new one there. *)
FindSender(c) ==
  /\ pc[c] = "idle"
  /\ cur # None
  /\ ms' = [ms EXCEPT ![c] = cur]
  /\ Goto(c, "lock")
  /\ UNCHANGED <<smVars, objVars, callVars, cancelled>>

NewSender(c) ==
  /\ pc[c] = "idle"
  /\ cur = None
  /\ created # Senders
  /\ LET o == CHOOSE x \in Senders \ created : TRUE IN
       /\ created' = created \cup {o}
       /\ cur' = o
       /\ ms' = [ms EXCEPT ![c] = o]
  /\ Goto(c, "prepLock")
  /\ UNCHANGED <<disconnects, dropping, objVars, callVars, cancelled>>

(* prepOrInvalidate: a sender that was invalidated meanwhile, one that has a
   stream already, one that needs a stream. *)
PrepLock(c) ==
  /\ pc[c] = "prepLock"
  /\ Lock(c)
  /\ \/ /\ invalid[ms[c]]
        /\ Goto(c, "cleanup")
        /\ UNCHANGED lk
     \/ /\ ~invalid[ms[c]] /\ stream[ms[c]]
        /\ Goto(c, "lock")
        /\ UNCHANGED lk
     \/ /\ ~invalid[ms[c]] /\ ~stream[ms[c]]
        /\ Goto(c, "prep")
        /\ Locked(c)
  /\ UNCHANGED <<smVars, stream, replies, invalid, singleMes, ms, callVars, cancelled>>

(* lk.Lock(ctx) gives up: prepOrInvalidate returns without invalidating. *)
PrepLockCancelled(c) ==
  /\ pc[c] = "prepLock"
  /\ c \in cancelled
  /\ Goto(c, "cleanup")
  /\ UNCHANGED <<smVars, objVars, ms, callVars, cancelled>>

PrepOk(c) ==
  /\ pc[c] = "prep"
  /\ OpenStream(ms[c])
  /\ Unlocked(c)
  /\ Goto(c, "lock")
  /\ UNCHANGED <<smVars, invalid, singleMes, ms, callVars, cancelled>>

(* Fault: the lock is not released when no stream can be opened. *)
PrepFailLocked(c) ==
  /\ pc[c] = "prep"
  /\ invalidate(ms[c])
  /\ Goto(c, "cleanup")
  /\ UNCHANGED <<smVars, lk, singleMes, ms, callVars, cancelled>>

PrepFail(c) ==
  /\ pc[c] = "prep"
  /\ invalidate(ms[c])
  /\ Unlocked(c)
  /\ Goto(c, "cleanup")
  /\ UNCHANGED <<smVars, singleMes, ms, callVars, cancelled>>

(* Fault: a sender that was invalidated stays in the map. *)
CleanupLeaves(c) ==
  /\ pc[c] = "cleanup"
  /\ Goto(c, "failed")
  /\ UNCHANGED <<smVars, objVars, ms, callVars, cancelled>>

(* The part of messageSenderForPeer after a failed prepOrInvalidate. *)
Cleanup(c) ==
  /\ pc[c] = "cleanup"
  /\ \/ /\ cur \notin {None, ms[c]}
        /\ ms' = [ms EXCEPT ![c] = cur]
        /\ Goto(c, "lock")
        /\ UNCHANGED cur
     \/ /\ cur = ms[c]
        /\ cur' = None
        /\ Goto(c, "failed")
        /\ UNCHANGED ms
     \/ /\ cur = None
        /\ Goto(c, "failed")
        /\ UNCHANGED <<cur, ms>>
  /\ UNCHANGED <<created, disconnects, dropping, objVars, callVars, cancelled>>

-----------------------------------------------------------------------------
(* peerMessageSender.SendRequest and SendMessage *)

SendLock(c) ==
  /\ pc[c] = "lock"
  /\ Lock(c)
  /\ Locked(c)
  /\ Goto(c, "send")
  /\ UNCHANGED <<smVars, stream, replies, invalid, singleMes, ms, callVars, cancelled>>

SendLockCancelled(c) ==
  /\ pc[c] = "lock"
  /\ c \in cancelled
  /\ Goto(c, "failed")
  /\ UNCHANGED <<smVars, objVars, ms, callVars, cancelled>>

(* prep in the send loop: an invalid sender and a stream that cannot be
   opened are errors, which leave the sender as it is. *)
SendPrepOk(c) ==
  /\ pc[c] = "send"
  /\ ~invalid[ms[c]]
  /\ IF stream[ms[c]] THEN UNCHANGED <<stream, replies>> ELSE OpenStream(ms[c])
  /\ Goto(c, "write")
  /\ UNCHANGED <<smVars, lk, invalid, singleMes, ms, callVars, cancelled>>

SendPrepFail(c) ==
  /\ pc[c] = "send"
  /\ invalid[ms[c]] \/ ~stream[ms[c]]
  /\ Unlocked(c)
  /\ Goto(c, "failed")
  /\ UNCHANGED <<smVars, stream, replies, invalid, singleMes, ms, callVars, cancelled>>

(* The end of a successful exchange; rest are the replies still to come.  A
   sender that had to retry too often closes its stream after each exchange,
   and an error of Close is returned. *)
Finish(c, rest) ==
  LET o == ms[c]
      single == singleMes[o] > streamReuseTries IN
    /\ stream' = [stream EXCEPT ![o] = ~single]
    /\ replies' = [replies EXCEPT ![o] = IF single THEN << >> ELSE rest]
    /\ singleMes' = IF ~single /\ retry[c] THEN [singleMes EXCEPT ![o] = @ + 1] ELSE singleMes
    /\ Unlocked(c)
    /\ \/ Goto(c, "done")
       \/ single /\ Goto(c, "failed")

(* Fault: the stream is kept after a failed exchange. *)
FailExchangeKeepsStream(c, final) ==
  /\ UNCHANGED <<stream, replies>>
  /\ IF final
     THEN Unlocked(c) /\ Goto(c, "failed") /\ UNCHANGED retry
     ELSE retry' = [retry EXCEPT ![c] = TRUE] /\ Goto(c, "send") /\ UNCHANGED lk

(* The first failure of an exchange is retried on a new stream, the second
   one is returned. *)
FailExchange(c, final) ==
  /\ DropStream(ms[c])
  /\ IF final
     THEN Unlocked(c) /\ Goto(c, "failed") /\ UNCHANGED retry
     ELSE retry' = [retry EXCEPT ![c] = TRUE] /\ Goto(c, "send") /\ UNCHANGED lk

WriteMessage(c) ==
  /\ pc[c] = "write" /\ kind[c] = "message"
  /\ sends' = [sends EXCEPT ![c] = @ + 1]
  /\ Finish(c, replies[ms[c]])
  /\ UNCHANGED <<smVars, invalid, ms, kind, retry, got, cancelled>>

WriteRequest(c) ==
  /\ pc[c] = "write" /\ kind[c] = "request"
  /\ sends' = [sends EXCEPT ![c] = @ + 1]
  /\ replies' = [replies EXCEPT ![ms[c]] = Append(@, c)]
  /\ Goto(c, "read")
  /\ UNCHANGED <<smVars, lk, stream, invalid, singleMes, ms, kind, retry, got, cancelled>>

WriteFail(c) ==
  /\ pc[c] = "write"
  /\ FailExchange(c, retry[c])
  /\ UNCHANGED <<smVars, invalid, singleMes, ms, kind, sends, got, cancelled>>

(* ctxReadMsg returns the next message of the stream. *)
ReadOk(c) ==
  /\ pc[c] = "read"
  /\ replies[ms[c]] # << >>
  /\ got' = [got EXCEPT ![c] = Head(replies[ms[c]])]
  /\ Finish(c, Tail(replies[ms[c]]))
  /\ UNCHANGED <<smVars, invalid, ms, kind, retry, sends, cancelled>>

(* The read fails or times out. *)
ReadFail(c) ==
  /\ pc[c] = "read"
  /\ FailExchange(c, retry[c])
  /\ UNCHANGED <<smVars, invalid, singleMes, ms, kind, sends, got, cancelled>>

(* context.Canceled is not retried. *)
ReadCancelled(c) ==
  /\ pc[c] = "read"
  /\ c \in cancelled
  /\ FailExchange(c, TRUE)
  /\ UNCHANGED <<smVars, invalid, singleMes, ms, kind, sends, got, cancelled>>

-----------------------------------------------------------------------------
(* Fault: the sender is forgotten without being invalidated. *)
OnDisconnectForgets ==
  /\ disconnects < Disconnects
  /\ cur # None
  /\ disconnects' = disconnects + 1
  /\ cur' = None
  /\ UNCHANGED <<created, dropping, objVars, pc, ms, callVars, cancelled>>

(* OnDisconnect: forget the sender now, invalidate it once its lock is free. *)
OnDisconnect ==
  /\ disconnects < Disconnects
  /\ cur # None
  /\ disconnects' = disconnects + 1
  /\ cur' = None
  /\ dropping' = dropping \cup {cur}
  /\ UNCHANGED <<created, objVars, pc, ms, callVars, cancelled>>

InvalidateDropped(o) ==
  /\ o \in dropping
  /\ lk[o] = None
  /\ invalidate(o)
  /\ dropping' = dropping \ {o}
  /\ UNCHANGED <<cur, created, disconnects, lk, singleMes, pc, ms, callVars, cancelled>>

(* OnDisconnect is given the context of the DHT: once it is closed, the wait for
   the lock may give up, also when the lock is free, and the sender is left as it
   is. *)
InvalidateCancelled(o) ==
  /\ o \in dropping
  /\ DHT \in cancelled
  /\ dropping' = dropping \ {o}
  /\ UNCHANGED <<cur, created, disconnects, objVars, pc, ms, callVars, cancelled>>

Close ==
  /\ cancelled' = cancelled \cup {DHT}
  /\ UNCHANGED <<smVars, objVars, pc, ms, callVars>>

Cancel(c) ==
  /\ pc[c] \notin {"done", "failed"}
  /\ cancelled' = cancelled \cup {c}
  /\ UNCHANGED <<smVars, objVars, pc, ms, callVars>>

-----------------------------------------------------------------------------
Step(c) ==
  \/ FindSender(c) \/ NewSender(c)
  \/ PrepLock(c) \/ PrepLockCancelled(c) \/ PrepOk(c) \/ PrepFail(c) \/ Cleanup(c)
  \/ SendLock(c) \/ SendLockCancelled(c) \/ SendPrepOk(c) \/ SendPrepFail(c)
  \/ WriteMessage(c) \/ WriteRequest(c) \/ WriteFail(c)
  \/ ReadOk(c) \/ ReadFail(c) \/ ReadCancelled(c)

Next ==
  \/ \E c \in Callers : Step(c) \/ Cancel(c)
  \/ \E o \in Senders : InvalidateDropped(o) \/ InvalidateCancelled(o)
  \/ OnDisconnect \/ Close

(* NewStream, writes and reads return (reads have a timeout), and a goroutine
   that can run is scheduled. *)
Fairness ==
  /\ \A c \in Callers : WF_vars(Step(c))
  /\ \A o \in Senders : WF_vars(InvalidateDropped(o) \/ InvalidateCancelled(o))

Spec == Init /\ [][Next]_vars /\ Fairness

-----------------------------------------------------------------------------
(* Properties *)

Ended == {"done", "failed"}
Labels == {"idle", "prepLock", "prep", "cleanup", "lock", "send", "write", "read"} \cup Ended

(* The variables keep their types. *)
TypeOK ==
  /\ cur \in created \cup {None} /\ created \subseteq Senders
  /\ lk \in [Senders -> Callers \cup {None}]
  /\ stream \in [Senders -> BOOLEAN] /\ invalid \in [Senders -> BOOLEAN]
  /\ replies \in [Senders -> Seq(Callers)]
  /\ singleMes \in [Senders -> Nat]
  /\ dropping \subseteq created /\ disconnects \in 0..Disconnects
  /\ pc \in [Callers -> Labels]
  /\ kind \in [Callers -> {"request", "message"}]
  /\ ms \in [Callers -> created \cup {None}]
  /\ retry \in [Callers -> BOOLEAN]
  /\ sends \in [Callers -> Nat]
  /\ got \in [Callers -> Callers \cup {None}]
  /\ cancelled \subseteq Callers \cup {DHT}

(* A caller that succeeds with a request has read the reply to its own
   request, although the stream is reused and earlier callers timed out or
   were cancelled while their replies were under way. *)
ReplyMatchesRequest ==
  \A c \in Callers : pc[c] = "done" /\ kind[c] = "request" => got[c] = c

(* An invalidated sender never has a stream again ("prevents the
   peerMessageSender from being reused/reinitialized"). *)
InvalidHasNoStream == \A o \in Senders : invalid[o] => ~stream[o]

(* The map holds an invalidated sender only until the caller that
   invalidated it has cleaned up. *)
InvalidLeavesMap ==
  cur # None /\ invalid[cur] =>
    \E c \in Callers : pc[c] = "cleanup" /\ ms[c] = cur

(* A message is written at most twice: once, and once on the retry. *)
AtMostOneRetry == \A c \in Callers : sends[c] <= 2

(* The senders are consistent: types, no stream in an invalidated sender, no
   such sender left in the map, and at most one retry. *)
Inv == TypeOK /\ InvalidHasNoStream /\ InvalidLeavesMap /\ AtMostOneRetry

(* The stream of o is open and nobody is left who would close it. *)
Forgotten(o) ==
  /\ stream[o]
  /\ cur # o
  /\ o \notin dropping
  /\ \A c \in Callers : pc[c] \in Ended \/ ms[c] # o

(* The comment on invalidate: it "is called before this peerMessageSender is
   removed from the strmap. It prevents the peerMessageSender from being
   reused/reinitialized and then forgotten (leaving the stream open)".  True
   as long as no context is cancelled: a caller whose wait for the lock is
   cancelled removes its sender from the map without invalidating it, and so
   does a disconnect once the DHT is closed. *)
NoForgottenStreamUncancelled ==
  cancelled = {} => \A o \in Senders : ~Forgotten(o)

(* Every call returns: no caller waits for ever for a lock or a stream. *)
CallsReturn == \A c \in Callers : pc[c] # "idle" ~> pc[c] \in Ended
=============================================================================
