-------------------------- MODULE MessageSenderProofs --------------------------
(***************************************************************************)
(* Callers that share the stream of a peer get the replies to their own    *)
(* requests, and a stream is not leaked as long as nobody cancels, for any *)
(* number of callers, senders, disconnects and retries.                    *)
(***************************************************************************)
EXTENDS MessageSender, SequenceTheorems, TLAPS

(* The lock of a sender is held by the caller that works on its stream. *)
Holding == {"prep", "send", "write", "read"}
LockInv ==
  \A c \in Callers, o \in Senders : lk[o] = c <=> pc[c] \in Holding /\ ms[c] = o

HasSender == \A c \in Callers : pc[c] # "idle" => ms[c] # None

(* A sender that is yet to be created is blank. *)
UncreatedBlank == \A o \in Senders \ created : ~stream[o] /\ ~invalid[o]

(* Only one reply is ever under way: that of the lock's holder while it reads. *)
OwnReply ==
  /\ \A o \in Senders : replies[o] # << >> => \E c \in Callers : lk[o] = c /\ pc[c] = "read"
  /\ \A c \in Callers : pc[c] = "read" => replies[ms[c]] = <<c>>

(* Nobody invalidates a sender while another caller prepares or uses its stream. *)
HolderValid ==
  \A c \in Callers : pc[c] \in {"prep", "write", "read"} => ~invalid[ms[c]]

(* A sender that waits to be invalidated has left the map. *)
DroppedLeft == cur \notin dropping

(* The messages written are those of the retry and of the first try. *)
SendsAccounted ==
  \A c \in Callers :
    sends[c] <= (IF retry[c] THEN 1 ELSE 0) + (IF pc[c] \in {"read"} \cup Ended THEN 1 ELSE 0)

(* Without a cancellation a sender leaves the map only towards invalidation. *)
LeavesByInvalidation ==
  cancelled = {} =>
    /\ \A o \in created : o = cur \/ o \in dropping \/ invalid[o]
    /\ \A c \in Callers : pc[c] = "cleanup" => invalid[ms[c]]

SharedInv ==
  /\ TypeOK /\ HasSender /\ LockInv /\ UncreatedBlank /\ HolderValid /\ DroppedLeft
IInv ==
  /\ SharedInv /\ OwnReply /\ Inv /\ ReplyMatchesRequest /\ SendsAccounted
  /\ LeavesByInvalidation

(* Init establishes the invariant. *)
LEMMA InvInit == Init => IInv
<1> SUFFICES ASSUME Init PROVE IInv
  OBVIOUS
<1>1. TypeOK
  BY SenderAssumption, EmptySeq DEF Init, TypeOK, Labels, Ended
<1> QED
  BY <1>1, SenderAssumption
  DEF Init, IInv, SharedInv, HasSender, LockInv, Holding, UncreatedBlank, HolderValid, DroppedLeft,
      OwnReply, Inv, InvalidHasNoStream, InvalidLeavesMap, AtMostOneRetry, ReplyMatchesRequest,
      SendsAccounted, Ended, LeavesByInvalidation

(* The sender NewSender puts into the map is a new one. *)
LEMMA FreshSender ==
  ASSUME TypeOK, created # Senders
  PROVE  (CHOOSE x \in Senders \ created : TRUE) \in Senders \ created
<1>1. \E x \in Senders \ created : TRUE
  BY DEF TypeOK
<1> QED
  BY <1>1

(* What the helpers do to the types. *)
LEMMA GotoTyped ==
  ASSUME pc \in [Callers -> Labels], NEW c \in Callers, NEW l \in Labels, Goto(c, l)
  PROVE  pc' \in [Callers -> Labels]
  BY DEF Goto

(* A caller takes or frees a lock. *)
LEMMA LockTyped ==
  ASSUME lk \in [Senders -> Callers \cup {None}], NEW c \in Callers,
         Locked(c) \/ Unlocked(c) \/ UNCHANGED lk
  PROVE  lk' \in [Senders -> Callers \cup {None}]
<1>1. CASE Locked(c)
  BY <1>1 DEF Locked
<1>2. CASE Unlocked(c)
  BY <1>2 DEF Unlocked
<1> QED
  BY <1>1, <1>2

(* A counter of a sender goes up. *)
LEMMA CountTyped ==
  ASSUME NEW f \in [Senders -> Nat], NEW o \in Senders
  PROVE  [f EXCEPT ![o] = @ + 1] \in [Senders -> Nat]
  OBVIOUS

(* A step keeps the types. *)
LEMMA TypeStep == TypeOK /\ HasSender /\ [Next]_vars => TypeOK'
<1> SUFFICES ASSUME TypeOK, HasSender, [Next]_vars PROVE TypeOK'
  OBVIOUS
<1>e. << >> \in Seq(Callers)
  BY EmptySeq
<1>m. ASSUME NEW c \in Callers, pc[c] # "idle" PROVE ms[c] \in created /\ ms[c] \in Senders
  BY <1>m DEF TypeOK, HasSender
<1>p. pc \in [Callers -> Labels] /\ lk \in [Senders -> Callers \cup {None}]
  BY DEF TypeOK
<1>l. Labels = {"idle", "prepLock", "prep", "cleanup", "lock", "send", "write", "read",
                "done", "failed"}
  BY DEF Labels, Ended
<1> USE DEF smVars, objVars, callVars
<1>1. ASSUME NEW c \in Callers, FindSender(c) PROVE TypeOK'
  <2>1. pc' \in [Callers -> Labels]
    BY <1>1, <1>p, <1>l, GotoTyped DEF FindSender
  <2>3. ms' \in [Callers -> created \cup {None}]
    BY <1>1 DEF FindSender, TypeOK
  <2> QED
    BY <1>1, <2>1, <2>3 DEF FindSender, TypeOK
<1>2. ASSUME NEW c \in Callers, NewSender(c) PROVE TypeOK'
  <2> DEFINE o == CHOOSE x \in Senders \ created : TRUE
  <2>1. o \in Senders \ created
    BY <1>2, FreshSender DEF NewSender
  <2> HIDE DEF o
  <2>2. created' = created \cup {o} /\ cur' = o /\ ms' = [ms EXCEPT ![c] = o]
    BY <1>2 DEF NewSender, o
  <2>3. pc' \in [Callers -> Labels]
    BY <1>2, <1>p, <1>l, GotoTyped DEF NewSender
  <2>4. ms' \in [Callers -> created' \cup {None}]
    BY <2>1, <2>2 DEF TypeOK
  <2> QED
    BY <1>2, <2>1, <2>2, <2>3, <2>4 DEF NewSender, TypeOK
<1>3. ASSUME NEW c \in Callers, PrepLock(c) PROVE TypeOK'
  <2>1. pc' \in [Callers -> Labels]
    BY <1>3, <1>p, <1>l, GotoTyped DEF PrepLock
  <2>2. lk' \in [Senders -> Callers \cup {None}]
    BY <1>3, <1>p, LockTyped DEF PrepLock
  <2> QED
    BY <1>3, <2>1, <2>2 DEF PrepLock, TypeOK
<1>4. ASSUME NEW c \in Callers, PrepLockCancelled(c) PROVE TypeOK'
  <2>1. pc' \in [Callers -> Labels]
    BY <1>4, <1>p, <1>l, GotoTyped DEF PrepLockCancelled
  <2> QED
    BY <1>4, <2>1 DEF PrepLockCancelled, TypeOK
<1>5. ASSUME NEW c \in Callers, PrepOk(c) PROVE TypeOK'
  <2>1. pc' \in [Callers -> Labels]
    BY <1>5, <1>p, <1>l, GotoTyped DEF PrepOk
  <2>2. lk' \in [Senders -> Callers \cup {None}]
    BY <1>5, <1>p, LockTyped DEF PrepOk
  <2>3. stream' \in [Senders -> BOOLEAN] /\ replies' \in [Senders -> Seq(Callers)]
    BY <1>5, <1>e DEF PrepOk, OpenStream, TypeOK
  <2> QED
    BY <1>5, <2>1, <2>2, <2>3 DEF PrepOk, TypeOK
<1>6. ASSUME NEW c \in Callers, PrepFail(c) PROVE TypeOK'
  <2>1. pc' \in [Callers -> Labels]
    BY <1>6, <1>p, <1>l, GotoTyped DEF PrepFail
  <2>2. lk' \in [Senders -> Callers \cup {None}]
    BY <1>6, <1>p, LockTyped DEF PrepFail
  <2>3. stream' \in [Senders -> BOOLEAN] /\ replies' \in [Senders -> Seq(Callers)] /\ invalid' \in [Senders -> BOOLEAN]
    BY <1>6, <1>e DEF PrepFail, invalidate, DropStream, TypeOK
  <2> QED
    BY <1>6, <2>1, <2>2, <2>3 DEF PrepFail, TypeOK
<1>7. ASSUME NEW c \in Callers, Cleanup(c) PROVE TypeOK'
  <2>1. pc' \in [Callers -> Labels]
    BY <1>7, <1>p, <1>l, GotoTyped DEF Cleanup
  <2>3. ms' \in [Callers -> created \cup {None}]
    BY <1>7 DEF Cleanup, TypeOK
  <2>4. cur' \in created \cup {None}
    BY <1>7 DEF Cleanup, TypeOK
  <2> QED
    BY <1>7, <2>1, <2>3, <2>4 DEF Cleanup, TypeOK
<1>8. ASSUME NEW c \in Callers, SendLock(c) PROVE TypeOK'
  <2>1. pc' \in [Callers -> Labels]
    BY <1>8, <1>p, <1>l, GotoTyped DEF SendLock
  <2>2. lk' \in [Senders -> Callers \cup {None}]
    BY <1>8, <1>p, LockTyped DEF SendLock
  <2> QED
    BY <1>8, <2>1, <2>2 DEF SendLock, TypeOK
<1>9. ASSUME NEW c \in Callers, SendLockCancelled(c) PROVE TypeOK'
  <2>1. pc' \in [Callers -> Labels]
    BY <1>9, <1>p, <1>l, GotoTyped DEF SendLockCancelled
  <2> QED
    BY <1>9, <2>1 DEF SendLockCancelled, TypeOK
<1>10. ASSUME NEW c \in Callers, SendPrepOk(c) PROVE TypeOK'
  <2>1. pc' \in [Callers -> Labels]
    BY <1>10, <1>p, <1>l, GotoTyped DEF SendPrepOk
  <2>3. stream' \in [Senders -> BOOLEAN] /\ replies' \in [Senders -> Seq(Callers)]
    BY <1>10, <1>e DEF SendPrepOk, OpenStream, TypeOK
  <2> QED
    BY <1>10, <2>1, <2>3 DEF SendPrepOk, TypeOK
<1>11. ASSUME NEW c \in Callers, SendPrepFail(c) PROVE TypeOK'
  <2>1. pc' \in [Callers -> Labels]
    BY <1>11, <1>p, <1>l, GotoTyped DEF SendPrepFail
  <2>2. lk' \in [Senders -> Callers \cup {None}]
    BY <1>11, <1>p, LockTyped DEF SendPrepFail
  <2> QED
    BY <1>11, <2>1, <2>2 DEF SendPrepFail, TypeOK
<1>12. ASSUME NEW c \in Callers, WriteMessage(c) PROVE TypeOK'
  <2>1. pc' \in [Callers -> Labels]
    BY <1>12, <1>p, <1>l, GotoTyped DEF WriteMessage, Finish
  <2>2. lk' \in [Senders -> Callers \cup {None}]
    BY <1>12, <1>p, LockTyped DEF WriteMessage, Finish
  <2>3. ms[c] \in Senders /\ replies[ms[c]] \in Seq(Callers)
    BY <1>12, <1>m, HeadTailProperties DEF WriteMessage, Finish, TypeOK
  <2>4. stream' \in [Senders -> BOOLEAN]
    BY <1>12, <2>3 DEF WriteMessage, Finish, TypeOK
  <2>5. replies' \in [Senders -> Seq(Callers)]
    BY <1>12, <1>e, <2>3 DEF WriteMessage, Finish, TypeOK
  <2>6. singleMes' \in [Senders -> Nat]
    <3>1. singleMes' = singleMes \/ singleMes' = [singleMes EXCEPT ![ms[c]] = @ + 1]
      BY <1>12 DEF WriteMessage, Finish
    <3>2. ms[c] \in Senders /\ singleMes \in [Senders -> Nat]
      BY <1>12, <1>m DEF WriteMessage, TypeOK
    <3> QED
      BY <3>1, <3>2, CountTyped
  <2>7. sends' \in [Callers -> Nat]
    BY <1>12 DEF WriteMessage, Finish, TypeOK
  <2> QED
    BY <1>12, <2>1, <2>2, <2>3, <2>4, <2>5, <2>6, <2>7 DEF WriteMessage, Finish, TypeOK
<1>13. ASSUME NEW c \in Callers, WriteRequest(c) PROVE TypeOK'
  <2>1. pc' \in [Callers -> Labels]
    BY <1>13, <1>p, <1>l, GotoTyped DEF WriteRequest
  <2>3. ms[c] \in Senders /\ Append(replies[ms[c]], c) \in Seq(Callers)
    BY <1>13, <1>m DEF WriteRequest, TypeOK
  <2>4. replies' \in [Senders -> Seq(Callers)]
    BY <1>13, <2>3 DEF WriteRequest, TypeOK
  <2>5. sends' \in [Callers -> Nat]
    BY <1>13 DEF WriteRequest, TypeOK
  <2> QED
    BY <1>13, <2>1, <2>3, <2>4, <2>5 DEF WriteRequest, TypeOK
<1>14. ASSUME NEW c \in Callers, WriteFail(c) PROVE TypeOK'
  <2>1. pc' \in [Callers -> Labels]
    BY <1>14, <1>p, <1>l, GotoTyped DEF WriteFail, FailExchange
  <2>2. lk' \in [Senders -> Callers \cup {None}]
    BY <1>14, <1>p, LockTyped DEF WriteFail, FailExchange
  <2>3. stream' \in [Senders -> BOOLEAN] /\ replies' \in [Senders -> Seq(Callers)]
    BY <1>14, <1>e DEF WriteFail, FailExchange, DropStream, TypeOK
  <2>4. retry' \in [Callers -> BOOLEAN]
    BY <1>14 DEF WriteFail, FailExchange, TypeOK
  <2> QED
    BY <1>14, <2>1, <2>2, <2>3, <2>4 DEF WriteFail, FailExchange, TypeOK
<1>15. ASSUME NEW c \in Callers, ReadOk(c) PROVE TypeOK'
  <2>1. pc' \in [Callers -> Labels]
    BY <1>15, <1>p, <1>l, GotoTyped DEF ReadOk, Finish
  <2>2. lk' \in [Senders -> Callers \cup {None}]
    BY <1>15, <1>p, LockTyped DEF ReadOk, Finish
  <2>3. ms[c] \in Senders /\ Tail(replies[ms[c]]) \in Seq(Callers)
    BY <1>15, <1>m, HeadTailProperties DEF ReadOk, Finish, TypeOK
  <2>4. stream' \in [Senders -> BOOLEAN]
    BY <1>15, <2>3 DEF ReadOk, Finish, TypeOK
  <2>5. replies' \in [Senders -> Seq(Callers)]
    BY <1>15, <1>e, <2>3 DEF ReadOk, Finish, TypeOK
  <2>6. singleMes' \in [Senders -> Nat]
    <3>1. singleMes' = singleMes \/ singleMes' = [singleMes EXCEPT ![ms[c]] = @ + 1]
      BY <1>15 DEF ReadOk, Finish
    <3>2. ms[c] \in Senders /\ singleMes \in [Senders -> Nat]
      BY <1>15, <1>m DEF ReadOk, TypeOK
    <3> QED
      BY <3>1, <3>2, CountTyped
  <2>7. got' \in [Callers -> Callers \cup {None}]
    BY <1>15, <1>m, HeadTailProperties DEF ReadOk, Finish, TypeOK
  <2> QED
    BY <1>15, <2>1, <2>2, <2>3, <2>4, <2>5, <2>6, <2>7 DEF ReadOk, Finish, TypeOK
<1>16. ASSUME NEW c \in Callers, ReadFail(c) PROVE TypeOK'
  <2>1. pc' \in [Callers -> Labels]
    BY <1>16, <1>p, <1>l, GotoTyped DEF ReadFail, FailExchange
  <2>2. lk' \in [Senders -> Callers \cup {None}]
    BY <1>16, <1>p, LockTyped DEF ReadFail, FailExchange
  <2>3. stream' \in [Senders -> BOOLEAN] /\ replies' \in [Senders -> Seq(Callers)]
    BY <1>16, <1>e DEF ReadFail, FailExchange, DropStream, TypeOK
  <2>4. retry' \in [Callers -> BOOLEAN]
    BY <1>16 DEF ReadFail, FailExchange, TypeOK
  <2> QED
    BY <1>16, <2>1, <2>2, <2>3, <2>4 DEF ReadFail, FailExchange, TypeOK
<1>17. ASSUME NEW c \in Callers, ReadCancelled(c) PROVE TypeOK'
  <2>1. pc' \in [Callers -> Labels]
    BY <1>17, <1>p, <1>l, GotoTyped DEF ReadCancelled, FailExchange
  <2>2. lk' \in [Senders -> Callers \cup {None}]
    BY <1>17, <1>p, LockTyped DEF ReadCancelled, FailExchange
  <2>3. stream' \in [Senders -> BOOLEAN] /\ replies' \in [Senders -> Seq(Callers)]
    BY <1>17, <1>e DEF ReadCancelled, FailExchange, DropStream, TypeOK
  <2>4. retry' \in [Callers -> BOOLEAN]
    BY <1>17 DEF ReadCancelled, FailExchange, TypeOK
  <2> QED
    BY <1>17, <2>1, <2>2, <2>3, <2>4 DEF ReadCancelled, FailExchange, TypeOK
<1>18. ASSUME NEW c \in Callers, Cancel(c) PROVE TypeOK'
  BY <1>18 DEF Cancel, TypeOK
<1>19. ASSUME NEW o \in Senders, InvalidateDropped(o) PROVE TypeOK'
  BY <1>19, <1>e DEF InvalidateDropped, invalidate, DropStream, TypeOK
<1>20. CASE OnDisconnect
  <2>1. disconnects' \in 0..Disconnects
    BY <1>20, SenderAssumption DEF OnDisconnect, TypeOK
  <2>2. cur' \in created' \cup {None} /\ dropping' \subseteq created'
    BY <1>20 DEF OnDisconnect, TypeOK
  <2> QED
    BY <1>20, <2>1, <2>2 DEF OnDisconnect, TypeOK
<1>22. ASSUME NEW o \in Senders, InvalidateCancelled(o) PROVE TypeOK'
  BY <1>22 DEF InvalidateCancelled, TypeOK
<1>23. CASE Close
  BY <1>23 DEF Close, TypeOK
<1>21. CASE UNCHANGED vars
  BY <1>21 DEF vars, TypeOK
<1> QED
  BY <1>1, <1>2, <1>3, <1>4, <1>5, <1>6, <1>7, <1>8, <1>9, <1>10, <1>11,
     <1>12, <1>13, <1>14, <1>15, <1>16, <1>17, <1>18, <1>19, <1>20, <1>21, <1>22,
     <1>23 DEF Next, Step

(* A step keeps the lock with the caller that works on the stream, and lets no
   other invalidate the sender meanwhile. *)
LEMMA SharedStep ==
  SharedInv /\ [Next]_vars =>
    HasSender' /\ LockInv' /\ UncreatedBlank' /\ HolderValid' /\ DroppedLeft'
<1> DEFINE G == HasSender' /\ LockInv' /\ UncreatedBlank' /\ HolderValid' /\ DroppedLeft'
<1> SUFFICES ASSUME SharedInv, [Next]_vars PROVE G
  OBVIOUS
<1>t. /\ pc \in [Callers -> Labels] /\ lk \in [Senders -> Callers \cup {None}]
      /\ stream \in [Senders -> BOOLEAN] /\ invalid \in [Senders -> BOOLEAN]
      /\ created \subseteq Senders /\ ms \in [Callers -> created \cup {None}]
      /\ cur \in created \cup {None} /\ dropping \subseteq created
      /\ None \notin Callers /\ None \notin Senders
      /\ HasSender /\ LockInv /\ UncreatedBlank /\ HolderValid /\ DroppedLeft
  BY SenderAssumption DEF SharedInv, TypeOK
<1> HIDE DEF G
<1> USE <1>t
    DEF G, HasSender, LockInv, UncreatedBlank, HolderValid, DroppedLeft, Holding, smVars, objVars,
        callVars, Goto, Lock, Locked, Unlocked, OpenStream, DropStream, invalidate
<1>1. ASSUME NEW c \in Callers, FindSender(c) PROVE G
  BY <1>1 DEF FindSender
<1>2. ASSUME NEW c \in Callers, NewSender(c) PROVE G
  <2> DEFINE o == CHOOSE x \in Senders \ created : TRUE
  <2>1. o \in Senders \ created
    BY <1>2, FreshSender DEF NewSender, SharedInv
  <2> HIDE DEF o
  <2>2. created' = created \cup {o} /\ cur' = o /\ ms' = [ms EXCEPT ![c] = o]
    BY <1>2 DEF NewSender, o
  <2> QED
    BY <1>2, <2>1, <2>2 DEF NewSender
<1>3. ASSUME NEW c \in Callers, PrepLock(c) PROVE G
  BY <1>3 DEF PrepLock
<1>4. ASSUME NEW c \in Callers, PrepLockCancelled(c) PROVE G
  BY <1>4 DEF PrepLockCancelled
<1>5. ASSUME NEW c \in Callers, PrepOk(c) PROVE G
  BY <1>5 DEF PrepOk
<1>6. ASSUME NEW c \in Callers, PrepFail(c) PROVE G
  BY <1>6 DEF PrepFail
<1>7. ASSUME NEW c \in Callers, Cleanup(c) PROVE G
  BY <1>7 DEF Cleanup
<1>8. ASSUME NEW c \in Callers, SendLock(c) PROVE G
  BY <1>8 DEF SendLock
<1>9. ASSUME NEW c \in Callers, SendLockCancelled(c) PROVE G
  BY <1>9 DEF SendLockCancelled
<1>10. ASSUME NEW c \in Callers, SendPrepOk(c) PROVE G
  BY <1>10 DEF SendPrepOk
<1>11. ASSUME NEW c \in Callers, SendPrepFail(c) PROVE G
  BY <1>11 DEF SendPrepFail
<1>12. ASSUME NEW c \in Callers, WriteMessage(c) PROVE G
  BY <1>12 DEF WriteMessage, Finish
<1>13. ASSUME NEW c \in Callers, WriteRequest(c) PROVE G
  BY <1>13 DEF WriteRequest
<1>14. ASSUME NEW c \in Callers, WriteFail(c) PROVE G
  BY <1>14 DEF WriteFail, FailExchange
<1>15. ASSUME NEW c \in Callers, ReadOk(c) PROVE G
  BY <1>15 DEF ReadOk, Finish
<1>16. ASSUME NEW c \in Callers, ReadFail(c) PROVE G
  BY <1>16 DEF ReadFail, FailExchange
<1>17. ASSUME NEW c \in Callers, ReadCancelled(c) PROVE G
  BY <1>17 DEF ReadCancelled, FailExchange
<1>18. ASSUME NEW c \in Callers, Cancel(c) PROVE G
  BY <1>18 DEF Cancel
<1>19. ASSUME NEW o \in Senders, InvalidateDropped(o) PROVE G
  BY <1>19 DEF InvalidateDropped
<1>20. CASE OnDisconnect
  BY <1>20 DEF OnDisconnect
<1>22. ASSUME NEW o \in Senders, InvalidateCancelled(o) PROVE G
  BY <1>22 DEF InvalidateCancelled
<1>23. CASE Close
  BY <1>23 DEF Close
<1>21. CASE UNCHANGED vars
  BY <1>21 DEF vars
<1> QED
  BY <1>1, <1>2, <1>3, <1>4, <1>5, <1>6, <1>7, <1>8, <1>9, <1>10, <1>11,
     <1>12, <1>13, <1>14, <1>15, <1>16, <1>17, <1>18, <1>19, <1>20, <1>21, <1>22,
     <1>23 DEF Next, Step

(* A step keeps invalidated senders without a stream and on their way out of
   the map, and nothing else leaves the map while nobody is cancelled. *)
LEMMA MapStep ==
  IInv /\ [Next]_vars => InvalidHasNoStream' /\ InvalidLeavesMap' /\ LeavesByInvalidation'
<1> DEFINE G == InvalidHasNoStream' /\ InvalidLeavesMap' /\ LeavesByInvalidation'
<1> SUFFICES ASSUME IInv, [Next]_vars PROVE G
  OBVIOUS
<1>t. /\ pc \in [Callers -> Labels] /\ lk \in [Senders -> Callers \cup {None}]
      /\ stream \in [Senders -> BOOLEAN] /\ invalid \in [Senders -> BOOLEAN]
      /\ created \subseteq Senders /\ ms \in [Callers -> created \cup {None}]
      /\ cur \in created \cup {None} /\ dropping \subseteq created
      /\ cancelled \subseteq Callers \cup {DHT} /\ None \notin Callers /\ None \notin Senders
      /\ HasSender /\ UncreatedBlank /\ HolderValid /\ DroppedLeft
      /\ InvalidHasNoStream /\ InvalidLeavesMap /\ LeavesByInvalidation
  BY SenderAssumption DEF IInv, SharedInv, Inv, TypeOK
<1> HIDE DEF G
<1> USE <1>t
    DEF G, HasSender, UncreatedBlank, HolderValid, DroppedLeft, InvalidHasNoStream,
        InvalidLeavesMap, LeavesByInvalidation, smVars, objVars,
        callVars, Goto, Lock, Locked, Unlocked, OpenStream, DropStream, invalidate
<1>1. ASSUME NEW c \in Callers, FindSender(c) PROVE G
  BY <1>1 DEF FindSender
<1>2. ASSUME NEW c \in Callers, NewSender(c) PROVE G
  <2> DEFINE o == CHOOSE x \in Senders \ created : TRUE
  <2>1. o \in Senders \ created
    BY <1>2, FreshSender DEF NewSender, IInv, SharedInv
  <2> HIDE DEF o
  <2>2. created' = created \cup {o} /\ cur' = o /\ ms' = [ms EXCEPT ![c] = o]
    BY <1>2 DEF NewSender, o
  <2> QED
    BY <1>2, <2>1, <2>2 DEF NewSender
<1>3. ASSUME NEW c \in Callers, PrepLock(c) PROVE G
  BY <1>3 DEF PrepLock
<1>4. ASSUME NEW c \in Callers, PrepLockCancelled(c) PROVE G
  BY <1>4 DEF PrepLockCancelled
<1>5. ASSUME NEW c \in Callers, PrepOk(c) PROVE G
  BY <1>5 DEF PrepOk
<1>6. ASSUME NEW c \in Callers, PrepFail(c) PROVE G
  BY <1>6 DEF PrepFail
<1>7. ASSUME NEW c \in Callers, Cleanup(c) PROVE G
  BY <1>7 DEF Cleanup
<1>8. ASSUME NEW c \in Callers, SendLock(c) PROVE G
  BY <1>8 DEF SendLock
<1>9. ASSUME NEW c \in Callers, SendLockCancelled(c) PROVE G
  BY <1>9 DEF SendLockCancelled
<1>10. ASSUME NEW c \in Callers, SendPrepOk(c) PROVE G
  BY <1>10 DEF SendPrepOk
<1>11. ASSUME NEW c \in Callers, SendPrepFail(c) PROVE G
  BY <1>11 DEF SendPrepFail
<1>12. ASSUME NEW c \in Callers, WriteMessage(c) PROVE G
  BY <1>12 DEF WriteMessage, Finish
<1>13. ASSUME NEW c \in Callers, WriteRequest(c) PROVE G
  BY <1>13 DEF WriteRequest
<1>14. ASSUME NEW c \in Callers, WriteFail(c) PROVE G
  BY <1>14 DEF WriteFail, FailExchange
<1>15. ASSUME NEW c \in Callers, ReadOk(c) PROVE G
  BY <1>15 DEF ReadOk, Finish
<1>16. ASSUME NEW c \in Callers, ReadFail(c) PROVE G
  BY <1>16 DEF ReadFail, FailExchange
<1>17. ASSUME NEW c \in Callers, ReadCancelled(c) PROVE G
  BY <1>17 DEF ReadCancelled, FailExchange
<1>18. ASSUME NEW c \in Callers, Cancel(c) PROVE G
  BY <1>18 DEF Cancel
<1>19. ASSUME NEW o \in Senders, InvalidateDropped(o) PROVE G
  BY <1>19 DEF InvalidateDropped
<1>20. CASE OnDisconnect
  BY <1>20 DEF OnDisconnect
<1>22. ASSUME NEW o \in Senders, InvalidateCancelled(o) PROVE G
  BY <1>22 DEF InvalidateCancelled
<1>23. CASE Close
  BY <1>23 DEF Close
<1>21. CASE UNCHANGED vars
  BY <1>21 DEF vars
<1> QED
  BY <1>1, <1>2, <1>3, <1>4, <1>5, <1>6, <1>7, <1>8, <1>9, <1>10, <1>11,
     <1>12, <1>13, <1>14, <1>15, <1>16, <1>17, <1>18, <1>19, <1>20, <1>21, <1>22,
     <1>23 DEF Next, Step

(* A step keeps the count of the messages a caller has written. *)
LEMMA CountStep == IInv /\ [Next]_vars => SendsAccounted'
<1> SUFFICES ASSUME IInv, [Next]_vars PROVE SendsAccounted'
  OBVIOUS
<1>t. /\ pc \in [Callers -> Labels] /\ retry \in [Callers -> BOOLEAN]
      /\ sends \in [Callers -> Nat] /\ SendsAccounted
  BY DEF IInv, SharedInv, TypeOK
<1> USE <1>t DEF SendsAccounted, Ended, smVars, objVars, callVars, Goto
<1>1. ASSUME NEW c \in Callers, FindSender(c) PROVE SendsAccounted'
  BY <1>1 DEF FindSender
<1>2. ASSUME NEW c \in Callers, NewSender(c) PROVE SendsAccounted'
  BY <1>2 DEF NewSender
<1>3. ASSUME NEW c \in Callers, PrepLock(c) PROVE SendsAccounted'
  BY <1>3 DEF PrepLock
<1>4. ASSUME NEW c \in Callers, PrepLockCancelled(c) PROVE SendsAccounted'
  BY <1>4 DEF PrepLockCancelled
<1>5. ASSUME NEW c \in Callers, PrepOk(c) PROVE SendsAccounted'
  BY <1>5 DEF PrepOk
<1>6. ASSUME NEW c \in Callers, PrepFail(c) PROVE SendsAccounted'
  BY <1>6 DEF PrepFail
<1>7. ASSUME NEW c \in Callers, Cleanup(c) PROVE SendsAccounted'
  BY <1>7 DEF Cleanup
<1>8. ASSUME NEW c \in Callers, SendLock(c) PROVE SendsAccounted'
  BY <1>8 DEF SendLock
<1>9. ASSUME NEW c \in Callers, SendLockCancelled(c) PROVE SendsAccounted'
  BY <1>9 DEF SendLockCancelled
<1>10. ASSUME NEW c \in Callers, SendPrepOk(c) PROVE SendsAccounted'
  BY <1>10 DEF SendPrepOk
<1>11. ASSUME NEW c \in Callers, SendPrepFail(c) PROVE SendsAccounted'
  BY <1>11 DEF SendPrepFail
<1>12. ASSUME NEW c \in Callers, WriteMessage(c) PROVE SendsAccounted'
  BY <1>12 DEF WriteMessage, Finish
<1>13. ASSUME NEW c \in Callers, WriteRequest(c) PROVE SendsAccounted'
  BY <1>13 DEF WriteRequest
<1>14. ASSUME NEW c \in Callers, WriteFail(c) PROVE SendsAccounted'
  BY <1>14 DEF WriteFail, FailExchange
<1>15. ASSUME NEW c \in Callers, ReadOk(c) PROVE SendsAccounted'
  BY <1>15 DEF ReadOk, Finish
<1>16. ASSUME NEW c \in Callers, ReadFail(c) PROVE SendsAccounted'
  BY <1>16 DEF ReadFail, FailExchange
<1>17. ASSUME NEW c \in Callers, ReadCancelled(c) PROVE SendsAccounted'
  BY <1>17 DEF ReadCancelled, FailExchange
<1>18. ASSUME NEW c \in Callers, Cancel(c) PROVE SendsAccounted'
  BY <1>18 DEF Cancel
<1>19. ASSUME NEW o \in Senders, InvalidateDropped(o) PROVE SendsAccounted'
  BY <1>19 DEF InvalidateDropped
<1>20. CASE OnDisconnect
  BY <1>20 DEF OnDisconnect
<1>22. ASSUME NEW o \in Senders, InvalidateCancelled(o) PROVE SendsAccounted'
  BY <1>22 DEF InvalidateCancelled
<1>23. CASE Close
  BY <1>23 DEF Close
<1>21. CASE UNCHANGED vars
  BY <1>21 DEF vars
<1> QED
  BY <1>1, <1>2, <1>3, <1>4, <1>5, <1>6, <1>7, <1>8, <1>9, <1>10, <1>11,
     <1>12, <1>13, <1>14, <1>15, <1>16, <1>17, <1>18, <1>19, <1>20, <1>21, <1>22,
     <1>23 DEF Next, Step

(* A step keeps the replies apart: the holder of the lock finds its own. *)
LEMMA ReplyStep == IInv /\ [Next]_vars => OwnReply' /\ ReplyMatchesRequest'
<1> DEFINE G == OwnReply' /\ ReplyMatchesRequest'
<1> SUFFICES ASSUME IInv, [Next]_vars PROVE G
  OBVIOUS
<1>t. /\ pc \in [Callers -> Labels] /\ lk \in [Senders -> Callers \cup {None}]
      /\ replies \in [Senders -> Seq(Callers)] /\ got \in [Callers -> Callers \cup {None}]
      /\ created \subseteq Senders /\ ms \in [Callers -> created \cup {None}]
      /\ None \notin Callers /\ None \notin Senders
      /\ HasSender /\ LockInv /\ OwnReply /\ ReplyMatchesRequest
  BY SenderAssumption DEF IInv, SharedInv, TypeOK
<1> HIDE DEF G
<1> USE <1>t
    DEF G, HasSender, LockInv, Holding, OwnReply, ReplyMatchesRequest, smVars, objVars,
        callVars, Goto, Lock, Locked, Unlocked, OpenStream, DropStream, invalidate
<1>1. ASSUME NEW c \in Callers, FindSender(c) PROVE G
  BY <1>1 DEF FindSender
<1>2. ASSUME NEW c \in Callers, NewSender(c) PROVE G
  BY <1>2 DEF NewSender
<1>3. ASSUME NEW c \in Callers, PrepLock(c) PROVE G
  <2>1. lk[ms[c]] = None /\ ms[c] \in Senders /\ UNCHANGED <<replies, ms, got, kind>>
    BY <1>3 DEF PrepLock
  <2>2. CASE UNCHANGED lk /\ (Goto(c, "cleanup") \/ Goto(c, "lock"))
    BY <1>3, <2>1, <2>2 DEF PrepLock
  <2>3. CASE lk' = [lk EXCEPT ![ms[c]] = c] /\ Goto(c, "prep")
    BY <1>3, <2>1, <2>3 DEF PrepLock
  <2> QED
    BY <1>3, <2>2, <2>3 DEF PrepLock
<1>4. ASSUME NEW c \in Callers, PrepLockCancelled(c) PROVE G
  BY <1>4 DEF PrepLockCancelled
<1>5. ASSUME NEW c \in Callers, PrepOk(c) PROVE G
  BY <1>5 DEF PrepOk
<1>6. ASSUME NEW c \in Callers, PrepFail(c) PROVE G
  BY <1>6 DEF PrepFail
<1>7. ASSUME NEW c \in Callers, Cleanup(c) PROVE G
  BY <1>7 DEF Cleanup
<1>8. ASSUME NEW c \in Callers, SendLock(c) PROVE G
  BY <1>8 DEF SendLock
<1>9. ASSUME NEW c \in Callers, SendLockCancelled(c) PROVE G
  BY <1>9 DEF SendLockCancelled
<1>10. ASSUME NEW c \in Callers, SendPrepOk(c) PROVE G
  BY <1>10 DEF SendPrepOk
<1>11. ASSUME NEW c \in Callers, SendPrepFail(c) PROVE G
  BY <1>11 DEF SendPrepFail
<1>12. ASSUME NEW c \in Callers, WriteMessage(c) PROVE G
  <2>1. replies[ms[c]] = << >> /\ ms[c] \in Senders
    BY <1>12 DEF WriteMessage
  <2> QED
    BY <1>12, <2>1 DEF WriteMessage, Finish
<1>13. ASSUME NEW c \in Callers, WriteRequest(c) PROVE G
  <2>1. replies[ms[c]] = << >> /\ ms[c] \in Senders
    BY <1>13 DEF WriteRequest
  <2>2. Append(replies[ms[c]], c) = <<c>>
    BY <2>1
  <2> QED
    BY <1>13, <2>1, <2>2 DEF WriteRequest
<1>14. ASSUME NEW c \in Callers, WriteFail(c) PROVE G
  BY <1>14 DEF WriteFail, FailExchange
<1>15. ASSUME NEW c \in Callers, ReadOk(c) PROVE G
  <2>1. replies[ms[c]] = <<c>> /\ ms[c] \in Senders
    BY <1>15 DEF ReadOk
  <2>2. Head(replies[ms[c]]) = c /\ Tail(replies[ms[c]]) = << >>
    BY <2>1
  <2>3. /\ lk' = [lk EXCEPT ![ms[c]] = None] /\ got' = [got EXCEPT ![c] = c]
        /\ replies' = [replies EXCEPT ![ms[c]] = << >>]
        /\ UNCHANGED <<ms, kind>>
    BY <1>15, <2>2 DEF ReadOk, Finish
  <2>4. pc' = [pc EXCEPT ![c] = "done"] \/ pc' = [pc EXCEPT ![c] = "failed"]
    BY <1>15 DEF ReadOk, Finish
  <2>5. OwnReply'
    BY <1>15, <2>1, <2>3, <2>4 DEF ReadOk
  <2>6. ReplyMatchesRequest'
    BY <2>3, <2>4
  <2> QED
    BY <2>5, <2>6
<1>16. ASSUME NEW c \in Callers, ReadFail(c) PROVE G
  BY <1>16 DEF ReadFail, FailExchange
<1>17. ASSUME NEW c \in Callers, ReadCancelled(c) PROVE G
  BY <1>17 DEF ReadCancelled, FailExchange
<1>18. ASSUME NEW c \in Callers, Cancel(c) PROVE G
  BY <1>18 DEF Cancel
<1>19. ASSUME NEW o \in Senders, InvalidateDropped(o) PROVE G
  BY <1>19 DEF InvalidateDropped
<1>20. CASE OnDisconnect
  BY <1>20 DEF OnDisconnect
<1>22. ASSUME NEW o \in Senders, InvalidateCancelled(o) PROVE G
  BY <1>22 DEF InvalidateCancelled
<1>23. CASE Close
  BY <1>23 DEF Close
<1>21. CASE UNCHANGED vars
  BY <1>21 DEF vars
<1> QED
  BY <1>1, <1>2, <1>3, <1>4, <1>5, <1>6, <1>7, <1>8, <1>9, <1>10, <1>11,
     <1>12, <1>13, <1>14, <1>15, <1>16, <1>17, <1>18, <1>19, <1>20, <1>21, <1>22,
     <1>23 DEF Next, Step

(* The strengthened invariant holds of every execution. *)
THEOREM SenderInvariance == Spec => []IInv
<1>1. IInv /\ [Next]_vars => IInv'
  <2> SUFFICES ASSUME IInv, [Next]_vars PROVE IInv'
    OBVIOUS
  <2>1. TypeOK'
    BY TypeStep DEF IInv, SharedInv
  <2>2. SharedInv'
    BY <2>1, SharedStep DEF IInv, SharedInv
  <2>3. InvalidHasNoStream' /\ InvalidLeavesMap' /\ LeavesByInvalidation'
    BY MapStep
  <2>4. SendsAccounted'
    BY CountStep
  <2>5. AtMostOneRetry'
    <3> SUFFICES ASSUME NEW c \in Callers PROVE sends'[c] <= 2
      BY DEF AtMostOneRetry
    <3>1. sends'[c] \in Nat
      BY <2>1 DEF TypeOK
    <3>2. sends'[c] <= 0 + 0 \/ sends'[c] <= 0 + 1 \/ sends'[c] <= 1 + 0 \/ sends'[c] <= 1 + 1
      BY <2>4 DEF SendsAccounted
    <3> QED
      BY <3>1, <3>2
  <2>6. OwnReply' /\ ReplyMatchesRequest'
    BY ReplyStep
  <2> QED
    BY <2>1, <2>2, <2>3, <2>4, <2>5, <2>6 DEF IInv, Inv
<1> QED
  BY <1>1, InvInit, PTL DEF Spec

(* An invalidated sender has no stream and is on its way out of the map, and a
   caller writes its message twice at most. *)
THEOREM SendersConsistent == Spec => []Inv
<1>1. IInv => Inv
  BY DEF IInv
<1> QED
  BY <1>1, SenderInvariance, PTL

(* A request returns the reply to itself, for any number of callers that share
   the stream, time out, retry or are cancelled. *)
THEOREM RepliesMatch == Spec => []ReplyMatchesRequest
<1>1. IInv => ReplyMatchesRequest
  BY DEF IInv
<1> QED
  BY <1>1, SenderInvariance, PTL

(* As long as no context is cancelled, no open stream is left without a way
   to it. *)
THEOREM NoneForgotten == Spec => []NoForgottenStreamUncancelled
<1>1. IInv => NoForgottenStreamUncancelled
  BY DEF IInv, SharedInv, Inv, InvalidHasNoStream, UncreatedBlank, LeavesByInvalidation,
         NoForgottenStreamUncancelled, Forgotten
<1> QED
  BY <1>1, SenderInvariance, PTL
=============================================================================
