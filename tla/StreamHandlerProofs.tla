------------------------ MODULE StreamHandlerProofs ------------------------
(***************************************************************************)
(* Remote puts never replace a record by one that ranks lower, for any     *)
(* number of calls and any values; the server, of which the record store   *)
(* is a part, keeps that promise and reads no request once it is in client *)
(* mode, for any number of streams.                                        *)
(***************************************************************************)
EXTENDS StreamHandler, TLAPS

-----------------------------------------------------------------------------
(* The record store *)

(* A put that has passed the lock and not returned holds it; a put works on a
   value, and goes on to write only if its value ranks at least as high as
   the one it compared with. *)
Writing == {"read", "write"}

Begun ==
  \A t \in Tasks :
    /\ pc[t] = "idle" => call[t] = "none"
    /\ pc[t] \in Writing \cup {"lock"} => val[t] \in Values /\ call[t] \in {"put", "local"}

LockHeld == \A t \in Tasks : call[t] = "put" /\ pc[t] \in Writing => lk = t

Preferred ==
  \A t \in Tasks :
    pc[t] = "write" /\ seen[t] # None => Rank[val[t]] >= Rank[seen[t]]

IInv == TypeOK /\ Begun /\ LockHeld /\ Preferred /\ ComparedIsCurrent

(* Init establishes the invariant. *)
LEMMA InvInit == Init => IInv
  BY StoreAssumption
  DEF Init, IInv, TypeOK, Begun, LockHeld, Preferred, ComparedIsCurrent, NoRecord, Writing

(* A step keeps the types. *)
LEMMA TypeStep == TypeOK /\ Begun /\ [Next]_vars => TypeOK'
<1> SUFFICES ASSUME TypeOK, Begun, [Next]_vars PROVE TypeOK'
  OBVIOUS
<1> USE DEF TypeOK, Returned, Goto, Return, Unlocked, taskVars
<1>1. ASSUME NEW t \in Tasks, Validate(t) PROVE TypeOK'
  BY <1>1 DEF Validate
<1>2. ASSUME NEW t \in Tasks, Get(t) PROVE TypeOK'
  BY <1>2 DEF Get
<1>3. ASSUME NEW t \in Tasks, Lock(t) PROVE TypeOK'
  BY <1>3 DEF Lock
<1>4. ASSUME NEW t \in Tasks, Compare(t) PROVE TypeOK'
  BY <1>4 DEF Compare, getRecordFromDatastore
<1>5. ASSUME NEW t \in Tasks, Write(t) PROVE TypeOK'
  BY <1>5 DEF Write, Young, Begun, Writing
<1>6. ASSUME NEW t \in Tasks, PutError(t) PROVE TypeOK'
  BY <1>6 DEF PutError
<1>7. ASSUME NEW t \in Tasks, Delete(t) PROVE TypeOK'
  <2>1. NoRecord \in [value : Values \cup {None}, young : BOOLEAN]
    BY DEF NoRecord
  <2>2. store' = NoRecord \/ store' = store
    BY <1>7 DEF Delete
  <2>3. store' \in [value : Values \cup {None}, young : BOOLEAN]
    BY <2>1, <2>2
  <2> QED
    BY <1>7, <2>3 DEF Delete
<1>8. CASE Age
  BY <1>8 DEF Age
<1>9. ASSUME NEW v \in Values, Expire(v) PROVE TypeOK'
  BY <1>9 DEF Expire
<1>10. ASSUME NEW t \in Tasks, Again(t) PROVE TypeOK'
  BY <1>10 DEF Again
<1>11. CASE UNCHANGED vars
  BY <1>11 DEF vars
<1> QED
  BY <1>1, <1>2, <1>3, <1>4, <1>5, <1>6, <1>7, <1>8, <1>9, <1>10, <1>11 DEF Next, Begin, Step

(* A step keeps the bookkeeping of calls and of the lock. *)
LEMMA LockStep == TypeOK /\ Begun /\ LockHeld /\ [Next]_vars => Begun' /\ LockHeld'
<1> SUFFICES ASSUME TypeOK, Begun, LockHeld, [Next]_vars PROVE Begun' /\ LockHeld'
  OBVIOUS
<1> USE StoreAssumption DEF TypeOK, Returned, Begun, LockHeld, Writing, Goto, Return, Unlocked, taskVars
<1>1. ASSUME NEW t \in Tasks, Validate(t) PROVE Begun' /\ LockHeld'
  BY <1>1 DEF Validate
<1>2. ASSUME NEW t \in Tasks, Get(t) PROVE Begun' /\ LockHeld'
  BY <1>2 DEF Get
<1>3. ASSUME NEW t \in Tasks, Lock(t) PROVE Begun' /\ LockHeld'
  BY <1>3 DEF Lock
<1>4. ASSUME NEW t \in Tasks, Compare(t) PROVE Begun' /\ LockHeld'
  <2>1. /\ call' = call
        /\ pc' \in {[pc EXCEPT ![t] = "write"], [pc EXCEPT ![t] = "refused"]}
        /\ pc'[t] = "write" => lk' = lk
        /\ lk' # lk => lk = t
    BY <1>4 DEF Compare
  <2> QED
    BY <1>4, <2>1 DEF Compare
<1>5. ASSUME NEW t \in Tasks, Write(t) PROVE Begun' /\ LockHeld'
  BY <1>5 DEF Write
<1>6. ASSUME NEW t \in Tasks, PutError(t) PROVE Begun' /\ LockHeld'
  BY <1>6 DEF PutError
<1>7. ASSUME NEW t \in Tasks, Delete(t) PROVE Begun' /\ LockHeld'
  BY <1>7 DEF Delete
<1>8. CASE Age
  BY <1>8 DEF Age
<1>9. ASSUME NEW v \in Values, Expire(v) PROVE Begun' /\ LockHeld'
  BY <1>9 DEF Expire
<1>10. ASSUME NEW t \in Tasks, Again(t) PROVE Begun' /\ LockHeld'
  BY <1>10 DEF Again
<1>11. CASE UNCHANGED vars
  BY <1>11 DEF vars
<1> QED
  BY <1>1, <1>2, <1>3, <1>4, <1>5, <1>6, <1>7, <1>8, <1>9, <1>10, <1>11 DEF Next, Begin, Step

(* A step keeps the result of the comparison that a pending write rests on:
   while no PutValue has begun the lock keeps every other write away. *)
LEMMA CompareStep == IInv /\ [Next]_vars => Preferred' /\ ComparedIsCurrent'
<1> SUFFICES ASSUME IInv, [Next]_vars PROVE Preferred' /\ ComparedIsCurrent'
  OBVIOUS
<1> USE StoreAssumption DEF IInv, TypeOK, Returned, Begun, LockHeld, Writing, Preferred,
        ComparedIsCurrent, NoLocalPut, Goto, Return, Unlocked, taskVars
<1>1. ASSUME NEW t \in Tasks, Validate(t) PROVE Preferred' /\ ComparedIsCurrent'
  BY <1>1 DEF Validate
<1>2. ASSUME NEW t \in Tasks, Get(t) PROVE Preferred' /\ ComparedIsCurrent'
  BY <1>2 DEF Get
<1>3. ASSUME NEW t \in Tasks, Lock(t) PROVE Preferred' /\ ComparedIsCurrent'
  BY <1>3 DEF Lock
<1>4. ASSUME NEW t \in Tasks, Compare(t) PROVE Preferred' /\ ComparedIsCurrent'
  BY <1>4 DEF Compare, getRecordFromDatastore, SelectsNew
<1>5. ASSUME NEW t \in Tasks, Write(t) PROVE Preferred' /\ ComparedIsCurrent'
  BY <1>5 DEF Write, Young
<1>6. ASSUME NEW t \in Tasks, PutError(t) PROVE Preferred' /\ ComparedIsCurrent'
  BY <1>6 DEF PutError
<1>7. ASSUME NEW t \in Tasks, Delete(t) PROVE Preferred' /\ ComparedIsCurrent'
  BY <1>7 DEF Delete, NoRecord
<1>8. CASE Age
  BY <1>8 DEF Age
<1>9. ASSUME NEW v \in Values, Expire(v) PROVE Preferred' /\ ComparedIsCurrent'
  BY <1>9 DEF Expire
<1>10. ASSUME NEW t \in Tasks, Again(t) PROVE Preferred' /\ ComparedIsCurrent'
  BY <1>10 DEF Again
<1>11. CASE UNCHANGED vars
  BY <1>11 DEF vars
<1> QED
  BY <1>1, <1>2, <1>3, <1>4, <1>5, <1>6, <1>7, <1>8, <1>9, <1>10, <1>11 DEF Next, Begin, Step

(* The invariant holds in every reachable state. *)
THEOREM Invariance == Spec => []IInv
<1>1. Init => IInv
  BY InvInit
<1>2. IInv /\ [Next]_vars => IInv'
  BY TypeStep, LockStep, CompareStep DEF IInv
<1> QED
  BY <1>1, <1>2, PTL DEF Spec

(* Types are kept, and the record a remote put compared with is the one it
   overwrites. *)
THEOREM ComparesWithCurrent == Spec => []Inv
<1>1. IInv => Inv
  BY DEF IInv, Inv
<1> QED
  BY <1>1, Invariance, PTL

(* A step that overwrites a valid record, while only remote peers put, writes one
   that ranks at least as high. *)
LEMMA NewestStep == IInv /\ [Next]_vars => [NoLocalPut => ~Downgraded]_vars
<1> USE StoreAssumption DEF IInv, TypeOK, Downgraded
<1> SUFFICES ASSUME IInv, Next, NoLocalPut, Downgraded PROVE FALSE
  BY DEF vars, Downgraded
<1>1. store' # store
  OBVIOUS
<1>2. PICK t \in Tasks : Write(t)
  BY <1>1 DEF Next, Begin, Step, Validate, Get, Lock, Compare, PutError, Delete, Again, Age, Expire, NoRecord
<1>3. store'.value = val[t] /\ val[t] \in Values /\ store.value = seen[t]
  BY <1>2 DEF Write, Young, Begun, Writing, ComparedIsCurrent
<1>4. Rank[val[t]] >= Rank[seen[t]]
  BY <1>2, <1>3 DEF Write, Preferred
<1> QED
  BY <1>3, <1>4

(* Remote puts never replace a valid record by one that ranks lower. *)
THEOREM RemotePutsKeepNewest == Spec => HandlersKeepNewest
<1>1. IInv /\ [Next]_vars => [NoLocalPut => ~Downgraded]_vars
  BY NewestStep
<1> QED
  BY <1>1, Invariance, PTL DEF Spec, HandlersKeepNewest

-----------------------------------------------------------------------------
(* The server *)

(* A stream has its protocol from SetProtocol to its end. *)
ProtocolSet == \A t \in Tasks : t \in proto <=> at[t] \notin {"off", "picked"}

(* In client mode an open stream on which a request may be read is still to be
   reset. *)
ReadersToReset ==
  mode = "client" =>
    \A t \in Tasks : at[t] = "read" /\ strm[t] = "open" => t \in toReset

ServerIInv == IInv /\ ServerTypeOK /\ ProtocolSet /\ ReadersToReset

(* Every step of the server is a step of the record store, or none. *)
LEMMA StoreRefined == [ServerNext]_serverVars => [Next]_vars
<1> SUFFICES ASSUME [ServerNext]_serverVars PROVE [Next]_vars
  OBVIOUS
<1>1. ASSUME NEW t \in Tasks, Negotiate(t) \/ SetProtocol(t) \/ CheckMode(t) \/ ReadOther(t) \/ ReadEnds(t)
      PROVE UNCHANGED vars
  BY <1>1 DEF Negotiate, SetProtocol, CheckMode, ReadOther, ReadEnds
<1>2. ASSUME NEW t \in Tasks, ReadRequest(t) \/ Handled(t) \/ LocalPut(t) \/ StoreStep(t)
      PROVE Next
  BY <1>2 DEF ReadRequest, Handled, LocalPut, StoreStep, Next, Begin
<1>3. CASE moveToServerMode \/ moveToClientMode \/ ResetStream
  BY <1>3 DEF moveToServerMode, moveToClientMode, ResetStream
<1>4. CASE Time
  BY <1>4 DEF Time, Next
<1>5. CASE UNCHANGED serverVars
  BY <1>5 DEF serverVars
<1> QED
  BY <1>1, <1>2, <1>3, <1>4, <1>5 DEF ServerNext, Serve

(* Init establishes the invariant. *)
LEMMA ServerInvInit == ServerInit => ServerIInv
<1> SUFFICES ASSUME ServerInit PROVE ServerIInv
  OBVIOUS
<1>1. IInv
  BY InvInit DEF ServerInit
<1> QED
  BY <1>1 DEF ServerInit, ServerIInv, IInv, ServerTypeOK, ProtocolSet, ReadersToReset

(* A step keeps the server's part of the invariant. *)
LEMMA ModeStep == ServerIInv /\ [ServerNext]_serverVars /\ IInv' => ServerIInv'
<1> DEFINE G == ServerTypeOK' /\ ProtocolSet' /\ ReadersToReset'
<1> SUFFICES ASSUME ServerIInv, [ServerNext]_serverVars, IInv' PROVE G
  BY DEF ServerIInv
<1>t. TypeOK /\ TypeOK'
  BY DEF ServerIInv, IInv
<1> HIDE DEF G
<1> USE <1>t DEF ServerIInv, ServerTypeOK, ProtocolSet, ReadersToReset, GoAt, EndStream, modeVars, streamVars
<1>1. ASSUME NEW t \in Tasks, Negotiate(t) PROVE G
  BY <1>1 DEF G, Negotiate
<1>2. ASSUME NEW t \in Tasks, SetProtocol(t) PROVE G
  BY <1>2 DEF G, SetProtocol
<1>3. ASSUME NEW t \in Tasks, CheckMode(t) PROVE G
  BY <1>3 DEF G, CheckMode
<1>4. ASSUME NEW t \in Tasks, ReadRequest(t) PROVE G
  BY <1>4 DEF G, ReadRequest
<1>5. ASSUME NEW t \in Tasks, ReadOther(t) PROVE G
  BY <1>5 DEF G, ReadOther
<1>6. ASSUME NEW t \in Tasks, ReadEnds(t) PROVE G
  BY <1>6 DEF G, ReadEnds
<1>7. ASSUME NEW t \in Tasks, Handled(t) PROVE G
  BY <1>7 DEF G, Handled
<1>8. ASSUME NEW t \in Tasks, LocalPut(t) PROVE G
  BY <1>8 DEF G, LocalPut
<1>9. ASSUME NEW t \in Tasks, StoreStep(t) PROVE G
  BY <1>9 DEF G, StoreStep
<1>10. CASE moveToServerMode
  BY <1>10 DEF G, moveToServerMode
<1>11. CASE moveToClientMode
  BY <1>11 DEF G, moveToClientMode
<1>12. CASE ResetStream
  BY <1>12 DEF G, ResetStream
<1>13. CASE Time
  BY <1>13 DEF G, Time
<1>14. CASE UNCHANGED serverVars
  BY <1>14 DEF G, serverVars
<1> QED
  BY <1>1, <1>2, <1>3, <1>4, <1>5, <1>6, <1>7, <1>8, <1>9, <1>10, <1>11, <1>12, <1>13, <1>14
  DEF ServerNext, Serve

(* The invariant holds in every reachable state of the server. *)
LEMMA ServerInvariance == ServerSpec => []ServerIInv
<1>1. ServerInit => ServerIInv
  BY ServerInvInit
<1>2. ServerIInv /\ [ServerNext]_serverVars => ServerIInv'
  <2> SUFFICES ASSUME ServerIInv, [ServerNext]_serverVars PROVE ServerIInv'
    OBVIOUS
  <2>1. [Next]_vars
    BY StoreRefined
  <2>2. IInv'
    BY <2>1, TypeStep, LockStep, CompareStep DEF ServerIInv, IInv
  <2> QED
    BY <2>2, ModeStep
<1> QED
  BY <1>1, <1>2, PTL DEF ServerSpec

(* Remote puts overwrite what they compared with, and nothing is read from an
   open stream once a move to client mode is over: the streams that
   moveToClientMode does not reset see the mode before they read. *)
THEOREM ServerSafe == ServerSpec => []ServerInv
<1>1. ServerIInv => ServerInv
  BY DEF ServerIInv, IInv, ServerInv, ReadersToReset, ClientDeaf, moving
<1> QED
  BY <1>1, ServerInvariance, PTL

(* The composed server never replaces a valid record by one that ranks lower,
   as long as only remote peers put. *)
THEOREM ServerKeepsNewest == ServerSpec => HandlersKeepNewest
<1>1. ServerIInv /\ [ServerNext]_serverVars => [NoLocalPut => ~Downgraded]_vars
  BY NewestStep, StoreRefined DEF ServerIInv
<1> QED
  BY <1>1, ServerInvariance, PTL DEF ServerSpec, HandlersKeepNewest
=============================================================================
