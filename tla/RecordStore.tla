----------------------------- MODULE RecordStore -----------------------------
(***************************************************************************)
(* The value records this node keeps, one key: handlePutValue and          *)
(* handleGetValue (handlers.go) serve remote peers, PutValue (routing.go)  *)
(* stores a value of the local user before it is published.  They share    *)
(* the datastore; only handlePutValue takes the striped lock of the key.   *)
(***************************************************************************)
EXTENDS Integers, FiniteSets

CONSTANTS
  Tasks,    \* goroutines, each of which serves one call at a time
  Values,   \* the values of the key
  Rank,     \* Rank[v]: the order of Validator.Select, e.g. a sequence number
  None

ASSUME StoreAssumption ==
  /\ None \notin Tasks \cup Values
  /\ Rank \in [Values -> Nat]

VARIABLES
  store,    \* the record in the datastore: its value, and if it is still young
  valid,    \* values that Validator.Validate accepts now; they expire
  lk,       \* holder of the striped lock of the key
  pc,
  call,     \* call[t]: "none", "put" (handlePutValue), "get" (handleGetValue), "local" (PutValue)
  val,      \* val[t]: the value to put
  seen      \* seen[t]: value of the existing record t compared with

taskVars == <<call, val>>
vars == <<store, valid, lk, pc, taskVars, seen>>

NoRecord == [value |-> None, young |-> FALSE]
Young(v) == [value |-> v, young |-> TRUE]

Init ==
  /\ store = NoRecord
  /\ valid \in SUBSET Values
  /\ lk = None
  /\ pc = [t \in Tasks |-> "idle"]
  /\ call = [t \in Tasks |-> "none"]
  /\ val = [t \in Tasks |-> None]
  /\ seen = [t \in Tasks |-> None]

Returned == {"done", "refused", "failed"}

Goto(t, l) == pc' = [pc EXCEPT ![t] = l]

(* The call returns; its locals are gone. *)
Return(t, result) ==
  /\ Goto(t, result)
  /\ val' = [val EXCEPT ![t] = None]
  /\ seen' = [seen EXCEPT ![t] = None]

Unlocked(t) == lk' = IF lk = t THEN None ELSE lk

(* Validator.Select over the new and the old value picks the new one. *)
SelectsNew(new, old) == Rank[new] >= Rank[old]

(* A record that does not validate counts as none. *)
getRecordFromDatastore == IF store.value \in valid THEN store.value ELSE None

-----------------------------------------------------------------------------
(* Steps of a put.  The datastore or Select may fail, which the call returns;
   the deferred unlock runs on every path. *)

(* A call comes in and its value is validated. *)
Validate(t) ==
  /\ pc[t] = "idle"
  /\ \E c \in {"put", "local"}, v \in Values :
       /\ call' = [call EXCEPT ![t] = c]
       /\ IF v \in valid
          THEN Goto(t, IF c = "put" THEN "lock" ELSE "read") /\ val' = [val EXCEPT ![t] = v]
          ELSE Goto(t, "refused") /\ UNCHANGED val
  /\ UNCHANGED <<store, valid, lk, seen>>

(* Fault: the lock is not taken. *)
NoLock(t) ==
  /\ pc[t] = "lock"
  /\ Goto(t, "read")
  /\ UNCHANGED <<store, valid, lk, taskVars, seen>>

Lock(t) ==
  /\ pc[t] = "lock"
  /\ lk = None
  /\ lk' = t
  /\ Goto(t, "read")
  /\ UNCHANGED <<store, valid, taskVars, seen>>

(* Compare with the existing record.  PutValue does not ask Select about an
   equal value. *)
Compare(t) ==
  /\ pc[t] = "read"
  /\ LET old == getRecordFromDatastore
         ok == old = None \/ (call[t] = "local" /\ old = val[t]) \/ SelectsNew(val[t], old) IN
       IF ok
       THEN Goto(t, "write") /\ seen' = [seen EXCEPT ![t] = old] /\ UNCHANGED <<val, lk>>
       ELSE Return(t, "refused") /\ Unlocked(t)
  /\ UNCHANGED <<store, valid, call>>

(* datastore.Put of the record with the time it was received. *)
Write(t) ==
  /\ pc[t] = "write"
  /\ store' = Young(val[t])
  /\ Unlocked(t)
  /\ Return(t, "done")
  /\ UNCHANGED <<valid, call>>

(* Fault: an error path does not release the lock. *)
PutErrorLocked(t) ==
  /\ pc[t] \in {"read", "write"}
  /\ Return(t, "failed")
  /\ UNCHANGED <<store, valid, lk, call>>

PutError(t) ==
  /\ pc[t] \in {"read", "write"}
  /\ Unlocked(t)
  /\ Return(t, "failed")
  /\ UNCHANGED <<store, valid, call>>

-----------------------------------------------------------------------------
(* checkLocalDatastore: a record that is there and young is returned, an old
   one is to be deleted first; or the datastore fails. *)

Get(t) ==
  /\ pc[t] = "idle"
  /\ call' = [call EXCEPT ![t] = "get"]
  /\ \/ Goto(t, IF store.value # None /\ ~store.young THEN "delete" ELSE "done")
     \/ Goto(t, "failed")
  /\ UNCHANGED <<store, valid, lk, val, seen>>

(* datastore.Delete; its error is logged only. *)
Delete(t) ==
  /\ pc[t] = "delete"
  /\ store' \in {NoRecord, store}
  /\ Goto(t, "done")
  /\ UNCHANGED <<valid, lk, taskVars, seen>>

(* The goroutine of a stream is free for the next request. *)
Again(t) ==
  /\ pc[t] \in Returned /\ call[t] # "local"
  /\ Goto(t, "idle")
  /\ call' = [call EXCEPT ![t] = "none"]
  /\ UNCHANGED <<store, valid, lk, val, seen>>

-----------------------------------------------------------------------------
(* Time *)

(* The record becomes older than maxRecordAge. *)
Age ==
  /\ store.young
  /\ store' = [store EXCEPT !.young = FALSE]
  /\ UNCHANGED <<valid, lk, pc, taskVars, seen>>

(* A value's own validity ends. *)
Expire(v) ==
  /\ v \in valid
  /\ valid' = valid \ {v}
  /\ UNCHANGED <<store, lk, pc, taskVars, seen>>

-----------------------------------------------------------------------------
Begin(t) == Validate(t) \/ Get(t)

Step(t) == Lock(t) \/ Compare(t) \/ Write(t) \/ PutError(t) \/ Delete(t)

Next ==
  \/ \E t \in Tasks : Begin(t) \/ Step(t) \/ Again(t)
  \/ Age
  \/ \E v \in Values : Expire(v)

(* A call that was made goes on: datastore calls return, and a goroutine that
   can run is scheduled. *)
Fairness == \A t \in Tasks : WF_vars(Step(t))

Spec == Init /\ [][Next]_vars /\ Fairness

-----------------------------------------------------------------------------
(* Properties *)

(* The variables keep their types. *)
TypeOK ==
  /\ store \in [value : Values \cup {None}, young : BOOLEAN]
  /\ valid \in SUBSET Values
  /\ lk \in Tasks \cup {None}
  /\ pc \in [Tasks -> {"idle", "lock", "read", "write", "delete"} \cup Returned]
  /\ call \in [Tasks -> {"none", "put", "get", "local"}]
  /\ val \in [Tasks -> Values \cup {None}]
  /\ seen \in [Tasks -> Values \cup {None}]

(* No PutValue of the local user has begun. *)
NoLocalPut == \A t \in Tasks : call[t] # "local"

(* A record that still validates was replaced by one that Select ranks lower. *)
Downgraded ==
  /\ store.value \in valid
  /\ store'.value # None
  /\ Rank[store'.value] < Rank[store.value]

(* "This prevents a record with for example a lower sequence number from
   overwriting a record with a higher sequence number": true of the calls of
   remote peers, whatever their order, with records expiring and being tossed
   between the check and the write. *)
HandlersKeepNewest == [][NoLocalPut => ~Downgraded]_vars

(* What a remote put compared with is still what it overwrites, unless that
   has been tossed or no longer validates. *)
ComparedIsCurrent ==
  NoLocalPut =>
    \A t \in Tasks :
      pc[t] = "write" => store.value \notin valid \/ store.value = seen[t]

(* Types, and what the puts of remote peers rely on (ComparedIsCurrent). *)
Inv == TypeOK /\ ComparedIsCurrent
=============================================================================
