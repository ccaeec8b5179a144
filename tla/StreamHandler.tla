---------------------------- MODULE StreamHandler ----------------------------
(***************************************************************************)
(* The server: handleNewStream and handleNewMessage (dht_net.go) read the  *)
(* requests of an inbound stream one by one, have them handled and answer  *)
(* them, as long as the node is in server mode.  setMode (dht.go) changes  *)
(* the mode, when the host's reachability changes, under a lock that       *)
(* handlers take to look at it.  The move to client mode removes the       *)
(* stream handlers and resets the inbound streams of the protocol.         *)
(*                                                                         *)
(* A task of module RecordStore is the goroutine of a stream, of one after *)
(* the other, or a call of the local user.  Requests that touch no value   *)
(* record are handled in one step.                                         *)
(***************************************************************************)
EXTENDS RecordStore

VARIABLES
  mode,      \* "server" or "client"
  toReset,   \* the streams that moveToClientMode has still to look at, under modeLk
  strm,      \* strm[t]: "none", "open" or "reset"
  proto,     \* streams whose protocol is set
  at         \* at[t]: where the goroutine of stream t is

streamVars == <<strm, proto, at>>
modeVars == <<mode, toReset>>
serverVars == <<vars, modeVars, streamVars>>

ServerInit ==
  /\ Init
  /\ mode \in {"server", "client"} /\ toReset = {}
  /\ strm = [t \in Tasks |-> "none"]
  /\ proto = {}
  /\ at = [t \in Tasks |-> "off"]

moving == toReset # {}

GoAt(t, l) == at' = [at EXCEPT ![t] = l]

(* handleNewMessage returns, and handleNewStream closes or resets the stream:
   it is gone either way. *)
EndStream(t) ==
  /\ GoAt(t, "off")
  /\ strm' = [strm EXCEPT ![t] = "none"]
  /\ proto' = proto \ {t}

-----------------------------------------------------------------------------
(* The host: a new stream is given to the handler that is registered when its
   protocol is negotiated, and has its protocol set after that. *)

Negotiate(t) ==
  /\ at[t] = "off" /\ pc[t] = "idle"
  /\ mode = "server"
  /\ strm' = [strm EXCEPT ![t] = "open"]
  /\ GoAt(t, "picked")
  /\ UNCHANGED <<vars, modeVars, proto>>

SetProtocol(t) ==
  /\ at[t] = "picked"
  /\ proto' = proto \cup {t}
  /\ GoAt(t, "mode")
  /\ UNCHANGED <<vars, modeVars, strm>>

-----------------------------------------------------------------------------
(* handleNewMessage *)

(* Fault: the mode is not looked at. *)
CheckModeNever(t) ==
  /\ at[t] = "mode" /\ ~moving
  /\ GoAt(t, "read")
  /\ UNCHANGED <<vars, modeVars, strm, proto>>

(* getMode waits for modeLk. *)
CheckMode(t) ==
  /\ at[t] = "mode" /\ ~moving
  /\ IF mode = "server"
     THEN GoAt(t, "read") /\ UNCHANGED <<strm, proto>>
     ELSE EndStream(t)
  /\ UNCHANGED <<vars, modeVars>>

(* A request for a value record arrives and its handler begins. *)
ReadRequest(t) ==
  /\ at[t] = "read" /\ strm[t] = "open"
  /\ Begin(t) /\ call'[t] # "local"
  /\ GoAt(t, "handle")
  /\ UNCHANGED <<modeVars, strm, proto>>

(* Another request is handled: it is answered, or needs no answer
   (ADD_PROVIDER), and the next one is read; or it has no handler, fails, or its
   answer cannot be written. *)
ReadOther(t) ==
  /\ at[t] = "read" /\ strm[t] = "open"
  /\ \/ GoAt(t, "mode") /\ UNCHANGED <<strm, proto>>
     \/ EndStream(t)
  /\ UNCHANGED <<vars, modeVars>>

(* The remote peer closed or reset the stream, or dhtStreamIdleTimeout passed
   since the last request and its timer reset it. *)
ReadEnds(t) ==
  /\ at[t] = "read"
  /\ EndStream(t)
  /\ UNCHANGED <<vars, modeVars>>

(* The handler returns a response, which is written; the stream ends when it is
   an error, or when the write fails, as it does on a stream that was reset. *)
Handled(t) ==
  /\ at[t] = "handle"
  /\ Again(t)
  /\ \/ pc[t] = "done" /\ strm[t] = "open" /\ GoAt(t, "mode") /\ UNCHANGED <<strm, proto>>
     \/ EndStream(t)
  /\ UNCHANGED modeVars

-----------------------------------------------------------------------------
(* setMode *)

moveToServerMode ==
  /\ ~moving /\ mode = "client"
  /\ mode' = "server"
  /\ UNCHANGED <<vars, toReset, streamVars>>

(* The mode is changed and the handlers are removed, then the streams are gone
   through with the lock held. *)
moveToClientMode ==
  /\ ~moving /\ mode = "server"
  /\ mode' = "client"
  /\ toReset' = {t \in Tasks : at[t] # "off"}
  /\ UNCHANGED <<vars, streamVars>>

(* The next stream is reset if it speaks one of the protocols.  Its goroutine
   may have ended meanwhile. *)
ResetStream ==
  /\ \E t \in toReset :
       /\ toReset' = toReset \ {t}
       /\ strm' = IF t \in proto THEN [strm EXCEPT ![t] = "reset"] ELSE strm
  /\ UNCHANGED <<vars, mode, proto, at>>

-----------------------------------------------------------------------------
(* PutValue of the local user *)
LocalPut(t) ==
  /\ at[t] = "off"
  /\ Validate(t) /\ call'[t] = "local"
  /\ UNCHANGED <<modeVars, streamVars>>

StoreStep(t) == Step(t) /\ UNCHANGED <<modeVars, streamVars>>

Time ==
  /\ Age \/ \E v \in Values : Expire(v)
  /\ UNCHANGED <<modeVars, streamVars>>

Serve(t) ==
  SetProtocol(t) \/ CheckMode(t) \/ ReadRequest(t) \/ ReadOther(t) \/ ReadEnds(t) \/ Handled(t)

ServerNext ==
  \/ \E t \in Tasks : Negotiate(t) \/ Serve(t) \/ LocalPut(t) \/ StoreStep(t)
  \/ moveToServerMode \/ moveToClientMode \/ ResetStream
  \/ Time

(* Goroutines run, datastore calls return, and a read ends: with a request,
   or when the idle timeout resets the stream.  The mutexes of Go are handed to
   a goroutine that waits for long, so that nobody waits for ever for a lock
   that is freed again and again. *)
ServerFairness ==
  /\ \A t \in Tasks : WF_serverVars(Serve(t)) /\ WF_serverVars(StoreStep(t))
  /\ \A t \in Tasks : SF_serverVars(CheckMode(t)) /\ SF_serverVars(Lock(t) /\ UNCHANGED <<modeVars, streamVars>>)
  /\ WF_serverVars(ResetStream)

ServerSpec == ServerInit /\ [][ServerNext]_serverVars /\ ServerFairness

-----------------------------------------------------------------------------
(* Properties *)

ServerTypeOK ==
  /\ TypeOK
  /\ mode \in {"server", "client"} /\ toReset \subseteq Tasks
  /\ strm \in [Tasks -> {"none", "open", "reset"}] /\ proto \subseteq Tasks
  /\ at \in [Tasks -> {"off", "picked", "mode", "read", "handle"}]

(* Once the move to client mode is over no goroutine waits for a request on an
   open stream, not even of a stream whose protocol was not set when the
   streams were gone through: what is handled was read in server mode. *)
ClientDeaf ==
  mode = "client" /\ ~moving =>
    \A t \in Tasks : ~(at[t] = "read" /\ strm[t] = "open")

(* The records' invariant, the types and the store of the server *)
ServerInv == ServerTypeOK /\ ComparedIsCurrent /\ ClientDeaf

(* The goroutine of a stream that was reset ends, wherever it was: also when it
   waits for the lock of a key, which every path of a put has to free, or for
   the lock of the mode. *)
ServerLive == \A t \in Tasks : (strm[t] = "reset" /\ at[t] # "off") ~> at[t] = "off"
=============================================================================
