---------------------------- MODULE FindProviders ----------------------------
(***************************************************************************)
(* findProvidersAsyncRoutine of routing.go: the providers of the local     *)
(* store and of the responses of a lookup are passed to the caller, at     *)
(* most count of them.  The query functions of the lookup run              *)
(* concurrently and share the map ps, each access to which is locked.      *)
(* The lookup is seen from outside, as in module ValueSearch: queries of   *)
(* run, then the follow-ups.  Who reads the channel is left to module      *)
(* DualDHT.                                                                *)
(***************************************************************************)
EXTENDS Integers, Sequences, FiniteSets

CONSTANTS
  Peers,      \* remote peers that are queried
  Self,       \* stands for the local provider store
  Provs,      \* providers of the key
  Alpha,      \* concurrency of the lookup
  Counts,     \* the numbers of providers a caller may ask for, 0 for all
  MaxEntries  \* MaxEntries[w]: bound of the provider entries in the responses of w

ASSUME CountAssumption ==
  /\ Counts \subseteq Nat /\ MaxEntries \in [Peers \cup {Self} -> Nat] /\ Self \notin Peers
  /\ IsFiniteSet(Provs) /\ Provs # {}

VARIABLES
  count,      \* providers asked for, 0 for all
  ps,         \* ps[p]: "absent", or p was passed on "bare" or with "addrs"
  pc,         \* pc[w]: query function of peer w, or the loop over local providers
  left,       \* left[w]: entries that the responses of w may still have
  item,       \* item[w]: the provider w is about to pass on
  lookup,     \* "local", "running", "followup", "stopping" (the follow-ups are
              \* cancelled) or "returned", with peerOut closed
  out,        \* what the caller got, in order
  cancelled,
  seen,       \* history: the entries of local store and responses
  cut         \* history: the entries given up when the follow-ups were cancelled

queryVars == <<pc, left, item>>
findVars == <<count, ps, queryVars, lookup, out, cancelled, seen, cut>>

Entry == [id : Provs, addrs : BOOLEAN]
NoEntry == [id |-> CHOOSE p \in Provs : TRUE, addrs |-> FALSE]
Workers == Peers \cup {Self}
findAll == count = 0
psSize == Cardinality({p \in Provs : ps[p] # "absent"})
Active == {w \in Peers : pc[w] \in {"next", "emit", "check"}}

InitFind ==
  /\ count \in Counts
  /\ ps = [p \in Provs |-> "absent"]
  /\ pc = [w \in Workers |-> IF w = Self THEN "next" ELSE "idle"]
  /\ left = MaxEntries
  /\ item = [w \in Workers |-> NoEntry]
  /\ lookup = "local"
  /\ out = << >>
  /\ cancelled = FALSE
  /\ seen = {} /\ cut = {}

Goto(w, l) == pc' = [pc EXCEPT ![w] = l]

(* The loop over the local providers that ends here ends the whole routine;
   a query function only returns. *)
Leave(w) ==
  /\ Goto(w, "done")
  /\ lookup' = IF w = Self THEN "returned" ELSE lookup

-----------------------------------------------------------------------------
(* The stop function and the query function *)

Enough == ~findAll /\ psSize >= count

(* Fault: addresses that come later are lost. *)
psTryAddOnce(e) ==
  /\ ps[e.id] = "absent"
  /\ psSize < count \/ findAll

(* psTryAdd accepts a new provider, or one that had no address so far. *)
psTryAdd(e) ==
  /\ ps[e.id] = "absent" \/ (ps[e.id] = "bare" /\ e.addrs)
  /\ psSize < count \/ findAll

(* The next entry; the providers of the local store are distinct. *)
NextEntry(w) ==
  /\ pc[w] = "next"
  /\ left[w] > 0
  /\ left' = [left EXCEPT ![w] = @ - 1]
  /\ \E e \in Entry :
       /\ w = Self => \A s \in seen : s.id # e.id
       /\ seen' = seen \cup {e}
       /\ IF psTryAdd(e)
          THEN /\ ps' = [ps EXCEPT ![e.id] = IF e.addrs THEN "addrs" ELSE "bare"]
               /\ item' = [item EXCEPT ![w] = e]
               /\ Goto(w, "emit")
          ELSE /\ Goto(w, "check")
               /\ UNCHANGED <<ps, item>>
  /\ UNCHANGED <<count, lookup, out, cancelled, cut>>

(* peerOut <- p *)
Emit(w) ==
  /\ pc[w] = "emit"
  /\ out' = Append(out, item[w])
  /\ item' = [item EXCEPT ![w] = NoEntry]
  /\ Goto(w, "check")
  /\ UNCHANGED <<count, ps, left, lookup, cancelled, seen, cut>>

(* case <-ctx.Done(): the context of a follow-up ends with cancelFollowUp too. *)
EmitCancelled(w) ==
  /\ pc[w] = "emit"
  /\ cancelled \/ lookup = "stopping"
  /\ Leave(w)
  /\ cut' = IF lookup = "stopping" THEN cut \cup {item[w]} ELSE cut
  /\ item' = [item EXCEPT ![w] = NoEntry]
  /\ UNCHANGED <<count, ps, left, out, cancelled, seen>>

Check(w) ==
  /\ pc[w] = "check"
  /\ IF Enough THEN Leave(w) ELSE Goto(w, "next") /\ UNCHANGED lookup
  /\ UNCHANGED <<count, ps, left, item, out, cancelled, seen, cut>>

(* No further entry: the lookup starts, or the query function returns. *)
EndOfEntries(w) ==
  /\ pc[w] = "next"
  /\ Goto(w, "done")
  /\ lookup' = IF w = Self THEN "running" ELSE lookup
  /\ UNCHANGED <<count, ps, left, item, out, cancelled, seen, cut>>

(* GetProviders of the local store fails. *)
StoreFails ==
  /\ pc[Self] = "next" /\ left[Self] = MaxEntries[Self]
  /\ Leave(Self)
  /\ UNCHANGED <<count, ps, left, item, out, cancelled, seen, cut>>

-----------------------------------------------------------------------------
(* The lookup *)

(* A loop of run that did not stop queries a peer. *)
Query(w) ==
  /\ lookup = "running" /\ ~Enough
  /\ pc[w] = "idle"
  /\ Cardinality(Active) < Alpha
  /\ Goto(w, "next")
  /\ UNCHANGED <<count, ps, left, item, lookup, out, cancelled, seen, cut>>

(* The follow-up queries, all at once, on peers of the result that are not
   known to have been queried. *)
FollowUp ==
  /\ lookup = "running"
  /\ Active = {}
  /\ ~Enough /\ ~cancelled
  /\ lookup' = "followup"
  /\ \E Q \in SUBSET Peers :
       pc' = [w \in Workers |->
                IF w = Self THEN pc[w] ELSE IF w \in Q THEN "next" ELSE "idle"]
  /\ UNCHANGED <<count, ps, left, item, out, cancelled, seen, cut>>

(* The lookup takes note of a follow-up that is over, asks the stop function,
   and cancels the other follow-ups when there are enough providers. *)
FollowUpOver(w) ==
  /\ lookup = "followup"
  /\ pc[w] = "done"
  /\ Goto(w, "idle")
  /\ lookup' = IF Enough THEN "stopping" ELSE lookup
  /\ UNCHANGED <<count, ps, left, item, out, cancelled, seen, cut>>

(* run ends and there are no follow-ups, or they are over. *)
LookupReturns ==
  /\ lookup \in {"running", "followup", "stopping"}
  /\ Active = {}
  /\ lookup = "followup" => \A w \in Peers : pc[w] = "idle"
  /\ lookup' = "returned"
  /\ UNCHANGED <<count, ps, queryVars, out, cancelled, seen, cut>>

-----------------------------------------------------------------------------
Step(w) == NextEntry(w) \/ EmitCancelled(w) \/ Check(w) \/ EndOfEntries(w)

-----------------------------------------------------------------------------
(* Properties *)

(* The variables keep their types. *)
FindTypeOK ==
  /\ count \in Counts
  /\ ps \in [Provs -> {"absent", "bare", "addrs"}]
  /\ pc \in [Workers -> {"idle", "next", "emit", "check", "done"}]
  /\ left \in [Workers -> Nat]
  /\ item \in [Workers -> Entry]
  /\ lookup \in {"local", "running", "followup", "stopping", "returned"}
  /\ out \in Seq(Entry)
  /\ cancelled \in BOOLEAN
  /\ seen \in SUBSET Entry /\ cut \in SUBSET Entry

(* Never more than count different providers, although several query functions
   find them at the same time. *)
AtMostCount ==
  ~findAll => Cardinality({out[i].id : i \in DOMAIN out}) <= count

(* A provider comes twice only to add the addresses it lacked. *)
RepeatsAddAddrs ==
  \A i, j \in DOMAIN out :
    i # j /\ out[i].id = out[j].id => out[i].addrs # out[j].addrs

(* A search for all providers that is not cancelled passes on every provider
   it met, with addresses if it met them. *)
FindsAll ==
  lookup = "returned" /\ findAll /\ ~cancelled =>
    \A e \in seen : \E i \in DOMAIN out : out[i].id = e.id /\ (e.addrs => out[i].addrs)

(* A search for count providers that is not cancelled gives up only when it
   has passed on count of them, or all it met.  Some of the count may have been
   in the hand of a follow-up that was cancelled because they were enough. *)
FindsEnough ==
  lookup = "returned" /\ ~findAll /\ ~cancelled =>
    LET ids == {out[i].id : i \in DOMAIN out} IN
      \/ Cardinality(ids \cup {e.id : e \in cut}) = count
      \/ cut = {} /\ \A e \in seen : e.id \in ids

=============================================================================
