----------------------------- MODULE DualDHTProofs -----------------------------
(***************************************************************************)
(* A search for providers passes each of them on once, never more than     *)
(* asked for and no fewer than it met unless its follow-ups had enough,    *)
(* and the merge of the two searches of a dual DHT loses none, for any     *)
(* peers, responses and counts.                                            *)
(***************************************************************************)
EXTENDS DualDHT, SequenceTheorems, FiniteSetTheorems, TLAPS

(* Worker w has taken a provider into ps and is about to pass it on. *)
InHand(w) == pc[w] = "emit"

(* ps knows of what was passed on, given up or is in hand, addresses included. *)
Noted(e) == ps[e.id] # "absent" /\ (e.addrs => ps[e.id] = "addrs")
PassedNoted ==
  /\ \A i \in DOMAIN out : Noted(out[i])
  /\ \A w \in Workers : InHand(w) => Noted(item[w])
  /\ \A e \in cut : Noted(e)

(* No entry is passed on twice: those in hand differ from each other and from
   the ones the caller has. *)
Distinct ==
  /\ \A i, j \in DOMAIN out : i # j => out[i] # out[j]
  /\ \A w \in Workers, i \in DOMAIN out : InHand(w) => item[w] # out[i]
  /\ \A v, w \in Workers : InHand(v) /\ InHand(w) /\ v # w => item[v] # item[w]

(* e brings what ps knows of provider p. *)
Brings(e, p) == e.id = p /\ (ps[p] = "addrs" => e.addrs)

(* What ps knows is with the caller, in the hand of a worker or given up. *)
Carried ==
  ~cancelled => \A p \in Provs : ps[p] # "absent" =>
    \/ \E i \in DOMAIN out : Brings(out[i], p)
    \/ \E w \in Workers : InHand(w) /\ Brings(item[w], p)
    \/ \E e \in cut : Brings(e, p)

(* Follow-ups are cancelled, and entries given up, only with enough providers. *)
CutEnough == lookup = "stopping" \/ cut # {} => Enough

(* An entry that was met is noted in ps, unless ps is full. *)
SeenNoted ==
  /\ ~findAll => psSize <= count
  /\ findAll => \A e \in seen : Noted(e)
  /\ ~findAll /\ psSize < count => \A e \in seen : ps[e.id] # "absent"

(* The local providers come before the lookup, and nobody works after it. *)
Phases ==
  /\ lookup = "local" => \A w \in Peers : pc[w] = "idle"
  /\ lookup # "local" => pc[Self] = "done"
  /\ lookup = "returned" => \A w \in Peers : pc[w] \in {"idle", "done"}

FindInv == FindTypeOK /\ PassedNoted /\ Distinct /\ Carried /\ CutEnough /\ SeenNoted /\ Phases

-----------------------------------------------------------------------------
Merging == merge \in {"select", "send", "returned"}

(* The merging goroutine has e, or the user. *)
Merged(e) == e.id \in found \/ (merge = "send" /\ pi.id = e.id)

(* The entry that is being sent is new and wanted. *)
SendNew == merge = "send" => pi.id \notin found /\ Wanted

(* Only the user and the merge that is over cancel the search. *)
CancelledBy == cancelled => userCancelled \/ merge = "returned"

WanEnded == wanCh = "nil" => lookup = "returned"

(* What the searches delivered was not lost on the way to the user. *)
AllMerged ==
  ~userCancelled /\ Merging =>
    (\A i \in DOMAIN out : Merged(out[i])) /\ (\A e \in lanSeen : Merged(e))

(* The user has what the LAN delivered, and all that the WAN search met or as
   many as were wanted but for those it gave up. *)
GotAll ==
  /\ \A e \in lanSeen : e.id \in found
  /\ \/ \A e \in seen : e.id \in found
     \/ cut # {} /\ Cardinality(found \cup {e.id : e \in cut}) >= count

(* The merge was over because the user had enough or both searches had ended. *)
ReturnedComplete ==
  ~userCancelled /\ merge = "returned" =>
    \/ Len(outCh) = count /\ ~findAll
    \/ lookup = "returned" /\ GotAll

MergeInv == SendNew /\ MergedOnce /\ CancelledBy /\ WanEnded /\ AllMerged /\ ReturnedComplete

BothInv ==
  /\ op # "none" /\ ~userCancelled =>
       \A d \in DHTs : side[d] = "failed" => ~has[d] \/ (d = "lan" /\ lanCancelled)
  /\ lanCancelled => side["wan"] = "found"

IInv == TypeOK /\ FindInv /\ MergeInv /\ BothInv

-----------------------------------------------------------------------------
(* Lemmas about entries, sequences and the size of ps *)

(* NoEntry is an entry, since there is a provider. *)
LEMMA SomeEntry == NoEntry \in Entry
<1>1. (CHOOSE p \in Provs : TRUE) \in Provs
  BY CountAssumption
<1> QED
  BY <1>1 DEF NoEntry, Entry

(* What appending an entry does. *)
LEMMA AppendFacts ==
  ASSUME NEW S, NEW q \in Seq(S), NEW e \in S, NEW t, t = Append(q, e)
  PROVE  /\ t \in Seq(S) /\ Len(q) \in Nat /\ Len(t) = Len(q) + 1
         /\ DOMAIN q = 1..Len(q) /\ DOMAIN t = 1..(Len(q) + 1)
         /\ \A i \in DOMAIN q : i \in DOMAIN t /\ t[i] = q[i] /\ i # Len(q) + 1
         /\ Len(q) + 1 \in DOMAIN t /\ t[Len(q) + 1] = e
         /\ \A i \in DOMAIN t : i \in DOMAIN q \/ i = Len(q) + 1
<1>1. t \in Seq(S) /\ Len(q) \in Nat /\ Len(t) = Len(q) + 1
  OBVIOUS
<1>2. DOMAIN q = 1..Len(q) /\ DOMAIN t = 1..(Len(q) + 1)
  BY <1>1
<1>3. \A i \in 1..Len(q) : t[i] = q[i]
  OBVIOUS
<1>4. t[Len(q) + 1] = e
  OBVIOUS
<1> QED
  BY <1>1, <1>2, <1>3, <1>4

(* The providers in ps are finitely many. *)
LEMMA SizeType ==
  ASSUME NEW f
  PROVE  LET A == {p \in Provs : f[p] # "absent"} IN
           IsFiniteSet(A) /\ Cardinality(A) \in Nat
<1>1. {p \in Provs : f[p] # "absent"} \in SUBSET Provs
  OBVIOUS
<1> QED
  BY <1>1, CountAssumption, FS_Subset, FS_CardinalityType

(* Accepting an entry adds one provider to ps, or none when only the addresses
   were missing. *)
LEMMA AcceptSize ==
  ASSUME FindTypeOK, NEW e \in Entry, psTryAdd(e), UNCHANGED count,
         ps' = [ps EXCEPT ![e.id] = IF e.addrs THEN "addrs" ELSE "bare"]
  PROVE  /\ psSize \in Nat /\ psSize' \in Nat /\ psSize <= psSize'
         /\ ~findAll => psSize' <= count
<1> DEFINE A == {p \in Provs : ps[p] # "absent"}
           B == {p \in Provs : ps'[p] # "absent"}
<1>1. e.id \in Provs /\ count \in Nat /\ ps \in [Provs -> {"absent", "bare", "addrs"}]
  BY CountAssumption DEF Entry, FindTypeOK
<1>2. B = A \cup {e.id}
  BY <1>1
<1>3. IsFiniteSet(A) /\ Cardinality(A) \in Nat
  BY SizeType
<1>4. CASE e.id \in A
  <2>1. B = A
    BY <1>2, <1>4
  <2> QED
    BY <1>1, <1>3, <2>1 DEF psTryAdd, psSize, findAll
<1>5. CASE e.id \notin A
  <2>1. Cardinality(B) = Cardinality(A) + 1
    BY <1>2, <1>3, <1>5, FS_AddElement
  <2> QED
    BY <1>1, <1>3, <2>1 DEF psTryAdd, psSize, findAll
<1> QED
  BY <1>4, <1>5

-----------------------------------------------------------------------------
(* The search in one DHT *)

(* What a step of the dual DHT does to the search in the WAN. *)
FindNext ==
  \/ \E w \in Workers : Step(w) \/ Emit(w)
  \/ StoreFails \/ LookupReturns \/ FollowUp
  \/ \E w \in Peers : Query(w) \/ FollowUpOver(w)
  \/ UNCHANGED <<count, ps, queryVars, lookup, out, seen, cut>> /\ cancelled' \in {cancelled, TRUE}

(* Every step of the dual DHT is one of them. *)
LEMMA NextIsFind == [Next]_vars => FindNext
<1> SUFFICES ASSUME [Next]_vars PROVE FindNext
  OBVIOUS
<1>1. ASSUME NEW w \in Workers, WanStep(w) \/ EmitDirect(w) \/ EmitToMerge(w) PROVE FindNext
  BY <1>1 DEF WanStep, EmitDirect, EmitToMerge, FindNext
<1>2. CASE WanLookup \/ WanOther
  BY <1>2 DEF WanLookup, WanOther, FindNext
<1>3. CASE UNCHANGED findVars
  BY <1>3 DEF findVars, FindNext
<1>4. WanFinished \/ LanDelivers \/ LanFinished \/ Deliver \/ LanCloses \/ CancelLan => UNCHANGED findVars
  BY DEF WanFinished, LanDelivers, LanFinished, Deliver, LanCloses, CancelLan
<1>5. ASSUME NEW d \in DHTs, Answer(d) PROVE UNCHANGED findVars
  BY <1>5 DEF Answer
<1>6. CASE MergeReturns \/ DeliverCancelled \/ UserCancels
  BY <1>6 DEF MergeReturns, DeliverCancelled, UserCancels, LeaveMerge, FindNext
<1>7. UNCHANGED vars => UNCHANGED findVars
  BY DEF vars
<1> QED
  BY <1>1, <1>2, <1>3, <1>4, <1>5, <1>6, <1>7 DEF Next, Merge

(* Taking the next entry of the local store or of a response. *)
LEMMA EntryStep ==
  ASSUME FindInv, NEW w \in Workers, NextEntry(w)
  PROVE  FindInv'
<1>t. /\ FindTypeOK /\ PassedNoted /\ Distinct /\ Carried /\ CutEnough /\ SeenNoted /\ Phases
      /\ pc \in [Workers -> {"idle", "next", "emit", "check", "done"}]
      /\ ps \in [Provs -> {"absent", "bare", "addrs"}] /\ item \in [Workers -> Entry]
      /\ left \in [Workers -> Nat] /\ out \in Seq(Entry) /\ seen \subseteq Entry /\ count \in Nat
      /\ cut \subseteq Entry
  BY CountAssumption DEF FindInv, FindTypeOK
<1>1. PICK e \in Entry :
        /\ seen' = seen \cup {e}
        /\ IF psTryAdd(e)
           THEN /\ ps' = [ps EXCEPT ![e.id] = IF e.addrs THEN "addrs" ELSE "bare"]
                /\ item' = [item EXCEPT ![w] = e]
                /\ Goto(w, "emit")
           ELSE /\ Goto(w, "check")
                /\ UNCHANGED <<ps, item>>
  BY DEF NextEntry
<1>2. /\ pc[w] = "next" /\ left' = [left EXCEPT ![w] = @ - 1] /\ left[w] > 0
      /\ UNCHANGED <<count, lookup, out, cancelled, cut>>
  BY DEF NextEntry
<1>3. e.id \in Provs /\ e.addrs \in BOOLEAN
  BY DEF Entry
<1>4. left' \in [Workers -> Nat]
  BY <1>t, <1>2
<1>o. \A i \in DOMAIN out : out[i] \in Entry
  BY <1>t
<1>i. \A x \in Entry : x.id \in Provs /\ x.addrs \in BOOLEAN
  BY DEF Entry
<1>5. Phases'
  BY <1>t, <1>1, <1>2, CountAssumption DEF Phases, Goto, Workers
<1>6. CASE psTryAdd(e)
  <2>1. /\ ps' = [ps EXCEPT ![e.id] = IF e.addrs THEN "addrs" ELSE "bare"]
        /\ item' = [item EXCEPT ![w] = e] /\ pc' = [pc EXCEPT ![w] = "emit"]
    BY <1>1, <1>6 DEF Goto
  <2>2. FindTypeOK'
    BY <1>t, <1>1, <1>2, <1>3, <1>4, <2>1 DEF FindTypeOK
  <2>3. ps[e.id] = "absent" \/ (ps[e.id] = "bare" /\ e.addrs)
    BY <1>6 DEF psTryAdd
  <2>4. ASSUME NEW x \in Entry, Noted(x) PROVE Noted(x)' /\ x # e
    BY <1>t, <1>3, <1>i, <2>1, <2>3, <2>4 DEF Noted
  <2>5. Noted(e)'
    BY <1>t, <1>3, <2>1 DEF Noted
  <2>6. PassedNoted'
    BY <1>t, <1>o, <1>2, <2>1, <2>4, <2>5 DEF PassedNoted, InHand
  <2>7. Distinct'
    BY <1>t, <1>o, <1>2, <2>1, <2>4 DEF Distinct, PassedNoted, InHand
  <2>8. Carried'
    <3> SUFFICES ASSUME ~cancelled, NEW p \in Provs, ps'[p] # "absent"
                 PROVE  \/ \E i \in DOMAIN out : Brings(out[i], p)'
                        \/ \E v \in Workers : InHand(v)' /\ Brings(item[v], p)'
                        \/ \E x \in cut : Brings(x, p)'
      BY <1>2 DEF Carried
    <3>1. CASE p = e.id
      BY <1>t, <1>3, <2>1, <3>1 DEF InHand, Brings
    <3>2. CASE p # e.id
      <4>1. ps'[p] = ps[p]
        BY <1>t, <2>1, <3>2
      <4>2. CASE \E i \in DOMAIN out : Brings(out[i], p)
        BY <1>2, <4>1, <4>2 DEF Brings
      <4>3. ASSUME NEW v \in Workers, InHand(v), Brings(item[v], p)
            PROVE  InHand(v)' /\ Brings(item[v], p)'
        BY <1>t, <1>2, <2>1, <4>1, <4>3 DEF Brings, InHand
      <4>4. ASSUME NEW x \in cut, Brings(x, p) PROVE Brings(x, p)'
        BY <4>1, <4>4 DEF Brings
      <4> QED
        BY <1>t, <4>1, <4>2, <4>3, <4>4 DEF Carried
    <3> QED
      BY <3>1, <3>2
  <2>9. SeenNoted'
    <3>1. psSize \in Nat /\ psSize' \in Nat /\ psSize <= psSize' /\ (~findAll => psSize' <= count)
      BY <1>t, <1>2, <1>6, <2>1, AcceptSize
    <3>2. \A x \in seen : x \in Entry /\ (ps[x.id] # "absent" => ps'[x.id] # "absent")
      BY <1>t, <1>i, <2>1
    <3>3. findAll => \A x \in seen' : Noted(x)'
      BY <1>t, <1>1, <2>4, <2>5 DEF SeenNoted
    <3>4. ps'[e.id] # "absent"
      BY <2>5 DEF Noted
    <3>5. ~findAll /\ psSize' < count => \A x \in seen' : ps'[x.id] # "absent"
      BY <1>t, <1>1, <3>1, <3>2, <3>4 DEF SeenNoted
    <3> QED
      BY <1>2, <3>1, <3>3, <3>5 DEF SeenNoted, findAll
  <2>10. CutEnough'
    <3>1. psSize \in Nat /\ psSize' \in Nat /\ psSize <= psSize'
      BY <1>t, <1>2, <1>6, <2>1, AcceptSize
    <3> QED
      BY <1>t, <1>2, <3>1 DEF CutEnough, Enough, findAll
  <2> QED
    BY <1>5, <2>2, <2>6, <2>7, <2>8, <2>9, <2>10 DEF FindInv
<1>7. CASE ~psTryAdd(e)
  <2>1. pc' = [pc EXCEPT ![w] = "check"] /\ UNCHANGED <<ps, item>>
    BY <1>1, <1>7 DEF Goto
  <2>2. FindTypeOK'
    BY <1>t, <1>1, <1>2, <1>4, <2>1 DEF FindTypeOK
  <2>3. PassedNoted' /\ Distinct'
    BY <1>t, <1>2, <2>1 DEF PassedNoted, Distinct, InHand, Noted
  <2>4. Carried'
    <3>1. \A v \in Workers : InHand(v) => InHand(v)' /\ item'[v] = item[v]
      BY <1>t, <1>2, <2>1 DEF InHand
    <3> QED
      BY <1>t, <1>2, <2>1, <3>1 DEF Carried, Brings
  <2>5. SeenNoted'
    <3>1. psSize \in Nat /\ psSize' = psSize /\ findAll' = findAll
      BY <1>2, <2>1, SizeType DEF psSize, findAll
    <3>2. psSize < count \/ findAll => Noted(e)
      BY <1>t, <1>3, <1>7 DEF psTryAdd, Noted
    <3>3. \A x : Noted(x)' <=> Noted(x)
      BY <2>1 DEF Noted
    <3> QED
      BY <1>t, <1>1, <1>2, <2>1, <3>1, <3>2, <3>3 DEF SeenNoted, Noted
  <2>6. CutEnough'
    BY <1>t, <1>2, <2>1 DEF CutEnough, Enough, findAll, psSize
  <2> QED
    BY <1>5, <2>2, <2>3, <2>4, <2>5, <2>6 DEF FindInv
<1> QED
  BY <1>6, <1>7

(* An entry passed on moves from the hand of a worker to the caller. *)
LEMMA EmitStep ==
  ASSUME FindInv, NEW w \in Workers, Emit(w)
  PROVE  FindInv'
<1>t. /\ FindTypeOK /\ PassedNoted /\ Distinct /\ Carried /\ CutEnough /\ SeenNoted /\ Phases
      /\ pc \in [Workers -> {"idle", "next", "emit", "check", "done"}]
      /\ item \in [Workers -> Entry] /\ out \in Seq(Entry)
  BY DEF FindInv, FindTypeOK
<1>1. /\ pc[w] = "emit" /\ out' = Append(out, item[w]) /\ pc' = [pc EXCEPT ![w] = "check"]
      /\ UNCHANGED <<count, ps, left, lookup, cancelled, seen, cut>>
      /\ item' = [item EXCEPT ![w] = NoEntry]
  BY DEF Emit, Goto
<1>2. item[w] \in Entry
  BY <1>t
<1> DEFINE n == Len(out) + 1
<1>3. /\ out' \in Seq(Entry)
      /\ \A i \in DOMAIN out : i \in DOMAIN out' /\ out'[i] = out[i] /\ i # n
      /\ n \in DOMAIN out' /\ out'[n] = item[w]
      /\ \A i \in DOMAIN out' : i \in DOMAIN out \/ i = n
  BY <1>t, <1>1, <1>2, AppendFacts
<1> HIDE DEF n
<1>4. FindTypeOK'
  BY <1>t, <1>1, <1>3, SomeEntry DEF FindTypeOK
<1>5. /\ \A v \in Workers : InHand(v)' <=> InHand(v) /\ v # w
      /\ \A v \in Workers : v # w => item'[v] = item[v]
  BY <1>t, <1>1 DEF InHand
<1>6. InHand(w)
  BY <1>1 DEF InHand
<1>7. PassedNoted'
  <2>1. \A x : Noted(x)' <=> Noted(x)
    BY <1>1 DEF Noted
  <2> QED
    BY <1>t, <1>1, <1>3, <1>5, <1>6, <2>1 DEF PassedNoted, Noted
<1>8. Distinct'
  <2>1. ASSUME NEW i \in DOMAIN out', NEW j \in DOMAIN out', i # j PROVE out'[i] # out'[j]
    BY <1>t, <1>3, <1>6, <2>1 DEF Distinct
  <2>2. ASSUME NEW v \in Workers, NEW i \in DOMAIN out', InHand(v)' PROVE item'[v] # out'[i]
    BY <1>t, <1>3, <1>5, <1>6, <2>2 DEF Distinct
  <2>3. ASSUME NEW u \in Workers, NEW v \in Workers, InHand(u)', InHand(v)', u # v
        PROVE  item'[u] # item'[v]
    BY <1>t, <1>5, <2>3 DEF Distinct
  <2> QED
    BY <1>1, <2>1, <2>2, <2>3 DEF Distinct
<1>9. Carried'
  <2> SUFFICES ASSUME ~cancelled, NEW p \in Provs, ps[p] # "absent"
               PROVE  \/ \E i \in DOMAIN out' : Brings(out'[i], p)
                      \/ \E v \in Workers : InHand(v)' /\ Brings(item'[v], p)
                      \/ \E e \in cut : Brings(e, p)
    BY <1>1 DEF Carried, Brings
  <2> QED
    BY <1>t, <1>3, <1>5 DEF Carried
<1>10. SeenNoted' /\ Phases' /\ CutEnough'
  <2>1. SeenNoted'
    BY <1>t, <1>1 DEF SeenNoted, Noted, psSize, findAll
  <2>2. Phases'
    BY <1>t, <1>1, CountAssumption DEF Phases, Workers
  <2>3. CutEnough'
    BY <1>t, <1>1 DEF CutEnough, Enough, findAll, psSize
  <2> QED
    BY <2>1, <2>2, <2>3
<1> QED
  BY <1>4, <1>7, <1>8, <1>9, <1>10 DEF FindInv

(* A step that takes no entry, passes none on and lets go of none. *)
LEMMA QuietStep ==
  ASSUME FindInv, UNCHANGED <<count, ps, left, item, out, seen, cut>>,
         pc' \in [Workers -> {"idle", "next", "emit", "check", "done"}],
         lookup' \in {"local", "running", "followup", "stopping", "returned"},
         lookup' = "stopping" => lookup = "stopping" \/ Enough,
         cancelled' \in {cancelled, TRUE},
         \A v \in Workers : InHand(v)' <=> InHand(v),
         Phases'
  PROVE  FindInv'
<1>t. FindTypeOK /\ PassedNoted /\ Distinct /\ Carried /\ CutEnough /\ SeenNoted
  BY DEF FindInv
<1>1. FindTypeOK'
  BY <1>t DEF FindTypeOK
<1>2. PassedNoted'
  BY <1>t DEF PassedNoted, Noted
<1>3. Distinct'
  BY <1>t DEF Distinct
<1>4. Carried'
  BY <1>t DEF Carried, Brings
<1>5. SeenNoted'
  BY <1>t DEF SeenNoted, Noted, psSize, findAll
<1>6. CutEnough'
  BY <1>t DEF CutEnough, Enough, findAll, psSize
<1> QED
  BY <1>1, <1>2, <1>3, <1>4, <1>5, <1>6 DEF FindInv

(* A worker lets go of what it has in hand: the caller has cancelled, or the
   follow-ups have enough and it is given up. *)
LEMMA CutStep ==
  ASSUME FindInv, NEW w \in Workers, EmitCancelled(w)
  PROVE  FindInv'
<1>t. /\ FindTypeOK /\ PassedNoted /\ Distinct /\ Carried /\ CutEnough /\ SeenNoted /\ Phases
      /\ pc \in [Workers -> {"idle", "next", "emit", "check", "done"}]
      /\ item \in [Workers -> Entry] /\ cut \subseteq Entry
      /\ lookup \in {"local", "running", "followup", "stopping", "returned"}
  BY DEF FindInv, FindTypeOK
<1>w. Workers = Peers \cup {Self} /\ Self \notin Peers
  BY CountAssumption DEF Workers
<1>1. /\ pc[w] = "emit" /\ (cancelled \/ lookup = "stopping") /\ pc' = [pc EXCEPT ![w] = "done"]
      /\ lookup' = IF w = Self THEN "returned" ELSE lookup
      /\ cut' = IF lookup = "stopping" THEN cut \cup {item[w]} ELSE cut
      /\ item' = [item EXCEPT ![w] = NoEntry]
      /\ UNCHANGED <<count, ps, left, out, cancelled, seen>>
  BY DEF EmitCancelled, Leave, Goto
<1>2. /\ \A v \in Workers : InHand(v)' <=> InHand(v) /\ v # w
      /\ \A v \in Workers : v # w => item'[v] = item[v]
      /\ InHand(w) /\ item[w] \in Entry
  BY <1>t, <1>1 DEF InHand
<1>3. FindTypeOK'
  BY <1>t, <1>1, <1>2, SomeEntry DEF FindTypeOK
<1>4. PassedNoted'
  <2>1. \A x : Noted(x)' <=> Noted(x)
    BY <1>1 DEF Noted
  <2> QED
    BY <1>t, <1>1, <1>2, <2>1 DEF PassedNoted, Noted
<1>5. Distinct'
  BY <1>t, <1>1, <1>2 DEF Distinct
<1>6. Carried'
  <2> SUFFICES ASSUME ~cancelled, NEW p \in Provs, ps[p] # "absent"
               PROVE  \/ \E i \in DOMAIN out : Brings(out[i], p)
                      \/ \E v \in Workers : InHand(v)' /\ Brings(item'[v], p)
                      \/ \E e \in cut' : Brings(e, p)
    BY <1>1 DEF Carried, Brings
  <2>1. cut' = cut \cup {item[w]}
    BY <1>1
  <2> QED
    BY <1>t, <1>2, <2>1 DEF Carried
<1>7. CutEnough'
  BY <1>t, <1>1 DEF CutEnough, Enough, findAll, psSize
<1>8. SeenNoted'
  BY <1>t, <1>1 DEF SeenNoted, Noted, psSize, findAll
<1>9. Phases'
  BY <1>t, <1>w, <1>1 DEF Phases
<1> QED
  BY <1>3, <1>4, <1>5, <1>6, <1>7, <1>8, <1>9 DEF FindInv

(* Every step of the search preserves the invariant. *)
LEMMA FindStep ==
  ASSUME FindInv, FindNext
  PROVE  FindInv'
<1>t. /\ Phases /\ cancelled \in BOOLEAN /\ lookup \in {"local", "running", "followup", "stopping", "returned"}
      /\ pc \in [Workers -> {"idle", "next", "emit", "check", "done"}]
  BY DEF FindInv, FindTypeOK
<1>w. Workers = Peers \cup {Self} /\ Self \notin Peers
  BY CountAssumption DEF Workers
<1>1. CASE FollowUp
  <2>1. PICK Q \in SUBSET Peers :
          pc' = [w \in Workers |-> IF w = Self THEN pc[w] ELSE IF w \in Q THEN "next" ELSE "idle"]
    BY <1>1 DEF FollowUp
  <2>2. /\ lookup = "running" /\ Active = {} /\ lookup' = "followup"
        /\ UNCHANGED <<count, ps, left, item, out, cancelled, seen, cut>>
    BY <1>1 DEF FollowUp
  <2>3. \A v \in Workers : ~InHand(v) /\ ~InHand(v)'
    BY <1>t, <1>w, <2>1, <2>2 DEF InHand, Active, Phases
  <2>4. Phases'
    BY <1>t, <1>w, <2>1, <2>2 DEF Phases
  <2> QED
    BY <1>t, <1>w, <2>1, <2>2, <2>3, <2>4, QuietStep
<1>2. ASSUME NEW w \in Workers, Check(w) PROVE FindInv'
  <2>1. /\ pc[w] = "check" /\ UNCHANGED <<count, ps, left, item, out, cancelled, seen, cut>>
        /\ \/ pc' = [pc EXCEPT ![w] = "done"] /\ lookup' = IF w = Self THEN "returned" ELSE lookup
           \/ pc' = [pc EXCEPT ![w] = "next"] /\ lookup' = lookup
    BY <1>2 DEF Check, Leave, Goto
  <2>2. Phases'
    BY <1>t, <1>w, <2>1 DEF Phases
  <2> QED
    BY <1>t, <2>1, <2>2, QuietStep DEF InHand
<1>3. ASSUME NEW w \in Workers, EndOfEntries(w) PROVE FindInv'
  <2>1. /\ pc[w] = "next" /\ UNCHANGED <<count, ps, left, item, out, cancelled, seen, cut>>
        /\ pc' = [pc EXCEPT ![w] = "done"]
        /\ lookup' = IF w = Self THEN "running" ELSE lookup
    BY <1>3 DEF EndOfEntries, Goto
  <2>2. Phases'
    BY <1>t, <1>w, <2>1 DEF Phases
  <2> QED
    BY <1>t, <2>1, <2>2, QuietStep DEF InHand
<1>4. CASE StoreFails
  <2>1. /\ pc[Self] = "next" /\ UNCHANGED <<count, ps, left, item, out, cancelled, seen, cut>>
        /\ pc' = [pc EXCEPT ![Self] = "done"] /\ lookup' = "returned"
    BY <1>4 DEF StoreFails, Leave, Goto
  <2>2. Phases'
    BY <1>t, <1>w, <2>1 DEF Phases
  <2> QED
    BY <1>t, <1>w, <2>1, <2>2, QuietStep DEF InHand
<1>5. ASSUME NEW w \in Peers, Query(w) PROVE FindInv'
  <2>1. /\ pc[w] = "idle" /\ lookup = "running"
        /\ UNCHANGED <<count, ps, left, item, lookup, out, cancelled, seen, cut>>
        /\ pc' = [pc EXCEPT ![w] = "next"]
    BY <1>5 DEF Query, Goto
  <2>2. Phases'
    BY <1>t, <1>w, <2>1 DEF Phases
  <2> QED
    BY <1>t, <1>w, <2>1, <2>2, QuietStep DEF InHand
<1>6. CASE LookupReturns
  <2>1. /\ lookup \in {"running", "followup", "stopping"} /\ Active = {} /\ lookup' = "returned"
        /\ UNCHANGED <<count, ps, pc, left, item, out, cancelled, seen, cut>>
    BY <1>6 DEF LookupReturns, queryVars
  <2>2. \A w \in Peers : pc[w] \in {"idle", "done"}
    BY <1>t, <1>w, <2>1 DEF Active
  <2>3. Phases'
    BY <1>t, <1>w, <2>1, <2>2 DEF Phases
  <2> QED
    BY <1>t, <2>1, <2>3, QuietStep DEF InHand
<1>7. CASE UNCHANGED <<count, ps, queryVars, lookup, out, seen, cut>> /\ cancelled' \in {cancelled, TRUE}
  <2>1. Phases'
    BY <1>t, <1>7 DEF Phases, queryVars
  <2> QED
    BY <1>t, <1>7, <2>1, QuietStep DEF InHand, queryVars
<1>8. ASSUME NEW w \in Peers, FollowUpOver(w) PROVE FindInv'
  <2>1. /\ lookup = "followup" /\ pc[w] = "done" /\ pc' = [pc EXCEPT ![w] = "idle"]
        /\ lookup' = IF Enough THEN "stopping" ELSE lookup
        /\ UNCHANGED <<count, ps, left, item, out, cancelled, seen, cut>>
    BY <1>8 DEF FollowUpOver, Goto
  <2>2. Phases'
    BY <1>t, <1>w, <2>1 DEF Phases
  <2> QED
    BY <1>t, <1>w, <2>1, <2>2, QuietStep DEF InHand
<1> QED
  BY <1>1, <1>2, <1>3, <1>4, <1>5, <1>6, <1>7, <1>8, EntryStep, EmitStep, CutStep DEF FindNext, Step

(* What the invariant says of the entries the caller has. *)
LEMMA SearchResult ==
  ASSUME FindInv
  PROVE  AtMostCount /\ RepeatsAddAddrs /\ SearchFinds
<1> DEFINE ids == {out[i].id : i \in DOMAIN out}
           lost == {e.id : e \in cut}
           A == {p \in Provs : ps[p] # "absent"}
<1>t. /\ PassedNoted /\ Distinct /\ Carried /\ CutEnough /\ SeenNoted /\ Phases
      /\ ps \in [Provs -> {"absent", "bare", "addrs"}]
      /\ out \in Seq(Entry) /\ seen \subseteq Entry /\ count \in Nat /\ cut \subseteq Entry
  BY CountAssumption DEF FindInv, FindTypeOK
<1>1. \A i \in DOMAIN out : out[i] \in Entry
  BY <1>t
<1>2. \A e \in Entry : e.id \in Provs /\ e.addrs \in BOOLEAN /\ e = [id |-> e.id, addrs |-> e.addrs]
  BY DEF Entry
<1>3. IsFiniteSet(A) /\ Cardinality(A) \in Nat /\ psSize = Cardinality(A)
  BY SizeType DEF psSize
<1>4. ids \subseteq A /\ lost \subseteq A
  BY <1>t, <1>1, <1>2 DEF PassedNoted, Noted
<1>5. Cardinality(ids) \in Nat /\ Cardinality(ids) <= Cardinality(A)
  BY <1>3, <1>4, FS_Subset, FS_CardinalityType
<1>6. AtMostCount
  <2>1. ~findAll => Cardinality(A) <= count
    BY <1>t, <1>3 DEF SeenNoted
  <2> QED
    BY <1>t, <1>3, <1>5, <2>1 DEF AtMostCount
<1>7. RepeatsAddAddrs
  <2> SUFFICES ASSUME NEW i \in DOMAIN out, NEW j \in DOMAIN out, i # j,
                      out[i].id = out[j].id, out[i].addrs = out[j].addrs
               PROVE  FALSE
    BY DEF RepeatsAddAddrs
  <2>1. out[i] = out[j]
    BY <1>1, <1>2
  <2> QED
    BY <1>t, <2>1 DEF Distinct
<1>8. lookup = "returned" /\ ~cancelled =>
        \A p \in Provs : ps[p] # "absent" =>
          (\E i \in DOMAIN out : Brings(out[i], p)) \/ (\E e \in cut : Brings(e, p))
  BY <1>t, CountAssumption DEF Carried, Phases, InHand, Workers
<1>9. FindsAll
  <2> SUFFICES ASSUME lookup = "returned", findAll, ~cancelled, NEW e \in seen
               PROVE  \E i \in DOMAIN out : out[i].id = e.id /\ (e.addrs => out[i].addrs)
    BY DEF FindsAll
  <2>1. Noted(e) /\ e.id \in Provs
    BY <1>t, <1>2 DEF SeenNoted
  <2>2. cut = {}
    BY <1>t DEF CutEnough, Enough
  <2> QED
    BY <1>8, <2>1, <2>2 DEF Noted, Brings
<1>10. FindsEnough
  <2> SUFFICES ASSUME lookup = "returned", ~findAll, ~cancelled
               PROVE  \/ Cardinality(ids \cup lost) = count
                      \/ cut = {} /\ \A e \in seen : e.id \in ids
    BY DEF FindsEnough
  <2>1. ids \cup lost = A
    BY <1>4, <1>8 DEF Brings
  <2>2. CASE psSize = count
    BY <1>3, <2>1, <2>2
  <2>3. CASE psSize # count
    <3>1. psSize < count
      BY <1>t, <1>3, <2>3 DEF SeenNoted
    <3>2. cut = {}
      BY <1>t, <1>3, <3>1 DEF CutEnough, Enough
    <3> QED
      BY <1>t, <1>2, <2>1, <3>1, <3>2 DEF SeenNoted
  <2> QED
    BY <2>2, <2>3
<1> QED
  BY <1>6, <1>7, <1>9, <1>10 DEF SearchFinds

(* When the search has returned none of its workers does anything any more. *)
LEMMA NothingAfterReturn ==
  ASSUME FindInv, lookup = "returned"
  PROVE  /\ \A w \in Workers : ~Step(w) /\ ~Emit(w)
         /\ ~StoreFails /\ ~LookupReturns /\ ~FollowUp
         /\ \A w \in Peers : ~Query(w) /\ ~FollowUpOver(w)
<1>1. \A w \in Workers : pc[w] \in {"idle", "done"}
  BY DEF FindInv, Phases, Workers
<1>2. ASSUME NEW w \in Workers PROVE ~Step(w) /\ ~Emit(w)
  BY <1>1 DEF Step, NextEntry, EmitCancelled, Check, EndOfEntries, Emit
<1>3. ~StoreFails
  BY <1>1 DEF StoreFails, Workers
<1> QED
  BY <1>2, <1>3 DEF LookupReturns, Query, FollowUp, FollowUpOver

-----------------------------------------------------------------------------
(* The merge *)

(* The user has finitely many providers. *)
LEMMA FoundFinite ==
  ASSUME outCh \in Seq(Entry)
  PROVE  found \subseteq Provs /\ IsFiniteSet(found) /\ Cardinality(found) \in Nat
<1>1. \A i \in DOMAIN outCh : outCh[i] \in Entry
  OBVIOUS
<1>2. found \subseteq Provs
  BY <1>1 DEF found, Entry
<1> QED
  BY <1>2, CountAssumption, FS_Subset, FS_CardinalityType

(* The types of the merge. *)
LEMMA TypeStep ==
  ASSUME TypeOK, FindTypeOK', [Next]_vars
  PROVE  TypeOK'
<1>t. /\ FindTypeOK /\ merge \in {"select", "send", "returned", "direct", "none"}
      /\ wanCh \in {"open", "nil"} /\ lanCh \in {"open", "closed", "nil"}
      /\ lanLeft \in 0..MaxLan /\ lanSeen \subseteq Entry
      /\ pi \in Entry /\ outCh \in Seq(Entry) /\ item \in [Workers -> Entry]
      /\ side \in [DHTs -> {"running", "found", "failed"}] /\ MaxLan \in Nat
  BY DualAssumption DEF TypeOK, FindTypeOK
<1>0. CASE UNCHANGED mergeVars /\ side' = side
  BY <1>t, <1>0 DEF TypeOK, mergeVars
<1>r. ASSUME NEW e \in Entry, Received(e)
      PROVE  merge' \in {"select", "send", "returned", "direct", "none"} /\ pi' \in Entry
  BY <1>t, <1>r DEF Received
<1>1. ASSUME NEW w \in Workers, EmitToMerge(w) PROVE TypeOK'
  <2>1. item[w] \in Entry
    BY <1>t
  <2>2. merge' \in {"select", "send", "returned", "direct", "none"} /\ pi' \in Entry
    BY <1>1, <1>r, <2>1 DEF EmitToMerge
  <2> QED
    BY <1>t, <1>1, <2>2 DEF EmitToMerge, TypeOK, bothVars
<1>2. CASE LanDelivers
  <2>1. PICK e \in Entry : Received(e) /\ lanSeen' = lanSeen \cup {e}
    BY <1>2 DEF LanDelivers
  <2>2. merge' \in {"select", "send", "returned", "direct", "none"} /\ pi' \in Entry
    BY <1>r, <2>1
  <2>3. lanLeft' \in 0..MaxLan
    BY <1>t, <1>2 DEF LanDelivers
  <2> QED
    BY <1>t, <1>2, <2>1, <2>2, <2>3 DEF LanDelivers, TypeOK, bothVars
<1>3. CASE WanFinished \/ LanCloses \/ LanFinished
  BY <1>t, <1>3 DEF WanFinished, LanCloses, LanFinished, TypeOK, bothVars
<1>4. CASE Deliver
  <2>1. outCh' \in Seq(Entry)
    BY <1>t, <1>4, AppendFacts DEF Deliver
  <2> QED
    BY <1>t, <1>4, <2>1, SomeEntry DEF Deliver, TypeOK, bothVars
<1>5. CASE DeliverCancelled \/ MergeReturns
  BY <1>t, <1>5, SomeEntry DEF DeliverCancelled, MergeReturns, LeaveMerge, TypeOK, bothVars
<1>6. ASSUME NEW d \in DHTs, Answer(d) PROVE TypeOK'
  BY <1>t, <1>6 DEF Answer, TypeOK, mergeVars
<1>7. CASE \/ \E w \in Workers : WanStep(w) \/ EmitDirect(w)
           \/ WanLookup \/ WanOther \/ CancelLan \/ UserCancels \/ UNCHANGED vars
  <2>1. UNCHANGED mergeVars /\ side' = side
    BY <1>7 DEF WanStep, EmitDirect, WanLookup, WanOther, CancelLan, UserCancels, vars, bothVars
  <2> QED
    BY <1>0, <2>1
<1> QED
  BY <1>1, <1>2, <1>3, <1>4, <1>5, <1>6, <1>7 DEF Next, Merge

(* The calls that ask both DHTs. *)
LEMMA BothStep ==
  ASSUME TypeOK, BothInv, [Next]_vars
  PROVE  BothInv'
<1>t. side \in [DHTs -> {"running", "found", "failed"}]
  BY DEF TypeOK
<1>1. CASE UNCHANGED bothVars /\ (userCancelled => userCancelled')
  BY <1>1 DEF BothInv, bothVars
<1>2. CASE CancelLan
  BY <1>t, <1>2 DEF CancelLan, BothInv
<1>3. ASSUME NEW d \in DHTs, Answer(d) PROVE BothInv'
  <2>1. UNCHANGED <<userCancelled, op, has, lanCancelled>> /\ side[d] = "running"
    BY <1>3 DEF Answer
  <2>2. lanCancelled => d = "lan"
    BY <2>1 DEF BothInv, DHTs
  <2>3. \/ side' = [side EXCEPT ![d] = "found"]
        \/ (~has[d] \/ userCancelled \/ (d = "lan" /\ lanCancelled)) /\ side' = [side EXCEPT ![d] = "failed"]
    BY <1>3 DEF Answer
  <2> QED
    BY <1>t, <2>1, <2>2, <2>3 DEF BothInv, DHTs
<1>4. CASE \/ \E w \in Workers : WanStep(w) \/ EmitDirect(w)
           \/ WanLookup \/ WanOther \/ Merge \/ DeliverCancelled \/ LanCloses \/ UserCancels \/ UNCHANGED vars
  <2>1. UNCHANGED bothVars /\ (userCancelled => userCancelled')
    BY <1>4 DEF WanStep, EmitDirect, WanLookup, WanOther, Merge, EmitToMerge, WanFinished, LanDelivers,
       LanFinished, Deliver, MergeReturns, DeliverCancelled, LanCloses, UserCancels, vars
  <2> QED
    BY <1>1, <2>1
<1> QED
  BY <1>2, <1>3, <1>4 DEF Next

(* A step that leaves the merge, its user and what was delivered alone. *)
LEMMA MergeRests ==
  ASSUME MergeInv,
         UNCHANGED <<count, merge, pi, outCh, lanSeen, userCancelled, cancelled, wanCh>>,
         out' = out \/ ~Merging, lookup = "returned" => UNCHANGED <<lookup, seen, cut>>
  PROVE  MergeInv'
<1>1. UNCHANGED <<found, Wanted, MergedOnce, Merging>> /\ \A e : Merged(e)' <=> Merged(e)
  BY DEF found, Wanted, MergedOnce, findAll, Merged, Merging
<1>2. SendNew' /\ MergedOnce' /\ CancelledBy' /\ WanEnded'
  BY <1>1 DEF MergeInv, SendNew, CancelledBy, WanEnded
<1>3. AllMerged'
  BY <1>1 DEF MergeInv, AllMerged, Merged
<1>4. ReturnedComplete'
  BY <1>1 DEF MergeInv, ReturnedComplete, findAll, GotAll
<1> QED
  BY <1>2, <1>3, <1>4 DEF MergeInv

(* The merge receives an entry from a search. *)
LEMMA ReceiveStep ==
  ASSUME MergeInv, merge = "select", Wanted, NEW e \in Entry, Received(e),
         UNCHANGED <<count, outCh, userCancelled, cancelled, wanCh, lookup>>,
         \A i \in DOMAIN out' : (i \in DOMAIN out /\ out'[i] = out[i]) \/ out'[i] = e,
         lanSeen' \subseteq lanSeen \cup {e}
  PROVE  MergeInv'
<1>1. UNCHANGED <<found, Wanted, MergedOnce>>
  BY DEF found, Wanted, MergedOnce, findAll
<1>2. \/ e.id \in found /\ merge' = "select"
      \/ e.id \notin found /\ merge' = "send" /\ pi' = e
  BY DEF Received
<1>3. SendNew' /\ MergedOnce' /\ CancelledBy' /\ WanEnded' /\ ReturnedComplete'
  BY <1>1, <1>2 DEF MergeInv, SendNew, CancelledBy, WanEnded, ReturnedComplete
<1>4. AllMerged'
  <2>1. Merged(e)'
    BY <1>1, <1>2 DEF Merged
  <2>2. ASSUME NEW x, Merged(x) PROVE Merged(x)'
    BY <1>1, <2>2 DEF Merged
  <2>3. ~userCancelled => (\A i \in DOMAIN out : Merged(out[i])) /\ (\A x \in lanSeen : Merged(x))
    BY DEF MergeInv, AllMerged, Merging
  <2>4. ASSUME ~userCancelled, NEW i \in DOMAIN out' PROVE Merged(out[i])'
    <3>1. CASE i \in DOMAIN out /\ out'[i] = out[i]
      <4>1. Merged(out[i])
        BY <2>3, <2>4, <3>1
      <4> QED
        BY <1>1, <1>2, <3>1, <4>1 DEF Merged
    <3>2. CASE out'[i] = e
      BY <1>1, <1>2, <3>2 DEF Merged
    <3> QED
      BY <3>1, <3>2
  <2>5. ASSUME ~userCancelled, NEW x \in lanSeen' PROVE Merged(x)'
    BY <1>1, <1>2, <2>3, <2>5 DEF Merged
  <2> QED
    BY <2>4, <2>5 DEF AllMerged
<1> QED
  BY <1>3, <1>4 DEF MergeInv

(* The user receives the entry in hand. *)
LEMMA DeliverStep ==
  ASSUME TypeOK, MergeInv, Deliver
  PROVE  MergeInv'
<1>t. outCh \in Seq(Entry) /\ pi \in Entry /\ count \in Nat
  BY CountAssumption DEF TypeOK, FindTypeOK
<1>1. /\ merge = "send" /\ outCh' = Append(outCh, pi) /\ merge' = "select"
      /\ UNCHANGED <<count, lookup, out, cancelled, seen, wanCh, lanSeen, userCancelled>>
  BY DEF Deliver, findVars
<1> DEFINE n == Len(outCh) + 1
<1>2. /\ outCh' \in Seq(Entry) /\ Len(outCh) \in Nat /\ Len(outCh') = n
      /\ \A i \in DOMAIN outCh : i \in DOMAIN outCh' /\ outCh'[i] = outCh[i]
      /\ n \in DOMAIN outCh' /\ outCh'[n] = pi
      /\ \A i \in DOMAIN outCh' : i \in DOMAIN outCh \/ i = n
  BY <1>t, <1>1, AppendFacts
<1>3. found' = found \cup {pi.id}
  BY <1>2 DEF found
<1>4. pi.id \notin found /\ Wanted
  BY <1>1 DEF MergeInv, SendNew
<1>5. MergedOnce'
  <2>1. IsFiniteSet(found) /\ Cardinality(found) \in Nat
    BY <1>t, FoundFinite
  <2>2. Cardinality(found') = Cardinality(found) + 1
    BY <1>3, <1>4, <2>1, FS_AddElement
  <2>3. Cardinality(found) = Len(outCh)
    BY DEF MergeInv, MergedOnce
  <2>4. findAll' \/ Len(outCh') <= count
    BY <1>t, <1>1, <1>2, <1>4 DEF Wanted, findAll
  <2> QED
    BY <1>1, <1>2, <2>1, <2>2, <2>3, <2>4 DEF MergedOnce
<1>6. SendNew' /\ CancelledBy' /\ WanEnded' /\ ReturnedComplete'
  BY <1>1 DEF MergeInv, SendNew, CancelledBy, WanEnded, ReturnedComplete
<1>7. AllMerged'
  <2>1. ASSUME NEW x, Merged(x) PROVE x.id \in found'
    BY <1>3, <2>1 DEF Merged
  <2>2. ~userCancelled => (\A i \in DOMAIN out : Merged(out[i])) /\ (\A x \in lanSeen : Merged(x))
    BY <1>1 DEF MergeInv, AllMerged, Merging
  <2>3. ~userCancelled => /\ \A i \in DOMAIN out : out[i].id \in found'
                          /\ \A x \in lanSeen : x.id \in found'
    BY <2>1, <2>2
  <2> QED
    BY <1>1, <2>3 DEF AllMerged, Merged
<1> QED
  BY <1>5, <1>6, <1>7 DEF MergeInv

(* The merge returns: with as many as were asked for, or with all that the
   two searches met. *)
LEMMA ReturnStep ==
  ASSUME TypeOK, FindInv, MergeInv, MergeReturns
  PROVE  MergeInv'
<1>t. outCh \in Seq(Entry) /\ count \in Nat /\ Len(outCh) \in Nat
  BY CountAssumption DEF TypeOK, FindTypeOK
<1>1. /\ merge = "select" /\ MergeOver /\ merge' = "returned" /\ cancelled'
      /\ UNCHANGED <<count, lookup, out, seen, cut, wanCh, lanSeen, outCh, userCancelled>>
  BY DEF MergeReturns, LeaveMerge
<1>2. UNCHANGED <<found, Wanted, MergedOnce, findAll>>
  BY <1>1 DEF found, Wanted, MergedOnce, findAll
<1>3. SendNew' /\ MergedOnce' /\ CancelledBy' /\ WanEnded'
  BY <1>1, <1>2 DEF MergeInv, SendNew, CancelledBy, WanEnded
<1>4. ~userCancelled => /\ \A i \in DOMAIN out : out[i].id \in found
                        /\ \A e \in lanSeen : e.id \in found
  BY <1>1 DEF MergeInv, AllMerged, Merging, Merged
<1>5. AllMerged'
  BY <1>1, <1>2, <1>4 DEF AllMerged, Merged
<1>6. ReturnedComplete'
  <2> SUFFICES ASSUME ~userCancelled
               PROVE  \/ Len(outCh) = count /\ ~findAll
                      \/ lookup = "returned" /\ GotAll
    BY <1>1, <1>2 DEF ReturnedComplete, GotAll
  <2>1. CASE ~Wanted
    BY <1>t, <2>1 DEF Wanted, MergeInv, MergedOnce
  <2>2. CASE Wanted
    <3>1. wanCh = "nil" /\ lookup = "returned" /\ ~cancelled
      BY <1>1, <2>2 DEF MergeOver, MergeInv, WanEnded, CancelledBy
    <3>2. FindsAll /\ FindsEnough
      BY SearchResult DEF SearchFinds
    <3>3. CASE findAll
      BY <1>4, <3>1, <3>2, <3>3 DEF FindsAll, GotAll
    <3>4. CASE ~findAll
      <4> DEFINE ids == {out[i].id : i \in DOMAIN out}
                 lost == {e.id : e \in cut}
      <4>1. \/ Cardinality(ids \cup lost) = count
            \/ cut = {} /\ \A e \in seen : e.id \in ids
        BY <3>1, <3>2, <3>4 DEF FindsEnough
      <4>2. ids \subseteq found
        BY <1>4
      <4>3. CASE cut = {} /\ \A e \in seen : e.id \in ids
        BY <1>4, <3>1, <4>2, <4>3 DEF GotAll
      <4>4. CASE Cardinality(ids \cup lost) = count
        <5>1. lost \subseteq Provs
          BY DEF TypeOK, FindTypeOK, Entry
        <5>2. IsFiniteSet(found \cup lost) /\ ids \cup lost \subseteq found \cup lost
          BY <1>t, <4>2, <5>1, FoundFinite, CountAssumption, FS_Subset, FS_Union
        <5>3. Cardinality(found \cup lost) >= count /\ Cardinality(found \cup lost) \in Nat
          BY <1>t, <4>4, <5>2, FS_Subset, FS_CardinalityType
        <5>4. cut # {}
          <6> SUFFICES ASSUME cut = {} PROVE FALSE
            OBVIOUS
          <6>1. found \cup lost = found
            OBVIOUS
          <6>2. Cardinality(found) = Len(outCh) /\ Len(outCh) < count
            BY <2>2, <3>4 DEF Wanted, MergeInv, MergedOnce
          <6>3. Cardinality(found) >= count
            BY <5>3, <6>1
          <6> QED
            BY <1>t, <6>2, <6>3
        <5> QED
          BY <1>4, <3>1, <5>3, <5>4 DEF GotAll
      <4> QED
        BY <4>1, <4>3, <4>4
    <3> QED
      BY <3>3, <3>4
  <2> QED
    BY <2>1, <2>2
<1> QED
  BY <1>3, <1>5, <1>6 DEF MergeInv

(* Every step preserves the invariant of the merge. *)
LEMMA MergeStep ==
  ASSUME TypeOK, FindInv, MergeInv, [Next]_vars
  PROVE  MergeInv'
<1>t. item \in [Workers -> Entry] /\ out \in Seq(Entry)
  BY DEF TypeOK, FindTypeOK
<1>1. ASSUME NEW w \in Workers, WanStep(w) PROVE MergeInv'
  <2>1. Step(w) /\ UNCHANGED <<mergeVars, userCancelled>>
    BY <1>1 DEF WanStep
  <2>2. UNCHANGED <<count, out, cancelled>>
    BY <2>1 DEF Step, NextEntry, EmitCancelled, Check, EndOfEntries
  <2>3. lookup # "returned"
    BY <2>1, NothingAfterReturn
  <2> QED
    BY <2>1, <2>2, <2>3, MergeRests DEF mergeVars
<1>2. ASSUME NEW w \in Workers, EmitDirect(w) PROVE MergeInv'
  <2>1. Emit(w) /\ UNCHANGED <<mergeVars, userCancelled>> /\ ~Merging
    BY <1>2 DEF EmitDirect, Merging
  <2>2. UNCHANGED <<count, cancelled, lookup, seen, cut>>
    BY <2>1 DEF Emit
  <2> QED
    BY <2>1, <2>2, MergeRests DEF mergeVars
<1>3. CASE WanLookup \/ WanOther
  <2>1. /\ LookupReturns \/ StoreFails \/ FollowUp \/ \E w \in Peers : Query(w) \/ FollowUpOver(w)
        /\ UNCHANGED <<mergeVars, userCancelled>>
    BY <1>3 DEF WanLookup, WanOther
  <2>2. UNCHANGED <<count, out, cancelled>>
    BY <2>1 DEF LookupReturns, StoreFails, FollowUp, Query, FollowUpOver
  <2>3. lookup # "returned"
    BY <2>1, NothingAfterReturn
  <2> QED
    BY <2>1, <2>2, <2>3, MergeRests DEF mergeVars
<1>4. ASSUME NEW w \in Workers, EmitToMerge(w) PROVE MergeInv'
  <2>1. /\ merge = "select" /\ Wanted /\ Received(item[w]) /\ out' = Append(out, item[w])
        /\ UNCHANGED <<count, lookup, cancelled, wanCh, lanSeen, outCh, userCancelled>>
    BY <1>4 DEF EmitToMerge, Emit
  <2>2. item[w] \in Entry
    BY <1>t
  <2>3. /\ \A i \in DOMAIN out : out'[i] = out[i]
        /\ out'[Len(out) + 1] = item[w]
        /\ \A i \in DOMAIN out' : i \in DOMAIN out \/ i = Len(out) + 1
    BY <1>t, <2>1, <2>2, AppendFacts
  <2>4. \A i \in DOMAIN out' : (i \in DOMAIN out /\ out'[i] = out[i]) \/ out'[i] = item[w]
    BY <2>3
  <2> QED
    BY <2>1, <2>2, <2>4, ReceiveStep
<1>5. CASE LanDelivers
  <2>1. PICK e \in Entry : Received(e) /\ lanSeen' = lanSeen \cup {e}
    BY <1>5 DEF LanDelivers
  <2>2. merge = "select" /\ Wanted /\ UNCHANGED <<findVars, wanCh, outCh, userCancelled>>
    BY <1>5 DEF LanDelivers
  <2> QED
    BY <2>1, <2>2, ReceiveStep DEF findVars
<1>6. CASE WanFinished
  <2>1. UNCHANGED <<findVars, merge, lanSeen, pi, outCh, userCancelled>> /\ lookup = "returned"
    BY <1>6 DEF WanFinished
  <2>2. UNCHANGED <<found, findAll, Wanted, MergedOnce, Merging>> /\ \A e : Merged(e)' <=> Merged(e)
    BY <2>1 DEF found, Wanted, MergedOnce, findAll, Merged, findVars, Merging
  <2>3. SendNew' /\ MergedOnce' /\ CancelledBy' /\ WanEnded'
    BY <2>1, <2>2 DEF MergeInv, SendNew, CancelledBy, WanEnded, findVars
  <2>4. AllMerged'
    BY <2>1, <2>2 DEF MergeInv, AllMerged, findVars, Merged
  <2>5. ReturnedComplete'
    BY <2>1, <2>2 DEF MergeInv, ReturnedComplete, findVars, GotAll
  <2> QED
    BY <2>3, <2>4, <2>5 DEF MergeInv
<1>7. CASE LanCloses \/ LanFinished \/ CancelLan \/ (\E d \in DHTs : Answer(d)) \/ UNCHANGED vars
  <2>1. UNCHANGED <<findVars, merge, pi, outCh, lanSeen, userCancelled, wanCh>>
    BY <1>7 DEF LanCloses, LanFinished, CancelLan, Answer, vars, mergeVars
  <2> QED
    BY <2>1, MergeRests DEF findVars
<1>8. CASE DeliverCancelled \/ UserCancels
  <2>1. /\ userCancelled' /\ UNCHANGED <<count, lookup, wanCh, outCh>>
        /\ (UNCHANGED <<merge, pi>> \/ merge' = "returned")
    BY <1>8 DEF DeliverCancelled, UserCancels, LeaveMerge, mergeVars
  <2>2. UNCHANGED <<found, Wanted, MergedOnce>>
    BY <2>1 DEF found, Wanted, MergedOnce, findAll
  <2> QED
    BY <2>1, <2>2 DEF MergeInv, SendNew, CancelledBy, WanEnded, AllMerged, ReturnedComplete
<1> QED
  BY <1>1, <1>2, <1>3, <1>4, <1>5, <1>6, <1>7, <1>8, DeliverStep, ReturnStep DEF Next, Merge

-----------------------------------------------------------------------------
(* The theorems *)

(* The inductive invariant holds initially. *)
LEMMA InitHolds == Init => IInv
<1> SUFFICES ASSUME Init PROVE IInv
  OBVIOUS
<1>1. /\ count \in Counts /\ ps = [p \in Provs |-> "absent"]
      /\ pc = [w \in Workers |-> IF w = Self THEN "next" ELSE "idle"] /\ left = MaxEntries
      /\ item = [w \in Workers |-> NoEntry] /\ lookup = "local" /\ out = << >>
      /\ cancelled = FALSE /\ seen = {} /\ cut = {}
  BY DEF Init, InitFind
<1>2. /\ wanCh = "open" /\ lanCh = "open" /\ lanLeft = MaxLan /\ lanSeen = {}
      /\ pi = NoEntry /\ outCh = << >> /\ ~userCancelled /\ ~lanCancelled
      /\ merge \in {"select", "direct", "none"}
  BY DEF Init
<1>3. side \in [DHTs -> {"running", "found", "failed"}] /\ (op = "none" \/ \A d \in DHTs : side[d] = "running")
  BY DEF Init
<1>4. FindTypeOK
  <2>1. left \in [Workers -> Nat] /\ item \in [Workers -> Entry] /\ out \in Seq(Entry)
    BY <1>1, SomeEntry, CountAssumption DEF Workers
  <2>2. /\ ps \in [Provs -> {"absent", "bare", "addrs"}]
        /\ pc \in [Workers -> {"idle", "next", "emit", "check", "done"}]
    BY <1>1
  <2> QED
    BY <1>1, <2>1, <2>2 DEF FindTypeOK
<1>5. TypeOK
  BY <1>2, <1>3, <1>4, SomeEntry, DualAssumption DEF TypeOK
<1>6. DOMAIN out = {} /\ DOMAIN outCh = {} /\ Len(outCh) = 0
  BY <1>1, <1>2
<1>7. \A w \in Workers : ~InHand(w)
  BY <1>1 DEF InHand
<1>8. FindInv
  <2>1. {p \in Provs : ps[p] # "absent"} = {}
    BY <1>1
  <2>2. psSize = 0 /\ count \in Nat
    BY <1>1, <2>1, FS_EmptySet, CountAssumption DEF psSize
  <2>3. SeenNoted
    BY <1>1, <2>2 DEF SeenNoted
  <2>4. PassedNoted /\ Distinct
    BY <1>1, <1>6, <1>7 DEF PassedNoted, Distinct
  <2>5. Carried /\ CutEnough
    BY <1>1 DEF Carried, CutEnough
  <2>6. Phases
    BY <1>1, CountAssumption DEF Phases, Workers
  <2> QED
    BY <1>4, <2>3, <2>4, <2>5, <2>6 DEF FindInv
<1>9. MergeInv
  <2>1. found = {}
    BY <1>6 DEF found
  <2>2. MergedOnce
    BY <1>1, <1>6, <2>1, FS_EmptySet, CountAssumption DEF MergedOnce, findAll
  <2> QED
    BY <1>1, <1>2, <1>6, <2>2 DEF MergeInv, SendNew, CancelledBy, WanEnded, AllMerged, ReturnedComplete
<1>10. BothInv
  BY <1>2, <1>3 DEF BothInv
<1> QED
  BY <1>5, <1>8, <1>9, <1>10 DEF IInv

(* The inductive invariant is an invariant. *)
THEOREM DualInvariance == Spec => []IInv
<1>1. IInv /\ [Next]_vars => IInv'
  <2> SUFFICES ASSUME IInv, [Next]_vars PROVE IInv'
    OBVIOUS
  <2>1. FindInv'
    BY NextIsFind, FindStep DEF IInv
  <2>2. TypeOK'
    BY <2>1, TypeStep DEF IInv, FindInv
  <2>3. MergeInv' /\ BothInv'
    BY MergeStep, BothStep DEF IInv
  <2> QED
    BY <2>1, <2>2, <2>3 DEF IInv
<1> QED
  BY <1>1, InitHolds, PTL DEF Spec

(* Concurrent query functions pass on at most count providers, each again only
   to add its addresses, and the user of both DHTs gets a provider once. *)
THEOREM EntriesOnce == Spec => []Inv
<1>1. IInv => Inv
  BY SearchResult DEF IInv, MergeInv, Inv
<1> QED
  BY <1>1, DualInvariance, PTL

(* findProvidersAsyncRoutine that is not cancelled passes on every provider it
   met, or as many as were asked for; it gives up only what follow-ups had in
   hand when there were enough. *)
THEOREM SearchComplete == Spec => []SearchFinds
<1>1. IInv => SearchFinds
  BY SearchResult DEF IInv
<1> QED
  BY <1>1, DualInvariance, PTL

(* The merge of FindProvidersAsync drops no provider that a search passes on, and
   FindPeer and GetValue fail only if neither DHT could have answered. *)
THEOREM DualComplete == Spec => []DualFinds
<1>1. IInv => DualFinds
  <2> SUFFICES ASSUME IInv, ~userCancelled
               PROVE  /\ merge = "returned" =>
                           \/ Len(outCh) = count /\ ~findAll
                           \/ GotAll
                      /\ op # "none" /\ BothAnswered /\ (\E d \in DHTs : has[d]) => CallSucceeds
    BY DEF DualFinds, GotAll
  <2>1. merge = "returned" =>
          \/ Len(outCh) = count /\ ~findAll
          \/ GotAll
    BY DEF IInv, MergeInv, ReturnedComplete
  <2>2. ASSUME op # "none", BothAnswered, NEW d \in DHTs, has[d] PROVE CallSucceeds
    <3>1. side \in [DHTs -> {"running", "found", "failed"}] /\ BothInv
      BY DEF IInv, TypeOK
    <3>2. CASE side[d] = "found"
      BY <3>2 DEF CallSucceeds
    <3>3. CASE side[d] = "failed"
      BY <2>2, <3>1, <3>3 DEF BothInv, CallSucceeds, DHTs
    <3> QED
      BY <2>2, <3>1, <3>2, <3>3 DEF BothAnswered
  <2> QED
    BY <2>1, <2>2
<1> QED
  BY <1>1, DualInvariance, PTL
=============================================================================
