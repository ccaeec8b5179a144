--------------------------- MODULE ValueSearchProofs ---------------------------
(***************************************************************************)
(* A value search that is neither stopped nor cancelled delivers the best  *)
(* value its lookup found, for any peers, values, quorums and concurrency. *)
(***************************************************************************)
EXTENDS ValueSearch, SequenceTheorems, TLAPS

(* m waits in valCh. *)
Waiting(m) == valCh # << >> /\ m = Head(valCh)

(* A query function that is about to send has a value. *)
SendersHaveValue == \A p \in Peers : queryFn[p] = "send" => val[p] \in Values

(* A lookup that has returned has no query function left to send. *)
ReturnedIsQuiet == lookup = "returned" => Active = {}

(* What was sent and does not wait any more has been compared with the best,
   and who sent the best value is noted. *)
Compared ==
  \A m \in sent :
    /\ m.val <= best \/ Waiting(m)
    /\ m.val = best => m.from \in peersWithBest \/ Waiting(m)

(* The emitted values stay below the best, which is the last of them once the
   caller has taken it. *)
Emitted ==
  /\ \A i \in DOMAIN emitted : emitted[i] <= best
  /\ pc = "emit" => best # 0 /\ \A i \in DOMAIN emitted : emitted[i] < best
  /\ pc # "emit" /\ best # 0 /\ ~cancelled =>
       emitted # << >> /\ emitted[Len(emitted)] = best

(* A search that comes to its end by itself has emptied the closed channel. *)
EndedDrained ==
  ~cancelled /\ (pc = "update" \/ (pc = "returned" /\ ~stopCh) \/ updated # {}) =>
    lookup = "returned" /\ valCh = << >>

UpdatedLack ==
  /\ updated \cap peersWithBest = {}
  /\ updated # {} => pc = "returned"

IInv ==
  /\ Inv /\ SendersHaveValue /\ ReturnedIsQuiet /\ Compared /\ Emitted
  /\ EndedDrained /\ UpdatedLack

(* The channel holds one message at most: taking one out empties it. *)
LEMMA OneSlot ==
  ASSUME NEW ch \in Seq(Msg), Len(ch) <= 1, ch # << >>
  PROVE  Head(ch) \in Msg /\ Tail(ch) = << >>
<1>1. Len(ch) = 1
  BY EmptySeq
<1>2. Head(ch) \in Msg /\ Tail(ch) \in Seq(Msg) /\ Len(Tail(ch)) = 0
  BY <1>1, HeadTailProperties
<1> QED
  BY <1>2, EmptySeq

(* Putting a message into the empty channel makes it the one that waits. *)
LEMMA FillSlot ==
  ASSUME NEW ch \in Seq(Msg), Len(ch) < 1, NEW m \in Msg
  PROVE  /\ ch = << >>
         /\ Append(ch, m) \in Seq(Msg) /\ Len(Append(ch, m)) = 1
         /\ Append(ch, m) # << >> /\ Head(Append(ch, m)) = m
<1>1. Len(ch) = 0
  OBVIOUS
<1>2. ch = << >>
  BY <1>1
<1> QED
  BY <1>2

(* Init establishes the invariant. *)
LEMMA InvInit == Init => IInv
<1> SUFFICES ASSUME Init PROVE IInv
  OBVIOUS
<1>0. /\ Self \notin Peers /\ Values \subseteq Nat \ {0}
      /\ emitted = << >> /\ << >> \in Seq(Values) /\ << >> \in Seq(Msg)
  BY SearchAssumption, EmptySeq DEF Init
<1>1. ASSUME valCh \in Seq(Msg), Len(valCh) <= 1, sent \in SUBSET Msg, Compared
      PROVE  IInv
  <2>1. TypeOK
    BY <1>0, <1>1 DEF Init, TypeOK
  <2> QED
    BY <1>0, <1>1, <2>1 DEF Init, IInv, Inv, EmittedImproves, SendersHaveValue,
       ReturnedIsQuiet, Active, Emitted, EndedDrained, UpdatedLack
<1>2. CASE valCh = << >> /\ sent = {}
  BY <1>0, <1>1, <1>2, EmptySeq DEF Compared
<1>3. ASSUME NEW v \in Values, valCh = <<[from |-> Self, val |-> v]>>,
             sent = {[from |-> Self, val |-> v]}
      PROVE  IInv
  <2> DEFINE m == [from |-> Self, val |-> v]
  <2>1. m \in Msg
    BY DEF Msg
  <2> HIDE DEF m
  <2>2. valCh = <<m>> /\ sent = {m}
    BY <1>3 DEF m
  <2>3. valCh \in Seq(Msg) /\ Len(valCh) = 1 /\ Head(valCh) = m /\ valCh # << >>
    BY <2>1, <2>2
  <2> QED
    BY <1>1, <2>1, <2>2, <2>3 DEF Compared, Waiting
<1> QED
  BY <1>2, <1>3 DEF Init

(* A step keeps the types. *)
LEMMA TypeStep == TypeOK /\ SendersHaveValue /\ Emitted /\ [Next]_vars => TypeOK'
<1> SUFFICES ASSUME TypeOK, SendersHaveValue, Emitted, [Next]_vars PROVE TypeOK'
  OBVIOUS
<1>0. Values \subseteq Nat \ {0}
  BY SearchAssumption
<1>h. valCh # << >> => Head(valCh) \in Msg /\ Tail(valCh) = << >>
  BY OneSlot DEF TypeOK
<1>e. << >> \in Seq(Msg) /\ Len(<< >>) = 0
  BY EmptySeq
<1> USE <1>0 DEF TypeOK, lookupVars, procVars, Quorum
<1>1. ASSUME NEW p \in Peers, Spawn(p) PROVE TypeOK'
  BY <1>1 DEF Spawn
<1>2. ASSUME NEW p \in Peers, FollowUpOver(p) PROVE TypeOK'
  BY <1>2 DEF FollowUpOver
<1>3. CASE FollowUp
  BY <1>3 DEF FollowUp
<1>4. CASE LookupReturns
  BY <1>4 DEF LookupReturns
<1>5. ASSUME NEW p \in Peers, Response(p) PROVE TypeOK'
  BY <1>5 DEF Response
<1>6. ASSUME NEW p \in Peers, SendValue(p) PROVE TypeOK'
  <2> DEFINE m == [from |-> p, val |-> val[p]]
  <2>1. m \in Msg
    BY <1>6 DEF SendValue, SendersHaveValue, Msg
  <2> HIDE DEF m
  <2>2. valCh' = Append(valCh, m) /\ sent' = sent \cup {m} /\ Len(valCh) < 1
    BY <1>6 DEF SendValue, m
  <2>3. valCh' \in Seq(Msg) /\ Len(valCh') <= 1 /\ sent' \in SUBSET Msg
    BY <2>1, <2>2, FillSlot
  <2> QED
    BY <1>6, <2>3 DEF SendValue
<1>7. ASSUME NEW p \in Peers, SendAborted(p) PROVE TypeOK'
  BY <1>7 DEF SendAborted
<1>8. CASE ProcessOther
  <2>1. valCh' = << >> /\ Head(valCh).from \in Peers \cup {Self}
    BY <1>8, <1>h DEF ProcessOther, Msg
  <2>2. peersWithBest' \in SUBSET (Peers \cup {Self})
    BY <1>8, <2>1 DEF ProcessOther
  <2>3. pc' \in {"process", "returned"} /\ stopCh' \in BOOLEAN
    BY <1>8 DEF ProcessOther
  <2> QED
    BY <1>8, <1>e, <2>1, <2>2, <2>3 DEF ProcessOther
<1>9. CASE ProcessBetter
  BY <1>9, <1>h, <1>e DEF ProcessBetter, Msg
<1>10. CASE SelectFails
  BY <1>10, <1>h, <1>e DEF SelectFails
<1>11. CASE Emit
  <2>1. emitted' \in Seq(Values)
    <3>1. best \in Values /\ emitted \in Seq(Values) /\ emitted' = Append(emitted, best)
      BY <1>11 DEF Emit, Emitted
    <3> QED
      BY <3>1
  <2>2. pc' \in {"process", "returned"} /\ stopCh' \in BOOLEAN
    BY <1>11 DEF Emit
  <2> QED
    BY <1>11, <2>1, <2>2 DEF Emit
<1>12. CASE EmitCancelled
  BY <1>12 DEF EmitCancelled
<1>13. CASE Drained
  BY <1>13 DEF Drained
<1>14. CASE ProcessCancelled
  BY <1>14 DEF ProcessCancelled
<1>15. CASE Update
  BY <1>15 DEF Update
<1>16. CASE UpdateCancelled
  BY <1>16 DEF UpdateCancelled
<1>17. CASE Cancel
  BY <1>17 DEF Cancel
<1>18. CASE UNCHANGED vars
  BY <1>18 DEF vars
<1> QED
  BY <1>1, <1>2, <1>3, <1>4, <1>5, <1>6, <1>7, <1>8, <1>9, <1>10, <1>11, <1>12, <1>13, <1>14, <1>15, <1>16, <1>17, <1>18 DEF Next, Query, Process

(* A step keeps what is known of the values that were sent. *)
LEMMA ComparedStep == IInv /\ [Next]_vars => Compared'
<1> SUFFICES ASSUME IInv, [Next]_vars PROVE Compared'
  OBVIOUS
<1>0. Values \subseteq Nat \ {0}
  BY SearchAssumption
<1>t. TypeOK /\ SendersHaveValue /\ Compared
  BY DEF IInv, Inv
<1>b. best \in Nat /\ \A m \in sent : m.val \in Nat
  <2>1. best \in Values \cup {0} /\ sent \in SUBSET Msg
    BY <1>t DEF TypeOK
  <2>2. best \in Nat
    BY <1>0, <2>1
  <2>3. ASSUME NEW m \in sent PROVE m.val \in Nat
    <3>1. m \in Msg
      BY <2>1
    <3>2. m.val \in Values
      BY <3>1 DEF Msg
    <3> QED
      BY <1>0, <3>2
  <2> QED
    BY <2>2, <2>3
<1>h. valCh # << >> => Head(valCh) \in Msg /\ Head(valCh).val \in Nat /\ Tail(valCh) = << >>
  BY <1>0, <1>t, OneSlot DEF TypeOK, Msg
<1>1. ASSUME NEW p \in Peers, SendValue(p) PROVE Compared'
  <2> DEFINE m == [from |-> p, val |-> val[p]]
  <2>1. m \in Msg
    BY <1>1, <1>t DEF SendValue, SendersHaveValue, Msg
  <2> HIDE DEF m
  <2>2. valCh' = Append(valCh, m) /\ sent' = sent \cup {m} /\ Len(valCh) < 1
    BY <1>1 DEF SendValue, m
  <2>3. valCh = << >> /\ valCh' # << >> /\ Head(valCh') = m
    BY <1>t, <2>1, <2>2, FillSlot DEF TypeOK
  <2>4. UNCHANGED <<best, peersWithBest>>
    BY <1>1 DEF SendValue, procVars
  <2> QED
    BY <1>t, <2>2, <2>3, <2>4 DEF Compared, Waiting
<1>2. CASE ProcessOther
  <2>1. UNCHANGED <<best, sent>> /\ valCh # << >> /\ best # 0 /\ ~(Head(valCh).val > best)
    BY <1>2 DEF ProcessOther, SelectsNew
  <2>2. Head(valCh).val <= best
    BY <1>b, <1>h, <2>1
  <2> QED
    BY <1>2, <1>t, <2>1, <2>2 DEF ProcessOther, Compared, Waiting
<1>3. CASE ProcessBetter
  <2>1. /\ valCh # << >> /\ UNCHANGED sent
        /\ best' = Head(valCh).val /\ peersWithBest' = {Head(valCh).from}
        /\ best = 0 \/ Head(valCh).val > best
    BY <1>3 DEF ProcessBetter, SelectsNew
  <2>2. \A m \in sent : m = Head(valCh) \/ (m.val <= best /\ m.val # 0)
    BY <1>0, <1>t DEF Compared, Waiting, TypeOK, Msg
  <2>3. \A m \in sent : m = Head(valCh) \/ m.val < best'
    BY <1>b, <1>h, <2>1, <2>2
  <2> QED
    BY <1>b, <1>h, <2>1, <2>3 DEF Compared
<1>4. CASE SelectFails
  BY <1>4, <1>t DEF SelectFails, procVars, Compared, Waiting
<1>5. CASE UNCHANGED <<valCh, sent, best, peersWithBest>>
  BY <1>5, <1>t DEF Compared, Waiting
<1>6. ASSUME NEW p \in Peers, Spawn(p) \/ FollowUpOver(p) \/ Response(p) \/ SendAborted(p)
      PROVE UNCHANGED <<valCh, sent, best, peersWithBest>>
  BY <1>6 DEF Spawn, FollowUpOver, Response, SendAborted, procVars
<1>7. ASSUME FollowUp \/ LookupReturns \/ Emit \/ EmitCancelled \/ Drained \/ ProcessCancelled
             \/ Update \/ UpdateCancelled \/ Cancel
      PROVE UNCHANGED <<valCh, sent, best, peersWithBest>>
  BY <1>7 DEF FollowUp, LookupReturns, Emit, EmitCancelled, Drained, ProcessCancelled,
              Update, UpdateCancelled, Cancel, procVars
<1> QED
  BY <1>1, <1>2, <1>3, <1>4, <1>5, <1>6, <1>7 DEF Next, Query, Process, vars, procVars

(* A step keeps the order of the emitted values. *)
LEMMA EmittedStep == IInv /\ [Next]_vars => EmittedImproves' /\ Emitted'
<1> DEFINE G == EmittedImproves' /\ Emitted'
<1> SUFFICES ASSUME IInv, [Next]_vars PROVE G
  OBVIOUS
<1>0. Values \subseteq Nat \ {0}
  BY SearchAssumption
<1>t. TypeOK /\ EmittedImproves /\ Emitted
  BY DEF IInv, Inv
<1>s. emitted \in Seq(Values) /\ best \in Values \cup {0}
  BY <1>t DEF TypeOK
<1>b. best \in Nat /\ \A i \in DOMAIN emitted : emitted[i] \in Nat
  <2>1. best \in Nat
    BY <1>0, <1>s
  <2>2. ASSUME NEW i \in DOMAIN emitted PROVE emitted[i] \in Nat
    <3>1. emitted[i] \in Values
      BY <1>s, <2>2
    <3> QED
      BY <1>0, <3>1
  <2> QED
    BY <2>1, <2>2
<1> HIDE DEF G
<1>1. CASE ProcessOther
  BY <1>1, <1>t DEF ProcessOther, SelectsNew, Quorum, G, EmittedImproves, Emitted
<1>2. CASE ProcessBetter
  <2>1. valCh # << >> /\ Head(valCh) \in Msg
    BY <1>2, <1>t, OneSlot DEF ProcessBetter, TypeOK
  <2>2. best' \in Nat \ {0} /\ (best = 0 \/ best' > best) /\ pc' = "emit" /\ UNCHANGED emitted
    BY <1>0, <1>2, <2>1 DEF ProcessBetter, SelectsNew, Msg
  <2>3. \A i \in DOMAIN emitted : emitted[i] < best'
    BY <1>b, <1>t, <2>2 DEF Emitted
  <2> QED
    BY <1>b, <1>t, <2>2, <2>3 DEF G, EmittedImproves, Emitted
<1>3. CASE Emit
  <2>1. emitted' = Append(emitted, best) /\ UNCHANGED best /\ pc' # "emit"
    BY <1>3 DEF Emit, Quorum, procVars
  <2>2. \A i \in DOMAIN emitted : emitted[i] < best
    BY <1>3, <1>t DEF Emit, Emitted
  <2>3. /\ Len(emitted) \in Nat /\ Len(emitted') = Len(emitted) + 1 /\ emitted' # << >>
        /\ DOMAIN emitted = 1..Len(emitted) /\ DOMAIN emitted' = 1..Len(emitted) + 1
        /\ emitted'[Len(emitted')] = best
        /\ \A i \in 1..Len(emitted) : emitted'[i] = emitted[i]
    BY <1>s, <2>1
  <2>4. EmittedImproves'
    BY <1>b, <1>t, <2>2, <2>3 DEF EmittedImproves
  <2>5. \A i \in DOMAIN emitted' : emitted'[i] <= best
    BY <1>b, <2>2, <2>3
  <2> QED
    BY <2>1, <2>3, <2>4, <2>5 DEF G, Emitted
<1>4. CASE EmitCancelled
  BY <1>4, <1>t DEF EmitCancelled, procVars, G, EmittedImproves, Emitted
<1>5. CASE Cancel
  BY <1>5, <1>t DEF Cancel, procVars, G, EmittedImproves, Emitted
<1>6. ASSUME UNCHANGED <<emitted, best, cancelled>>, pc = "emit" <=> pc' = "emit" PROVE G
  BY <1>6, <1>t DEF G, EmittedImproves, Emitted
<1>7. ASSUME NEW p \in Peers,
             Spawn(p) \/ FollowUpOver(p) \/ Response(p) \/ SendValue(p) \/ SendAborted(p)
      PROVE G
  BY <1>6, <1>7 DEF Spawn, FollowUpOver, Response, SendValue, SendAborted, procVars
<1>8. ASSUME FollowUp \/ LookupReturns \/ SelectFails PROVE G
  BY <1>6, <1>8 DEF FollowUp, LookupReturns, SelectFails, procVars
<1>9. ASSUME Drained \/ ProcessCancelled \/ Update \/ UpdateCancelled PROVE G
  BY <1>6, <1>9 DEF Drained, ProcessCancelled, Update, UpdateCancelled, procVars
<1>10. CASE UNCHANGED vars
  BY <1>6, <1>10 DEF vars, procVars
<1> QED
  BY <1>1, <1>2, <1>3, <1>4, <1>5, <1>7, <1>8, <1>9, <1>10 DEF Next, Query, Process

(* A step keeps what is known of the query functions and of the end of the
   search. *)
LEMMA EndStep ==
  IInv /\ [Next]_vars => SendersHaveValue' /\ ReturnedIsQuiet' /\ EndedDrained' /\ UpdatedLack'
<1> DEFINE G == SendersHaveValue' /\ ReturnedIsQuiet' /\ EndedDrained' /\ UpdatedLack'
<1> SUFFICES ASSUME IInv, [Next]_vars PROVE G
  OBVIOUS
<1>t. /\ queryFn \in [Peers -> {"idle", "rpc", "send", "done"}] /\ val \in [Peers -> Values \cup {0}]
      /\ SendersHaveValue /\ ReturnedIsQuiet /\ EndedDrained /\ UpdatedLack
  BY DEF IInv, Inv, TypeOK
<1> HIDE DEF G
<1> USE <1>t DEF G, SendersHaveValue, ReturnedIsQuiet, EndedDrained, UpdatedLack, Active,
                 lookupVars, procVars, Quorum
<1>1. ASSUME NEW p \in Peers, Spawn(p) PROVE G
  BY <1>1 DEF Spawn
<1>2. ASSUME NEW p \in Peers, FollowUpOver(p) PROVE G
  BY <1>2 DEF FollowUpOver
<1>3. CASE FollowUp
  BY <1>3 DEF FollowUp
<1>4. CASE LookupReturns
  BY <1>4 DEF LookupReturns
<1>5. ASSUME NEW p \in Peers, Response(p) PROVE G
  BY <1>5 DEF Response
<1>6. ASSUME NEW p \in Peers, SendValue(p) PROVE G
  BY <1>6 DEF SendValue
<1>7. ASSUME NEW p \in Peers, SendAborted(p) PROVE G
  BY <1>7 DEF SendAborted
<1>8. CASE ProcessOther
  BY <1>8 DEF ProcessOther
<1>9. CASE ProcessBetter
  BY <1>9 DEF ProcessBetter
<1>10. CASE SelectFails
  BY <1>10 DEF SelectFails
<1>11. CASE Emit
  BY <1>11 DEF Emit
<1>12. CASE EmitCancelled
  BY <1>12 DEF EmitCancelled
<1>13. CASE Drained
  BY <1>13 DEF Drained
<1>14. CASE ProcessCancelled
  BY <1>14 DEF ProcessCancelled
<1>15. CASE Update
  BY <1>15 DEF Update
<1>16. CASE UpdateCancelled
  BY <1>16 DEF UpdateCancelled
<1>17. CASE Cancel
  BY <1>17 DEF Cancel
<1>18. CASE UNCHANGED vars
  BY <1>18 DEF vars
<1> QED
  BY <1>1, <1>2, <1>3, <1>4, <1>5, <1>6, <1>7, <1>8, <1>9, <1>10, <1>11, <1>12, <1>13, <1>14, <1>15, <1>16, <1>17, <1>18 DEF Next, Query, Process

(* The strengthened invariant holds of every search. *)
THEOREM SearchInvariance == Spec => []IInv
<1>1. IInv /\ [Next]_vars => IInv'
  <2> SUFFICES ASSUME IInv, [Next]_vars PROVE IInv'
    OBVIOUS
  <2>1. TypeOK'
    BY TypeStep DEF IInv, Inv
  <2>2. Compared'
    BY ComparedStep
  <2>3. EmittedImproves' /\ Emitted'
    BY EmittedStep
  <2>4. SendersHaveValue' /\ ReturnedIsQuiet' /\ EndedDrained' /\ UpdatedLack'
    BY EndStep
  <2> QED
    BY <2>1, <2>2, <2>3, <2>4 DEF IInv, Inv
<1> QED
  BY <1>1, InvInit, PTL DEF Spec

(* SearchValue passes better and better values to its caller, whatever the
   number of peers and the order in which their values arrive. *)
THEOREM ValuesImprove == Spec => []Inv
<1>1. IInv => Inv
  BY DEF IInv
<1> QED
  BY <1>1, SearchInvariance, PTL

(* A search that runs to its end has passed on the best value that any query
   function sent: none is lost between the send and the close of valCh. *)
THEOREM FindsBest == Spec => []SearchFindsBest
<1>1. IInv => SearchFindsBest
  <2> SUFFICES ASSUME IInv, pc = "returned", ~stopCh, ~cancelled
               PROVE  /\ \A m \in sent : m.val <= best
                      /\ best # 0 => emitted # << >> /\ emitted[Len(emitted)] = best
    BY DEF SearchFindsBest
  <2>1. valCh = << >>
    BY DEF IInv, EndedDrained
  <2> QED
    BY <2>1 DEF IInv, Compared, Waiting, Emitted
<1> QED
  BY <1>1, SearchInvariance, PTL

(* updatePeerValues leaves out the peers the best value came from. *)
THEOREM HoldersSpared == Spec => []HoldersNotUpdated
<1>1. IInv => HoldersNotUpdated
  <2> SUFFICES ASSUME IInv, ~cancelled, NEW p \in updated, [from |-> p, val |-> best] \in sent
               PROVE  FALSE
    BY DEF HoldersNotUpdated
  <2>1. valCh = << >>
    BY DEF IInv, EndedDrained
  <2>2. p \in peersWithBest
    BY <2>1 DEF IInv, Compared, Waiting
  <2> QED
    BY <2>2 DEF IInv, UpdatedLack
<1> QED
  BY <1>1, SearchInvariance, PTL
=============================================================================
