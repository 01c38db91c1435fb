---------------------------- MODULE BridgeProofs ----------------------------
(***************************************************************************)
(* Bridge for every set of transactions and every finite set of source     *)
(* goroutines.                                                             *)
(***************************************************************************)
EXTENDS Bridge, FiniteSetTheorems, TLAPS

\* The first state satisfies the inductive invariant.
LEMMA InitInv == Init => InductiveInv
  BY DEF Init, InductiveInv, TypeOK, CallerInv, MarkInv, NoSequentialDuplicate,
         MarkedIsForwarded

\* Every step preserves all of the invariant but the counting part.
LEMMA ControlStep ==
    InductiveInv /\ [Next]_vars
      => (TypeOK /\ CallerInv /\ NoSequentialDuplicate /\ MarkedIsForwarded)'
<1> SUFFICES ASSUME InductiveInv, [Next]_vars
             PROVE  (TypeOK /\ CallerInv /\ NoSequentialDuplicate
                       /\ MarkedIsForwarded)'
  OBVIOUS
<1> USE DEF InductiveInv, TypeOK, CallerInv, NoSequentialDuplicate,
            MarkedIsForwarded, Goto
<1>1. ASSUME NEW c \in Callers, NEW txs \in SUBSET Txs, Broadcast(c, txs)
      PROVE  (TypeOK /\ CallerInv /\ NoSequentialDuplicate /\ MarkedIsForwarded)'
  BY <1>1 DEF Broadcast
<1>2. ASSUME NEW c \in Callers, NEW t \in Txs, SkipSent(c, t)
      PROVE  (TypeOK /\ CallerInv /\ NoSequentialDuplicate /\ MarkedIsForwarded)'
  BY <1>2 DEF SkipSent
<1>3. ASSUME NEW c \in Callers, NEW t \in Txs, MissSent(c, t)
      PROVE  (TypeOK /\ CallerInv /\ NoSequentialDuplicate /\ MarkedIsForwarded)'
  BY <1>3 DEF MissSent
<1>4. ASSUME NEW c \in Callers, NEW t \in Txs, MarkSent(c, t)
      PROVE  (TypeOK /\ CallerInv /\ NoSequentialDuplicate /\ MarkedIsForwarded)'
  BY <1>4 DEF MarkSent, StartAfresh
<1>5. ASSUME NEW c \in Callers, AllDuplicates(c)
      PROVE  (TypeOK /\ CallerInv /\ NoSequentialDuplicate /\ MarkedIsForwarded)'
  BY <1>5 DEF AllDuplicates
<1>6. ASSUME NEW c \in Callers, Forward(c)
      PROVE  (TypeOK /\ CallerInv /\ NoSequentialDuplicate /\ MarkedIsForwarded)'
  BY <1>6 DEF Forward
<1>7. ASSUME NEW c \in Callers, NEW D \in SUBSET filtered[c], SendReturn(c, D)
      PROVE  (TypeOK /\ CallerInv /\ NoSequentialDuplicate /\ MarkedIsForwarded)'
  BY <1>7 DEF SendReturn
<1>8. ASSUME NEW t \in Txs, Expire(t)
      PROVE  (TypeOK /\ CallerInv /\ NoSequentialDuplicate /\ MarkedIsForwarded)'
  BY <1>8 DEF Expire
<1>9. CASE UNCHANGED vars
  BY <1>9 DEF vars
<1> QED BY <1>1, <1>2, <1>3, <1>4, <1>5, <1>6, <1>7, <1>8, <1>9 DEF Next

\* Callers are finitely many, and so are those about to mark a transaction.
LEMMA AboutToMarkFinite ==
    \A t : /\ IsFiniteSet(AboutToMark(t))
           /\ Cardinality(AboutToMark(t)) \in Nat
           /\ Cardinality(Callers) \in Nat
           /\ Cardinality(AboutToMark(t)) <= Cardinality(Callers)
<1> TAKE t
<1>1. AboutToMark(t) \in SUBSET Callers
  BY DEF AboutToMark
<1> QED BY <1>1, CallersAssumption, FS_Subset, FS_CardinalityType

\* Every step preserves the count: a mark uses up one caller that missed, and a
\* caller cannot miss what is marked.
LEMMA MarkStep == InductiveInv /\ [Next]_vars => MarkInv'
<1> SUFFICES ASSUME InductiveInv, [Next]_vars, NEW u \in Txs
             PROVE  IF u \in sent'
                    THEN marks'[u] + Cardinality(AboutToMark(u)')
                           <= Cardinality(Callers)
                    ELSE marks'[u] = 0
  BY DEF MarkInv
<1>0. /\ marks \in [Txs -> Nat] /\ missed \in [Callers -> SUBSET Txs]
      /\ IF u \in sent
         THEN marks[u] + Cardinality(AboutToMark(u)) <= Cardinality(Callers)
         ELSE marks[u] = 0
  BY DEF InductiveInv, TypeOK, MarkInv
<1>1. ASSUME NEW c \in Callers, NEW t \in Txs, MarkSent(c, t)
      PROVE  IF u \in sent'
             THEN marks'[u] + Cardinality(AboutToMark(u)')
                    <= Cardinality(Callers)
             ELSE marks'[u] = 0
  <2>1. missed[c] = {t}
    BY <1>1 DEF MarkSent, InductiveInv, CallerInv
  <2>2. CASE u = t
    <3>1. /\ AboutToMark(u)' = AboutToMark(u) \ {c}
          /\ c \in AboutToMark(u)
      BY <1>0, <1>1, <2>1, <2>2 DEF MarkSent, AboutToMark
    <3>2. Cardinality(AboutToMark(u)') = Cardinality(AboutToMark(u)) - 1
      BY <3>1, AboutToMarkFinite, FS_RemoveElement
    <3>3. marks'[u] = marks[u] + 1 /\ marks[u] \in Nat
      BY <1>0, <1>1, <2>2 DEF MarkSent
    <3>4. marks[u] + Cardinality(AboutToMark(u)) <= Cardinality(Callers)
      BY <1>0, <3>3, AboutToMarkFinite
    <3> QED BY <1>1, <2>2, <3>2, <3>3, <3>4, AboutToMarkFinite DEF MarkSent
  <2>3. CASE u # t
    <3>1. AboutToMark(u)' = AboutToMark(u)
      BY <1>0, <1>1, <2>1, <2>3 DEF MarkSent, AboutToMark
    <3> QED BY <1>0, <1>1, <2>3, <3>1 DEF MarkSent
  <2> QED BY <2>2, <2>3
<1>2. ASSUME NEW c \in Callers, NEW t \in Txs, MissSent(c, t)
      PROVE  IF u \in sent'
             THEN marks'[u] + Cardinality(AboutToMark(u)')
                    <= Cardinality(Callers)
             ELSE marks'[u] = 0
  <2>1. missed[c] = {}
    BY <1>2 DEF MissSent, InductiveInv, CallerInv
  <2>2. u # t => AboutToMark(u)' = AboutToMark(u)
    BY <1>0, <1>2, <2>1 DEF MissSent, AboutToMark
  <2> QED BY <1>0, <1>2, <2>2 DEF MissSent
<1>3. ASSUME NEW t \in Txs, Expire(t)
      PROVE  IF u \in sent'
             THEN marks'[u] + Cardinality(AboutToMark(u)')
                    <= Cardinality(Callers)
             ELSE marks'[u] = 0
  <2>1. AboutToMark(u)' = AboutToMark(u)
    BY <1>3 DEF Expire, AboutToMark
  <2> QED BY <1>0, <1>3, <2>1 DEF Expire
<1>4. CASE UNCHANGED <<sent, missed, marks>>
  <2>1. AboutToMark(u)' = AboutToMark(u)
    BY <1>4 DEF AboutToMark
  <2> QED BY <1>0, <1>4, <2>1
<1>5. Next => \/ UNCHANGED <<sent, missed, marks>>
              \/ \E c \in Callers, t \in Txs : MarkSent(c, t) \/ MissSent(c, t)
              \/ \E t \in Txs : Expire(t)
  BY DEF Next, Broadcast, SkipSent, AllDuplicates, Forward, SendReturn
<1> QED BY <1>1, <1>2, <1>3, <1>4, <1>5 DEF vars

\* The inductive invariant holds of every state.
THEOREM InvariantHolds == Spec => []InductiveInv
<1>1. InductiveInv /\ [Next]_vars => InductiveInv'
  BY ControlStep, MarkStep DEF InductiveInv
<1> QED BY <1>1, InitInv, PTL DEF Spec

-----------------------------------------------------------------------------
\* Type correctness of broadcast's state.
THEOREM TypeCorrect == Spec => []TypeOK
<1>1. InductiveInv => TypeOK
  BY DEF InductiveInv
<1> QED BY <1>1, InvariantHolds, PTL

\* The sent cache stops every duplicate that does not come from an overlap.
THEOREM SequentialCallsDoNotDuplicate == Spec => []NoSequentialDuplicate
<1>1. InductiveInv => NoSequentialDuplicate
  BY DEF InductiveInv
<1> QED BY <1>1, InvariantHolds, PTL

\* However calls overlap, a transaction is marked and forwarded at most once per
\* source goroutine before its entry expires.
THEOREM OverlapDuplicatesBounded == Spec => []DuplicatesBounded
<1>1. InductiveInv => DuplicatesBounded
  <2> SUFFICES ASSUME InductiveInv, NEW t \in Txs
               PROVE  marks[t] <= Cardinality(Callers)
    BY DEF DuplicatesBounded
  <2>1. marks[t] \in Nat
    BY DEF InductiveInv, TypeOK
  <2>2. IF t \in sent
        THEN marks[t] + Cardinality(AboutToMark(t)) <= Cardinality(Callers)
        ELSE marks[t] = 0
    BY DEF InductiveInv, MarkInv
  <2> QED BY <2>1, <2>2, AboutToMarkFinite
<1> QED BY <1>1, InvariantHolds, PTL

\* No transaction is marked and then forgotten before the target coordinator.
THEOREM EveryMarkIsForwarded == Spec => []MarkedIsForwarded
<1>1. InductiveInv => MarkedIsForwarded
  BY DEF InductiveInv
<1> QED BY <1>1, InvariantHolds, PTL
=============================================================================
