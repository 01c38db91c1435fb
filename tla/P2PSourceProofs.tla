--------------------------- MODULE P2PSourceProofs ---------------------------
(***************************************************************************)
(* P2PSource for every set of records, goroutines and transactions, every  *)
(* filter and every queue and batch size.                                  *)
(***************************************************************************)
EXTENDS P2PSource, SequenceTheorems, TLAPS

\* A goroutine holds a transaction it missed exactly between the look-up and the
\* entry; outside of a call it has nothing, and before an answer nothing was known
\* when its loop began.
WorkInv ==
    \A g \in Goroutines :
        /\ missed[g] # {} <=> pc[g] = "set"
        /\ pc[g] = "idle" => picked[g] = {}
        /\ pc[g] \notin {"process", "set"} => fresh[g] = {}

\* What was known when a loop began and has not expired is known still; what a
\* loop missed was not known then.
FreshInv ==
    \A g \in Goroutines : fresh[g] \subseteq known /\ missed[g] \cap fresh[g] = {}

InductiveInv == TypeOK /\ WorkInv /\ FreshInv
                  /\ NoSequentialHandOver /\ KnownIsPassedOn

-----------------------------------------------------------------------------
\* The first state satisfies the inductive invariant.
LEMMA InitInv == Init => InductiveInv
<1>1. <<>> \in Seq(Txs)
  OBVIOUS
<1> QED
  BY <1>1 DEF Init, InductiveInv, TypeOK, Kinds, WorkInv, FreshInv,
              NoSequentialHandOver, KnownIsPassedOn

\* The batch an export takes is of transactions, and what stays queued follows in
\* order.
LEMMA BatchAndRest ==
    ASSUME NEW s \in Seq(Txs), NEW n \in Nat, n <= Len(s)
    PROVE  /\ {s[i] : i \in 1 .. n} \in SUBSET Txs
           /\ SubSeq(s, n + 1, Len(s)) \in Seq(Txs)
<1>1. \A i \in 1 .. n : s[i] \in Txs
  BY LenProperties, ElementOfSeq
<1>2. SubSeq(s, n + 1, Len(s)) \in Seq(Txs)
  BY LenProperties, SubSeqProperties
<1> QED BY <1>1, <1>2

\* A step of the goroutine of a record or of its client.
LEMMA ConnStep ==
    ASSUME InductiveInv, NEW r \in Records, ConnNext(r)
    PROVE  InductiveInv'
<1> <<>> \in Seq(Txs)
  OBVIOUS
<1> USE DEF InductiveInv, TypeOK, WorkInv, FreshInv, Kinds, Of, Step,
            NoSequentialHandOver, KnownIsPassedOn,
            workVars, hashVars
<1>1. CASE NewPeerFails(r)
  BY <1>1 DEF NewPeerFails
<1>2. CASE NewPeer(r)
  BY <1>2 DEF NewPeer
<1>3. CASE LinkUp(r)
  BY <1>3 DEF LinkUp
<1>4. CASE OnDisconnect(r)
  BY <1>4 DEF OnDisconnect
<1>5. CASE StartFails(r)
  BY <1>5 DEF StartFails
<1>6. CASE StartReturns(r)
  BY <1>6 DEF StartReturns
<1>7. CASE ReceiveDisconnect(r)
  BY <1>7 DEF ReceiveDisconnect
<1>8. CASE StopNormal(r)
  BY <1>8 DEF StopNormal
<1>9. CASE StopBlob(r)
  BY <1>9 DEF StopBlob
<1>10. CASE StopClient(r)
  BY <1>10 DEF StopClient
<1>11. CASE Retry(r)
  BY <1>11 DEF Retry
<1> QED BY <1>1, <1>2, <1>3, <1>4, <1>5, <1>6, <1>7, <1>8, <1>9, <1>10, <1>11
        DEF ConnNext

\* A step of a callback, of an export, or an expiry.
LEMMA WorkStep ==
    ASSUME InductiveInv,
           \/ \E r \in Records, t \in Txs : Announce(r, t) \/ WriteNext(r, t)
           \/ \E g \in Goroutines :
                 ExportNext(g) \/ WorkNext(g) \/ \E txs \in SUBSET Txs : Push(g, txs)
           \/ \E t \in Txs : Expire(t)
    PROVE  InductiveInv'
<1> <<>> \in Seq(Txs)
  OBVIOUS
<1> USE DEF InductiveInv, TypeOK, WorkInv, FreshInv, Kinds, Goto,
            Finish, NoSequentialHandOver, KnownIsPassedOn,
            connVars, hashVars
<1>1. ASSUME NEW r \in Records, NEW t \in Txs, Announce(r, t)
      PROVE  InductiveInv'
  BY <1>1 DEF Announce, workVars
<1>1a. ASSUME NEW r \in Records, NEW t \in Txs, WriteHash(r, t)
       PROVE  InductiveInv'
  <2>1. /\ Kind(t) \in Kinds
        /\ Append(queue[r][Kind(t)], t) \in Seq(Txs)
    BY DEF Kind
  <2>2. queue' = [queue EXCEPT ![r][Kind(t)] = Append(queue[r][Kind(t)], t)]
    BY <1>1a DEF WriteHash
  <2> QED BY <1>1a, <2>1, <2>2 DEF WriteHash, workVars
<1>1b. ASSUME NEW r \in Records, NEW t \in Txs, WriteDropped(r, t)
       PROVE  InductiveInv'
  BY <1>1b DEF WriteDropped, workVars
<1>2. ASSUME NEW g \in Goroutines, NEW k \in Kinds, NEW n \in 1 .. BatchLimit(k),
             Export(g, k, n)
      PROVE  InductiveInv'
  <2>1. Owner[g] \in Records /\ n \in Nat /\ n # 0
    BY P2PAssumption DEF BatchLimit
  <2>2. /\ {queue[Owner[g]][k][i] : i \in 1 .. n} \in SUBSET Txs
        /\ SubSeq(queue[Owner[g]][k], n + 1, Len(queue[Owner[g]][k])) \in Seq(Txs)
        /\ queue[Owner[g]][k] # <<>>
    BY <1>2, <2>1, BatchAndRest DEF Export
  <2> QED BY <1>2, <2>1, <2>2 DEF Export
<1>3. ASSUME NEW g \in Goroutines, NEW t \in Txs, CheckHash(g, t)
      PROVE  InductiveInv'
  BY <1>3 DEF CheckHash
<1>3a. ASSUME NEW g \in Goroutines, CancelContext(g)
       PROVE  InductiveInv'
  BY <1>3a DEF CancelContext, workVars
<1>4. ASSUME NEW g \in Goroutines, NEW R \in SUBSET picked[g], Answer(g, R)
      PROVE  InductiveInv'
  <2>1. /\ R \in SUBSET Txs /\ picked'[g] = {}
        /\ pc[g] \notin {"process", "set", "idle"}
        /\ UNCHANGED <<life, link, lingering, queue, announced, missed, known, passed>>
    BY <1>4 DEF Answer
  <2>2. CASE R = {}
    <3>1. /\ pc' = [pc EXCEPT ![g] = "idle"] /\ todo' = [todo EXCEPT ![g] = {}]
          /\ picked' = [picked EXCEPT ![g] = {}] /\ fresh' = [fresh EXCEPT ![g] = {}]
          /\ live' = live \ {g}
      BY <1>4, <2>2 DEF Answer
    <3> QED BY <2>1, <3>1
  <2>3. CASE R # {}
    <3>1. /\ pc' = [pc EXCEPT ![g] = "process"] /\ todo' = [todo EXCEPT ![g] = R]
          /\ picked' = [picked EXCEPT ![g] = {}] /\ fresh' = [fresh EXCEPT ![g] = known]
          /\ live' = live \ {g}
      BY <1>4, <2>3 DEF Answer
    <3> QED BY <2>1, <3>1
  <2> QED BY <2>2, <2>3
<1>5. ASSUME NEW g \in Goroutines, NEW txs \in SUBSET Txs, Push(g, txs)
      PROVE  InductiveInv'
  BY <1>5 DEF Push
<1>6. ASSUME NEW g \in Goroutines, NEW t \in Txs, LookHit(g, t)
      PROVE  InductiveInv'
  BY <1>6 DEF LookHit
<1>7. ASSUME NEW g \in Goroutines, NEW t \in Txs, LookMiss(g, t)
      PROVE  InductiveInv'
  BY <1>7 DEF LookMiss
<1>8. ASSUME NEW g \in Goroutines, NEW t \in Txs, Set(g, t)
      PROVE  InductiveInv'
  BY <1>8 DEF Set
<1>9. ASSUME NEW g \in Goroutines, Handle(g)
      PROVE  InductiveInv'
  BY <1>9 DEF Handle
<1>10. ASSUME NEW t \in Txs, Expire(t)
       PROVE  InductiveInv'
  BY <1>10 DEF Expire
<1> QED BY <1>1, <1>1a, <1>1b, <1>2, <1>3, <1>3a, <1>4, <1>5, <1>6, <1>7, <1>8, <1>9,
           <1>10
        DEF ExportNext, WorkNext, WriteNext

\* The inductive invariant holds of every state.
THEOREM InvariantHolds == Spec => []InductiveInv
<1>1. InductiveInv /\ UNCHANGED vars => InductiveInv'
  BY DEF vars, connVars, hashVars, workVars, InductiveInv, TypeOK, WorkInv, FreshInv,
         NoSequentialHandOver, KnownIsPassedOn
<1>2. InductiveInv /\ [Next]_vars => InductiveInv'
  BY <1>1, ConnStep, WorkStep DEF Next
<1> QED BY <1>2, InitInv, PTL DEF Spec

-----------------------------------------------------------------------------
\* Type correctness of the P2P source's state.
THEOREM TypeCorrect == Spec => []TypeOK
<1>1. InductiveInv => TypeOK
  BY DEF InductiveInv
<1> QED BY <1>1, InvariantHolds, PTL

\* The shared cache stops every repeated hand-over that does not come from an
\* overlap of goroutines, of one record or of several.
THEOREM SequentialHandOversDoNotRepeat == Spec => []NoSequentialHandOver
<1>1. InductiveInv => NoSequentialHandOver
  BY DEF InductiveInv
<1> QED BY <1>1, InvariantHolds, PTL

\* No entry of the shared cache hides a transaction that passes the filter and
\* that nobody has passed on or is about to.
THEOREM CacheHidesNothing == Spec => []KnownIsPassedOn
<1>1. InductiveInv => KnownIsPassedOn
  BY DEF InductiveInv
<1> QED BY <1>1, InvariantHolds, PTL
=============================================================================
