---------------------------- MODULE DeliveryProofs ----------------------------
(***************************************************************************)
(* The RPC source and the bridge together, for any set of endpoints and of *)
(* transactions: the joint system behaves like each of its parts, so that  *)
(* what is proved of Bridge holds of it, and what was answered for was     *)
(* offered.                                                                *)
(***************************************************************************)
EXTENDS Delivery, BridgeProofs

\* The values of the source and of what was offered.
DeliveryTypeOK == Source!TypeOK /\ offered \in SUBSET Txs

\* On its way: passed to the targets, or collected by a call that is going to.
OnItsWay(t) == t \in offered \/ \E c \in Callers : t \in filtered[c]

\* The goroutine of an endpoint is inside the handler exactly while its call of
\* broadcast runs.
InStep == \A c \in Callers : srcPc[c] = "handler" <=> pc[c] # "idle"

\* Every transaction of a running call is still to be looked up, or is the one
\* missed, or is on its way: collected by this call, or skipped because of a mark
\* whose caller has collected it or passed it on.
CallCovered ==
    \A c \in Callers : pc[c] # "idle" =>
        \A t \in srcPicked[c] \ (todo[c] \cup missed[c]) : OnItsWay(t)

\* What a call has collected it offers before it forgets it.
CollectedInv ==
    /\ forwarded \subseteq offered
    /\ \A c \in Callers : /\ pc[c] = "idle" => filtered[c] = {}
                          /\ pc[c] = "send" => /\ filtered[c] \subseteq offered
                                               /\ todo[c] = {}

JointInv == DeliveryTypeOK /\ InStep /\ CallCovered /\ CollectedInv
              /\ SettledIsOffered

-----------------------------------------------------------------------------
(* The source's part.                                                      *)

\* A note changes the fate only of the transactions it is about, and to its word.
LEMMA NoteWords ==
    ASSUME Source!TypeOK, NEW T,
           NEW w \in {"dropped", "refused", "populated", "forwarded"},
           Source!Note(T, w)
    PROVE  /\ fate' \in [Txs -> {Source!Fates[n] : n \in 1 .. 5}]
           /\ \A t \in Txs : fate'[t] = fate[t] \/ (t \in T /\ fate'[t] = w)
  BY DEF Source!Note, Source!TypeOK, Source!Fates

\* The first state of the source is well typed.
LEMMA SourceTypeInit == Source!Init => Source!TypeOK
<1>1. "none" \in {Source!Fates[n] : n \in 1 .. 5}
  BY DEF Source!Fates
<1> QED BY <1>1 DEF Source!Init, Source!TypeOK

\* Every step of an endpoint's goroutine keeps the source well typed.
LEMMA SourceTypePeer ==
    ASSUME Source!TypeOK, NEW c \in Callers, Source!PeerNext(c)
    PROVE  Source!TypeOK'
<1> USE DEF Source!TypeOK, Source!Goto, Source!Return, Source!histVars
<1>1. CASE Source!Connect(c) \/ Source!Panic(c)
  BY <1>1 DEF Source!Connect, Source!Panic
<1>2. CASE Source!ScanEnd(c) \/ Source!PopulateEnd(c)
  BY <1>2 DEF Source!ScanEnd, Source!PopulateEnd
<1>3. CASE Source!FilterEnd(c) \/ Source!MarkEnd(c)
  BY <1>3 DEF Source!FilterEnd, Source!MarkEnd, Source!CleanUp
<1>4. CASE Source!CallHandler(c)
  BY <1>4 DEF Source!CallHandler
<1>5. CASE Source!HandlerOk(c)
  <2>1. Source!Note(srcPicked[c], "forwarded")
    BY <1>5 DEF Source!HandlerOk
  <2> QED BY <1>5, <2>1, NoteWords DEF Source!HandlerOk
<1>6. CASE Source!HandlerError(c)
  <2>1. Source!Note(srcPicked[c], "refused")
    BY <1>6 DEF Source!HandlerError
  <2> QED BY <1>6, <2>1, NoteWords DEF Source!HandlerError
<1>7. ASSUME NEW pool \in SUBSET Txs, NEW answer \in {"scan", "scanNull"},
             Source!Poll(c, pool, answer)
      PROVE  Source!TypeOK'
  BY <1>7 DEF Source!Poll
<1>8. ASSUME NEW F \in SUBSET srcPicked[c], Source!Fetch(c, F)
      PROVE  Source!TypeOK'
  <2>1. Source!Note(srcPicked[c] \ F, "dropped")
    BY <1>8 DEF Source!Fetch
  <2> QED BY <1>8, <2>1, NoteWords DEF Source!Fetch
<1>9. ASSUME NEW t \in Txs, Source!Scan(c, t)
      PROVE  Source!TypeOK'
  BY <1>9 DEF Source!Scan
<1>10. ASSUME NEW t \in Txs, Source!Populate(c, t)
      PROVE  Source!TypeOK'
  <2>1. Source!Note({t}, "populated")
    BY <1>10 DEF Source!Populate
  <2> QED BY <1>10, <2>1, NoteWords DEF Source!Populate
<1>11. ASSUME NEW t \in Txs, Source!Filter(c, t) \/ Source!Mark(c, t)
      PROVE  Source!TypeOK'
  BY <1>11 DEF Source!Filter, Source!Mark
<1> QED BY <1>1, <1>2, <1>3, <1>4, <1>5, <1>6, <1>7, <1>8, <1>9, <1>10, <1>11
       DEF Source!PeerNext

\* Every step of the source, and every stutter, keeps it well typed.
LEMMA SourceTypeStep ==
    Source!TypeOK /\ [Source!Next]_srcVars => Source!TypeOK'
<1>1. ASSUME Source!TypeOK, NEW t \in Txs, Source!Expire(t) PROVE Source!TypeOK'
  BY <1>1 DEF Source!Expire, Source!TypeOK
<1>2. ASSUME Source!TypeOK, UNCHANGED srcVars PROVE Source!TypeOK'
  BY <1>2 DEF srcVars, Source!TypeOK
<1> QED BY <1>1, <1>2, SourceTypePeer DEF Source!Next

\* Every step of the two together is a step of the source, or does not touch it.
LEMMA SourceStep == [DeliveryNext]_deliveryVars => [Source!Next]_srcVars
<1> SUFFICES ASSUME [DeliveryNext]_deliveryVars PROVE [Source!Next]_srcVars
  OBVIOUS
<1>1. ASSUME NEW c \in Callers, SourceOnly(c) PROVE Source!PeerNext(c)
  BY <1>1 DEF SourceOnly, Source!PeerNext
<1>2. ASSUME NEW c \in Callers, Call(c) PROVE Source!PeerNext(c)
  BY <1>2 DEF Call, Source!PeerNext
<1>3. ASSUME NEW c \in Callers, Dedupe(c) \/ Offer(c) PROVE UNCHANGED srcVars
  BY <1>3 DEF Dedupe, Offer
<1>4. ASSUME NEW c \in Callers,
             ReturnDuplicates(c) \/ \E D \in SUBSET filtered[c] :
                                       ReturnOk(c, D) \/ ReturnError(c, D)
      PROVE  Source!PeerNext(c)
  BY <1>4 DEF ReturnDuplicates, ReturnOk, ReturnError, Source!PeerNext
<1>5. ASSUME NEW t \in Txs, ExpireEntry(t) PROVE [Source!Next]_srcVars
  BY <1>5 DEF ExpireEntry, Source!Next
<1>6. ASSUME UNCHANGED deliveryVars PROVE UNCHANGED srcVars
  BY <1>6 DEF deliveryVars
<1> QED BY <1>1, <1>2, <1>3, <1>4, <1>5, <1>6 DEF DeliveryNext, Source!Next

\* To the source the bridge is a handler like any other: what it can do by itself
\* is all it does here.
THEOREM SourceIsImplemented == DeliverySpec => Source!Spec
<1>1. DeliveryInit => Source!Init
  BY DEF DeliveryInit
<1>2. [DeliveryNext]_deliveryVars => [Source!Next]_(Source!vars)
  BY SourceStep DEF srcVars, Source!vars, Source!histVars
<1> QED BY <1>1, <1>2, PTL DEF DeliverySpec, Source!Spec

-----------------------------------------------------------------------------
(* The bridge's part.                                                      *)

\* Every step of the two together is a step of the bridge, or does not touch it.
LEMMA BridgeStep ==
    Source!TypeOK /\ [DeliveryNext]_deliveryVars => [Next]_vars
<1> SUFFICES ASSUME Source!TypeOK, [DeliveryNext]_deliveryVars PROVE [Next]_vars
  OBVIOUS
<1>1. ASSUME NEW c \in Callers, SourceOnly(c) PROVE UNCHANGED vars
  BY <1>1 DEF SourceOnly
<1>2. ASSUME NEW c \in Callers, Call(c) PROVE Next
  <2>1. srcPicked[c] \in SUBSET Txs
    BY DEF Source!TypeOK
  <2> QED BY <1>2, <2>1 DEF Call, Next
<1>3. ASSUME NEW c \in Callers, Dedupe(c) PROVE Next
  BY <1>3 DEF Dedupe, Next
<1>4. ASSUME NEW c \in Callers, Offer(c) \/ ReturnDuplicates(c) PROVE Next
  BY <1>4 DEF Offer, ReturnDuplicates, Next
<1>5. ASSUME NEW c \in Callers, NEW D \in SUBSET filtered[c],
             ReturnOk(c, D) \/ ReturnError(c, D)
      PROVE  Next
  BY <1>5 DEF ReturnOk, ReturnError, Next
<1>6. ASSUME NEW t \in Txs, ExpireEntry(t) PROVE [Next]_vars
  BY <1>6 DEF ExpireEntry, Next
<1>7. ASSUME UNCHANGED deliveryVars PROVE UNCHANGED vars
  BY <1>7 DEF deliveryVars
<1> QED BY <1>1, <1>2, <1>3, <1>4, <1>5, <1>6, <1>7 DEF DeliveryNext

\* The source stays well typed in the joint system.
LEMMA SourceTyped == DeliverySpec => []Source!TypeOK
<1>1. DeliveryInit => Source!TypeOK
  BY SourceTypeInit DEF DeliveryInit
<1>2. Source!TypeOK /\ [DeliveryNext]_deliveryVars => Source!TypeOK'
  BY SourceStep, SourceTypeStep
<1> QED BY <1>1, <1>2, PTL DEF DeliverySpec

\* The joint system is an instance of the bridge: the RPC source calls broadcast
\* only in ways that Bridge allows, so all that holds of Bridge holds here.
THEOREM BridgeIsImplemented == DeliverySpec => Spec
<1>1. DeliveryInit => Init
  BY DEF DeliveryInit
<1> QED BY <1>1, BridgeStep, SourceTyped, PTL DEF DeliverySpec, Spec

-----------------------------------------------------------------------------
(* The two together.                                                       *)

\* Nothing marked is abandoned: it is on its way to the targets.
LEMMA MarkedOnItsWay ==
    InductiveInv /\ CollectedInv => \A t \in sent : OnItsWay(t)
  BY DEF InductiveInv, MarkedIsForwarded, CollectedInv, OnItsWay

\* Outside of its handler the source neither enters nor leaves the handler, and
\* settles nothing.
LEMMA SourceOnlyEffect ==
    ASSUME Source!TypeOK, NEW c \in Callers, SourceOnly(c)
    PROVE  /\ srcPc[c] # "handler" /\ srcPc'[c] # "handler"
           /\ \A d \in Callers \ {c} : srcPc'[d] = srcPc[d] /\ srcPicked'[d] = srcPicked[d]
           /\ \A t \in Txs : fate'[t] \in {"refused", "forwarded"} => fate'[t] = fate[t]
           /\ UNCHANGED <<vars, offered>>
<1> USE DEF Source!TypeOK, Source!Goto, Source!Return, Source!histVars
<1>1. CASE \/ Source!Connect(c) \/ Source!Panic(c) \/ Source!ScanEnd(c)
           \/ Source!PopulateEnd(c) \/ Source!FilterEnd(c) \/ Source!MarkEnd(c)
  BY <1>1 DEF Source!Connect, Source!Panic, Source!ScanEnd, Source!PopulateEnd,
       Source!FilterEnd, Source!MarkEnd, Source!CleanUp, SourceOnly
<1>2. ASSUME NEW pool \in SUBSET Txs, NEW answer \in {"scan", "scanNull"},
             Source!Poll(c, pool, answer)
      PROVE  /\ srcPc[c] # "handler" /\ srcPc'[c] # "handler"
             /\ \A d \in Callers \ {c} : srcPc'[d] = srcPc[d]
                                         /\ srcPicked'[d] = srcPicked[d]
             /\ fate' = fate
  BY <1>2 DEF Source!Poll
<1>3. ASSUME NEW F \in SUBSET srcPicked[c], Source!Fetch(c, F)
      PROVE  /\ srcPc[c] # "handler" /\ srcPc'[c] # "handler"
             /\ \A d \in Callers \ {c} : srcPc'[d] = srcPc[d]
                                         /\ srcPicked'[d] = srcPicked[d]
             /\ \A t \in Txs : fate'[t] = fate[t] \/ fate'[t] = "dropped"
  <2>1. Source!Note(srcPicked[c] \ F, "dropped")
    BY <1>3 DEF Source!Fetch
  <2> QED BY <1>3, <2>1, NoteWords DEF Source!Fetch
<1>4. ASSUME NEW t \in Txs,
             Source!Scan(c, t) \/ Source!Filter(c, t) \/ Source!Mark(c, t)
      PROVE  /\ srcPc[c] # "handler" /\ srcPc'[c] # "handler"
             /\ \A d \in Callers \ {c} : srcPc'[d] = srcPc[d]
                                         /\ srcPicked'[d] = srcPicked[d]
             /\ fate' = fate
  BY <1>4 DEF Source!Scan, Source!Filter, Source!Mark
<1>5. ASSUME NEW u \in Txs, Source!Populate(c, u)
      PROVE  /\ srcPc[c] # "handler" /\ srcPc'[c] # "handler"
             /\ \A d \in Callers \ {c} : srcPc'[d] = srcPc[d]
                                         /\ srcPicked'[d] = srcPicked[d]
             /\ \A t \in Txs : fate'[t] = fate[t] \/ fate'[t] = "populated"
  <2>1. Source!Note({u}, "populated")
    BY <1>5 DEF Source!Populate
  <2> QED BY <1>5, <2>1, NoteWords DEF Source!Populate
<1> QED BY <1>1, <1>2, <1>3, <1>4, <1>5 DEF SourceOnly

\* At its end a call of the handler settles its own transactions and no others.
LEMMA ReturnEffect ==
    ASSUME Source!TypeOK, NEW c \in Callers,
           Source!HandlerOk(c) \/ Source!HandlerError(c)
    PROVE  /\ srcPc[c] = "handler" /\ srcPc'[c] # "handler"
           /\ \A d \in Callers \ {c} : srcPc'[d] = srcPc[d] /\ srcPicked'[d] = srcPicked[d]
           /\ \A t \in Txs : fate'[t] = fate[t] \/ t \in srcPicked[c]
<1> USE DEF Source!TypeOK, Source!Goto, Source!Return
<1>1. CASE Source!HandlerOk(c)
  <2>1. Source!Note(srcPicked[c], "forwarded")
    BY <1>1 DEF Source!HandlerOk
  <2> QED BY <1>1, <2>1, NoteWords DEF Source!HandlerOk
<1>2. CASE Source!HandlerError(c)
  <2>1. Source!Note(srcPicked[c], "refused")
    BY <1>2 DEF Source!HandlerError
  <2> QED BY <1>2, <2>1, NoteWords DEF Source!HandlerError
<1> QED BY <1>1, <1>2

\* The first state satisfies the joint invariant.
LEMMA JointInitInv == DeliveryInit => JointInv
<1> SUFFICES ASSUME DeliveryInit PROVE JointInv
  OBVIOUS
<1>1. DeliveryTypeOK
  BY SourceTypeInit DEF DeliveryInit, DeliveryTypeOK
<1> QED BY <1>1 DEF DeliveryInit, Init, Source!Init, JointInv, InStep, CallCovered,
           CollectedInv, SettledIsOffered

\* Once on its way, a transaction stays so: a call offers what it has collected
\* before it forgets it.
LEMMA StaysOnItsWay ==
    ASSUME InductiveInv, JointInv, [DeliveryNext]_deliveryVars, NEW u, OnItsWay(u)
    PROVE  OnItsWay(u)'
<1> USE DEF OnItsWay, InductiveInv, TypeOK, JointInv, CollectedInv
<1>1. ASSUME NEW c \in Callers, SourceOnly(c) PROVE OnItsWay(u)'
  BY <1>1 DEF SourceOnly, vars
<1>2. ASSUME NEW c \in Callers, Call(c) PROVE OnItsWay(u)'
  BY <1>2 DEF Call, Broadcast
<1>3. ASSUME NEW c \in Callers, Dedupe(c) PROVE OnItsWay(u)'
  BY <1>3 DEF Dedupe, SkipSent, MissSent, MarkSent
<1>4. ASSUME NEW c \in Callers, Offer(c) PROVE OnItsWay(u)'
  BY <1>4 DEF Offer, Forward
<1>5. ASSUME NEW c \in Callers, ReturnDuplicates(c) PROVE OnItsWay(u)'
  BY <1>5 DEF ReturnDuplicates, AllDuplicates
<1>6. ASSUME NEW c \in Callers, NEW D \in SUBSET filtered[c],
             ReturnOk(c, D) \/ ReturnError(c, D)
      PROVE  OnItsWay(u)'
  BY <1>6 DEF ReturnOk, ReturnError, SendReturn
<1>7. ASSUME NEW t \in Txs, ExpireEntry(t) PROVE OnItsWay(u)'
  BY <1>7 DEF ExpireEntry, Expire, vars
<1>8. CASE UNCHANGED deliveryVars
  BY <1>8 DEF deliveryVars, vars
<1> QED BY <1>1, <1>2, <1>3, <1>4, <1>5, <1>6, <1>7, <1>8 DEF DeliveryNext

\* Every step keeps both goroutine states in step with each other.
LEMMA InStepStep ==
    InductiveInv /\ JointInv /\ [DeliveryNext]_deliveryVars => InStep'
<1> SUFFICES ASSUME InductiveInv, JointInv, [DeliveryNext]_deliveryVars
             PROVE  InStep'
  OBVIOUS
<1> USE DEF InStep, InductiveInv, TypeOK, JointInv, DeliveryTypeOK, Goto
<1>1. ASSUME NEW c \in Callers, SourceOnly(c) PROVE InStep'
  BY <1>1, SourceOnlyEffect DEF vars
<1>2. ASSUME NEW c \in Callers, Call(c) PROVE InStep'
  BY <1>2 DEF Call, Broadcast, Source!CallHandler, Source!Goto, Source!TypeOK
<1>3. ASSUME NEW c \in Callers, Dedupe(c) PROVE InStep'
  BY <1>3 DEF Dedupe, SkipSent, MissSent, MarkSent, srcVars
<1>4. ASSUME NEW c \in Callers, Offer(c) PROVE InStep'
  BY <1>4 DEF Offer, Forward, srcVars
<1>5. ASSUME NEW c \in Callers, ReturnDuplicates(c) PROVE InStep'
  BY <1>5, ReturnEffect DEF ReturnDuplicates, AllDuplicates
<1>6. ASSUME NEW c \in Callers, NEW D \in SUBSET filtered[c],
             ReturnOk(c, D) \/ ReturnError(c, D)
      PROVE  InStep'
  BY <1>6, ReturnEffect DEF ReturnOk, ReturnError, SendReturn
<1>7. ASSUME NEW t \in Txs, ExpireEntry(t) PROVE InStep'
  BY <1>7 DEF ExpireEntry, Expire, Source!Expire, vars, srcVars
<1>8. CASE UNCHANGED deliveryVars
  BY <1>8 DEF deliveryVars, vars, srcVars
<1> QED BY <1>1, <1>2, <1>3, <1>4, <1>5, <1>6, <1>7, <1>8 DEF DeliveryNext

\* Every step keeps account of what was collected: it was offered when the call
\* forgets it.
LEMMA CollectedStep ==
    InductiveInv /\ JointInv /\ [DeliveryNext]_deliveryVars
      => CollectedInv' /\ offered' \in SUBSET Txs
<1> SUFFICES ASSUME InductiveInv, JointInv, [DeliveryNext]_deliveryVars
             PROVE  CollectedInv' /\ offered' \in SUBSET Txs
  OBVIOUS
<1> USE DEF CollectedInv, InductiveInv, TypeOK, JointInv, DeliveryTypeOK, Goto
<1>1. ASSUME NEW c \in Callers, SourceOnly(c)
      PROVE  CollectedInv' /\ offered' \in SUBSET Txs
  BY <1>1 DEF SourceOnly, vars
<1>2. ASSUME NEW c \in Callers, Call(c)
      PROVE  CollectedInv' /\ offered' \in SUBSET Txs
  BY <1>2 DEF Call, Broadcast
<1>3. ASSUME NEW c \in Callers, Dedupe(c)
      PROVE  CollectedInv' /\ offered' \in SUBSET Txs
  BY <1>3 DEF Dedupe, SkipSent, MissSent, MarkSent, StartAfresh
<1>4. ASSUME NEW c \in Callers, Offer(c)
      PROVE  CollectedInv' /\ offered' \in SUBSET Txs
  BY <1>4 DEF Offer, Forward
<1>5. ASSUME NEW c \in Callers, ReturnDuplicates(c)
      PROVE  CollectedInv' /\ offered' \in SUBSET Txs
  BY <1>5 DEF ReturnDuplicates, AllDuplicates
<1>6. ASSUME NEW c \in Callers, NEW D \in SUBSET filtered[c],
             ReturnOk(c, D) \/ ReturnError(c, D)
      PROVE  CollectedInv' /\ offered' \in SUBSET Txs
  BY <1>6 DEF ReturnOk, ReturnError, SendReturn
<1>7. ASSUME NEW t \in Txs, ExpireEntry(t)
      PROVE  CollectedInv' /\ offered' \in SUBSET Txs
  BY <1>7 DEF ExpireEntry, Expire, vars
<1>8. CASE UNCHANGED deliveryVars
  BY <1>8 DEF deliveryVars, vars
<1> QED BY <1>1, <1>2, <1>3, <1>4, <1>5, <1>6, <1>7, <1>8 DEF DeliveryNext

\* Every step of a call keeps its transactions covered: one is skipped only
\* because of a mark, and one that is marked is collected.
LEMMA CoveredStep ==
    InductiveInv /\ JointInv /\ [DeliveryNext]_deliveryVars => CallCovered'
<1> SUFFICES ASSUME InductiveInv, JointInv, [DeliveryNext]_deliveryVars
             PROVE  CallCovered'
  OBVIOUS
<1>0. \A u : OnItsWay(u) => OnItsWay(u)'
  BY StaysOnItsWay
<1> USE DEF CallCovered, InductiveInv, TypeOK, JointInv, DeliveryTypeOK, Goto
<1>1. ASSUME NEW c \in Callers, SourceOnly(c) PROVE CallCovered'
  <2>1. pc[c] = "idle" /\ UNCHANGED <<pc, todo, missed>>
    BY <1>1, SourceOnlyEffect DEF InStep, vars
  <2> QED BY <1>0, <1>1, <2>1, SourceOnlyEffect
<1>2. ASSUME NEW c \in Callers, Call(c) PROVE CallCovered'
  BY <1>0, <1>2 DEF Call, Broadcast, Source!CallHandler
<1>3. ASSUME NEW c \in Callers, NEW t \in Txs, SkipSent(c, t), UNCHANGED srcVars
      PROVE  CallCovered'
  <2>1. OnItsWay(t)
    BY <1>3, MarkedOnItsWay DEF SkipSent
  <2> QED BY <1>0, <1>3, <2>1 DEF SkipSent, srcVars
<1>4. ASSUME NEW c \in Callers, NEW t \in Txs, MissSent(c, t), UNCHANGED srcVars
      PROVE  CallCovered'
  <2>1. missed[c] = {}
    BY <1>4 DEF MissSent, CallerInv
  <2> QED BY <1>0, <1>4, <2>1 DEF MissSent, srcVars
<1>5. ASSUME NEW c \in Callers, NEW t \in Txs, MarkSent(c, t), UNCHANGED srcVars
      PROVE  CallCovered'
  <2>1. missed[c] = {t}
    BY <1>5 DEF MarkSent, CallerInv
  <2>2. OnItsWay(t)'
    BY <1>5 DEF MarkSent, OnItsWay
  <2> QED BY <1>0, <1>5, <2>1, <2>2 DEF MarkSent, srcVars
<1>6. ASSUME NEW c \in Callers, Offer(c) PROVE CallCovered'
  BY <1>0, <1>6 DEF Offer, Forward, srcVars
<1>7. ASSUME NEW c \in Callers, ReturnDuplicates(c) PROVE CallCovered'
  BY <1>0, <1>7, ReturnEffect DEF ReturnDuplicates, AllDuplicates
<1>8. ASSUME NEW c \in Callers, NEW D \in SUBSET filtered[c],
             ReturnOk(c, D) \/ ReturnError(c, D)
      PROVE  CallCovered'
  BY <1>0, <1>8, ReturnEffect DEF ReturnOk, ReturnError, SendReturn
<1>9. ASSUME NEW t \in Txs, ExpireEntry(t) PROVE CallCovered'
  BY <1>0, <1>9 DEF ExpireEntry, Expire, Source!Expire, vars, srcVars
<1>10. CASE UNCHANGED deliveryVars
  BY <1>0, <1>10 DEF deliveryVars, vars, srcVars
<1> QED BY <1>1, <1>2, <1>3, <1>4, <1>5, <1>6, <1>7, <1>8, <1>9, <1>10
       DEF DeliveryNext, Dedupe

\* Every step settles only what is on its way: a call that returns has looked up
\* all its transactions.
LEMMA SettledStep ==
    InductiveInv /\ JointInv /\ [DeliveryNext]_deliveryVars => SettledIsOffered'
<1> SUFFICES ASSUME InductiveInv, JointInv, [DeliveryNext]_deliveryVars, NEW u \in Txs,
                    fate'[u] \in {"refused", "forwarded"}
             PROVE  OnItsWay(u)'
  BY DEF SettledIsOffered, OnItsWay
<1>0. fate[u] = fate'[u] => OnItsWay(u)'
  BY StaysOnItsWay DEF JointInv, SettledIsOffered, OnItsWay
<1>1. ASSUME NEW c \in Callers, SourceOnly(c) PROVE OnItsWay(u)'
  BY <1>0, <1>1, SourceOnlyEffect DEF JointInv, DeliveryTypeOK
<1>2. ASSUME UNCHANGED fate PROVE OnItsWay(u)'
  BY <1>0, <1>2
<1>3. ASSUME NEW c \in Callers, pc[c] # "idle", todo[c] = {}, missed[c] = {},
             Source!HandlerOk(c) \/ Source!HandlerError(c)
      PROVE  OnItsWay(u)'
  <2>1. fate'[u] = fate[u] \/ u \in srcPicked[c]
    BY <1>3, ReturnEffect DEF JointInv, DeliveryTypeOK
  <2>2. u \in srcPicked[c] => OnItsWay(u)
    BY <1>3 DEF JointInv, CallCovered
  <2> QED BY <1>0, <2>1, <2>2, StaysOnItsWay
<1>4. ASSUME NEW c \in Callers, ReturnDuplicates(c) PROVE OnItsWay(u)'
  BY <1>3, <1>4 DEF ReturnDuplicates, AllDuplicates, InductiveInv, CallerInv
<1>5. ASSUME NEW c \in Callers, NEW D \in SUBSET filtered[c],
             ReturnOk(c, D) \/ ReturnError(c, D)
      PROVE  OnItsWay(u)'
  BY <1>3, <1>5 DEF ReturnOk, ReturnError, SendReturn, InductiveInv, CallerInv,
       JointInv, CollectedInv
<1>6. ASSUME NEW c \in Callers, Call(c) \/ Dedupe(c) \/ Offer(c) PROVE OnItsWay(u)'
  BY <1>2, <1>6 DEF Call, Dedupe, Offer, Source!CallHandler, srcVars
<1>7. ASSUME NEW t \in Txs, ExpireEntry(t) PROVE OnItsWay(u)'
  BY <1>2, <1>7 DEF ExpireEntry, Source!Expire, srcVars
<1>8. CASE UNCHANGED deliveryVars
  BY <1>2, <1>8 DEF deliveryVars, srcVars
<1> QED BY <1>1, <1>4, <1>5, <1>6, <1>7, <1>8 DEF DeliveryNext

\* The joint invariant holds of every state of the joint system.
THEOREM JointInvariantHolds == DeliverySpec => []JointInv
<1>1. InductiveInv /\ JointInv /\ [DeliveryNext]_deliveryVars => JointInv'
  BY SourceStep, SourceTypeStep, InStepStep, CoveredStep, CollectedStep, SettledStep
     DEF JointInv, DeliveryTypeOK
<1> QED BY <1>1, JointInitInv, BridgeIsImplemented, InvariantHolds, PTL
       DEF DeliverySpec

-----------------------------------------------------------------------------
\* What the bridge promises holds with the RPC source in front of it: only calls
\* that overlap duplicate, at most once per endpoint, and no mark is abandoned.
THEOREM BridgePromisesHold ==
    DeliverySpec => [](TypeOK /\ NoSequentialDuplicate /\ DuplicatesBounded
                         /\ MarkedIsForwarded)
BY BridgeIsImplemented, TypeCorrect, SequentialCallsDoNotDuplicate,
   OverlapDuplicatesBounded, EveryMarkIsForwarded, PTL

\* Nothing is settled in the source by a mark of the bridge that nobody redeems.
THEOREM SettledWasOffered == DeliverySpec => []SettledIsOffered
<1>1. JointInv => SettledIsOffered
  BY DEF JointInv
<1> QED BY <1>1, JointInvariantHolds, PTL
=============================================================================
