--------------------------- MODULE TargetRPCProofs ---------------------------
(***************************************************************************)
(* TargetRPC for every set of endpoints and of senders, every finite set   *)
(* of transactions and every SendConcurrency.                              *)
(***************************************************************************)
EXTENDS TargetRPC, FiniteSetTheorems, TLAPS

\* The transactions whose result a job has received.
Collected(s, e) == {t \in Txs : request[s][e][t] = "collected"}

\* A listed peer stays listed: its goroutine waits for ever.
ListInv == \A e \in listed : conn[e] = "wait"

\* The locals of a call: every endpoint that was listed when it began has a job or
\* is still to be visited; it returns when all jobs have ended.
CallInv ==
    \A s \in Senders :
        /\ pc[s] = "idle" => started[s] = {} /\ batch[s] = {} /\ steady[s] = {}
        /\ pc[s] # "idle" => batch[s] # {}
        /\ pc[s] \in {"join", "returned"} => todo[s] = {}
        /\ started[s] \cap todo[s] = {}
        /\ steady[s] \subseteq listed
        /\ steady[s] \subseteq started[s] \cup todo[s]
        /\ pc[s] = "returned" => \A e \in started[s] : JobDone(s, e)

\* A job has a request for each transaction of the batch and for no other, and has
\* counted the results it received.
JobOK(s, e) ==
    /\ \A t \in Txs : request[s][e][t] # "none" <=> e \in started[s] /\ t \in batch[s]
    /\ success[s][e] + failure[s][e] = Cardinality(Collected(s, e))

JobInv == \A s \in Senders, e \in Endpoints : JobOK(s, e)

\* The errgroup has an error when some job has ended without a success.
FailedInv ==
    \A s \in Senders :
        failed[s] <=> \E e \in started[s] : /\ JobDone(s, e)
                                            /\ JobError(success[s][e], failure[s][e])

InductiveInv == TypeOK /\ ListInv /\ CallInv /\ JobInv /\ FailedInv

-----------------------------------------------------------------------------
\* Sets of transactions are finite.
LEMMA TxSetFinite ==
    ASSUME NEW T \in SUBSET Txs
    PROVE  /\ IsFiniteSet(T)
           /\ Cardinality(T) \in Nat
           /\ Cardinality(T) = 0 <=> T = {}
<1>1. IsFiniteSet(T)
  BY ConcurrencyAssumption, FS_Subset
<1> QED BY <1>1, FS_CardinalityType, FS_EmptySet

\* The first state satisfies the inductive invariant.
LEMMA InitInv == Init => InductiveInv
<1> SUFFICES ASSUME Init PROVE InductiveInv
  OBVIOUS
<1>1. TypeOK /\ ListInv /\ CallInv /\ FailedInv
  BY DEF Init, TypeOK, Counts, ListInv, CallInv, FailedInv
<1>2. JobInv
  <2> SUFFICES ASSUME NEW s \in Senders, NEW e \in Endpoints
               PROVE  JobOK(s, e)
    BY DEF JobInv
  <2>1. Collected(s, e) = {}
    BY DEF Init, Collected
  <2> QED BY <2>1, FS_EmptySet DEF Init, JobOK
<1> QED BY <1>1, <1>2 DEF InductiveInv

\* A job that has counted as many results as its batch is long has received them all.
LEMMA DoneIsAllCollected ==
    ASSUME InductiveInv, NEW s \in Senders, NEW e \in started[s], JobDone(s, e)
    PROVE  \A t \in Txs : request[s][e][t] = IF t \in batch[s] THEN "collected" ELSE "none"
<1>0. e \in Endpoints /\ batch[s] \in SUBSET Txs
  BY DEF InductiveInv, TypeOK
<1>1. \A t \in Txs : request[s][e][t] # "none" <=> t \in batch[s]
  BY <1>0 DEF InductiveInv, JobInv, JobOK
<1>2. Collected(s, e) \in SUBSET batch[s]
  BY <1>1 DEF Collected
<1>3. Cardinality(Collected(s, e)) = Cardinality(batch[s])
  BY <1>0 DEF InductiveInv, JobInv, JobOK, JobDone
<1>4. Collected(s, e) = batch[s]
  BY <1>0, <1>2, <1>3, TxSetFinite, FS_Subset
<1> QED BY <1>1, <1>4 DEF Collected

\* A job without results has counted none.
LEMMA NothingCounted ==
    ASSUME JobInv, NEW s \in Senders, NEW e \in Endpoints, Collected(s, e) = {}
    PROVE  success[s][e] + failure[s][e] = 0
<1>1. success[s][e] + failure[s][e] = Cardinality(Collected(s, e))
  BY DEF JobInv, JobOK
<1> QED BY <1>1, FS_EmptySet

\* What a job has received depends on its requests alone.
LEMMA SameRequests ==
    ASSUME NEW s \in Senders, NEW e \in Endpoints, request'[s][e] = request[s][e]
    PROVE  Collected(s, e)' = Collected(s, e)
  BY DEF Collected

\* Steps that leave the jobs alone: those of the endpoints' goroutines, and a call's
\* own that make no request.
LEMMA JobsUntouched ==
    ASSUME InductiveInv, UNCHANGED <<request, success, failure, started, batch>>
    PROVE  JobInv' /\ \A s \in Senders, e \in Endpoints : JobDone(s, e)' = JobDone(s, e)
<1>1. \A s \in Senders, e \in Endpoints : Collected(s, e)' = Collected(s, e)
  BY SameRequests
<1> QED BY <1>1 DEF InductiveInv, JobInv, JobOK, JobDone

\* A step of the goroutine of an endpoint.
LEMMA ConnStep ==
    ASSUME InductiveInv, NEW e \in Endpoints, ConnNext(e)
    PROVE  InductiveInv'
<1>1. UNCHANGED <<sendVars, jobVars>>
  BY DEF ConnNext, StartReturns, StartFails, BeginStore, EndStore, BeginClear, EndClear,
         Retry, Outage, Step
<1>2. JobInv' /\ FailedInv'
  BY <1>1, JobsUntouched DEF InductiveInv, TypeOK, FailedInv, sendVars, jobVars
<1>3. TypeOK'
  BY <1>1 DEF ConnNext, StartReturns, StartFails, BeginStore, EndStore, BeginClear,
              EndClear, Retry, Outage, Step, Running, InductiveInv, TypeOK, sendVars,
              jobVars, connVars
<1>4. ListInv' /\ \A f \in listed : f \in listed'
  BY DEF ConnNext, StartReturns, StartFails, BeginStore, EndStore, BeginClear, EndClear,
         Retry, Outage, Step, Running, InductiveInv, TypeOK, ListInv, connVars
<1>5. CallInv'
  BY <1>1, <1>4, JobsUntouched DEF InductiveInv, TypeOK, CallInv, sendVars, jobVars
<1> QED BY <1>2, <1>3, <1>4, <1>5 DEF InductiveInv

\* The call begins, its loop ends or the runtime stops the program, or it returns:
\* no job moves.
LEMMA CallStepInv ==
    ASSUME InductiveInv, NEW s \in Senders,
           \/ \E txs \in SUBSET Txs : SendCall(s, txs)
           \/ RangeCrash(s) \/ RangeEnd(s) \/ SendReturn(s) \/ Forget(s)
    PROVE  InductiveInv'
<1> USE DEF InductiveInv, TypeOK, ListInv, CallInv, FailedInv, Running, connVars,
            sendVars, jobVars
<1>1. ASSUME NEW txs \in SUBSET Txs, SendCall(s, txs)
      PROVE  InductiveInv'
  <2>1. /\ UNCHANGED <<conn, listed, started, jobVars, failed>>
        /\ started[s] = {} /\ batch' = [batch EXCEPT ![s] = txs]
    BY <1>1 DEF SendCall
  <2>2. TypeOK' /\ ListInv'
    BY <1>1 DEF SendCall
  <2>3. \A q \in Senders : q # s => batch'[q] = batch[q]
    BY <2>1
  <2>4. JobInv'
    <3>1. \A q \in Senders, e \in Endpoints : Collected(q, e)' = Collected(q, e)
      BY <2>1, SameRequests
    <3> QED BY <2>1, <2>3, <3>1 DEF JobInv, JobOK
  <2>5. \A q \in Senders : \A e \in started[q] : JobDone(q, e)' = JobDone(q, e)
    BY <2>1, <2>3 DEF JobDone
  <2>6. CallInv'
    BY <1>1, <2>1, <2>5 DEF SendCall
  <2>7. FailedInv'
    BY <2>1, <2>5
  <2> QED BY <2>2, <2>4, <2>6, <2>7
<1>2. CASE RangeCrash(s)
  BY <1>2, JobsUntouched DEF RangeCrash
<1>3. CASE RangeEnd(s)
  BY <1>3, JobsUntouched DEF RangeEnd
<1>4. CASE SendReturn(s)
  BY <1>4, JobsUntouched DEF SendReturn
<1>5. CASE Forget(s)
  <2>1. /\ started' = [started EXCEPT ![s] = {}] /\ batch' = [batch EXCEPT ![s] = {}]
        /\ request' = [request EXCEPT ![s] = [e \in Endpoints |-> [t \in Txs |-> "none"]]]
        /\ success' = [success EXCEPT ![s] = [e \in Endpoints |-> 0]]
        /\ failure' = [failure EXCEPT ![s] = [e \in Endpoints |-> 0]]
    BY <1>5 DEF Forget
  <2>2. TypeOK' /\ ListInv'
    BY <1>5 DEF Forget, Counts
  <2>3. \A e \in Endpoints : Collected(s, e)' = {}
    BY <2>1 DEF Collected
  <2>4. \A q \in Senders, e \in Endpoints : q # s =>
            /\ request'[q][e] = request[q][e] /\ started'[q] = started[q]
            /\ batch'[q] = batch[q] /\ success'[q][e] = success[q][e]
            /\ failure'[q][e] = failure[q][e]
    BY <2>1
  <2>5. \A q \in Senders, e \in Endpoints : q # s =>
            /\ Collected(q, e)' = Collected(q, e)
            /\ JobDone(q, e)' = JobDone(q, e)
    BY <2>4, SameRequests DEF JobDone
  <2>6. JobInv'
    <3>1. ASSUME NEW e \in Endpoints PROVE JobOK(s, e)'
      <4>1. /\ success'[s][e] = 0 /\ failure'[s][e] = 0
            /\ \A t \in Txs : request'[s][e][t] = "none"
            /\ e \notin started'[s]
        BY <2>1 DEF Counts
      <4>2. Cardinality(Collected(s, e)') = 0
        BY <2>3, FS_EmptySet
      <4> QED BY <4>1, <4>2 DEF JobOK
    <3>2. \A q \in Senders, e \in Endpoints : q # s => JobOK(q, e)'
      BY <2>4, <2>5 DEF JobInv, JobOK
    <3> QED BY <3>1, <3>2 DEF JobInv
  <2>7. CallInv'
    BY <1>5, <2>4, <2>5 DEF Forget
  <2>8. FailedInv'
    BY <1>5, <2>4, <2>5 DEF Forget
  <2> QED BY <2>2, <2>6, <2>7, <2>8
<1> QED BY <1>1, <1>2, <1>3, <1>4, <1>5

\* A job starts, with a request for each transaction of the batch.
LEMMA RangeNextInv ==
    ASSUME InductiveInv, NEW s \in Senders, NEW e \in Endpoints, RangeNext(s, e)
    PROVE  InductiveInv'
<1> USE DEF InductiveInv, TypeOK, ListInv, CallInv, FailedInv, Running, connVars
<1>1. CASE e \notin listed
  BY <1>1, JobsUntouched DEF RangeNext
<1>2. CASE e \in listed
  <2>1. /\ started' = [started EXCEPT ![s] = started[s] \cup {e}]
        /\ request' = [request EXCEPT ![s][e] =
               [t \in Txs |-> IF t \in batch[s] THEN "waiting" ELSE "none"]]
        /\ UNCHANGED <<conn, listed, batch, failed, steady, held, success, failure, pc>>
        /\ e \notin started[s] /\ pc[s] = "range" /\ batch[s] # {}
    BY <1>2 DEF RangeNext
  <2>2. TypeOK' /\ ListInv'
    BY <1>2, <2>1 DEF RangeNext
  <2>3. \A q \in Senders, f \in Endpoints : q # s \/ f # e =>
            request'[q][f] = request[q][f] /\ (f \in started'[q] <=> f \in started[q])
    BY <2>1
  <2>4. \A q \in Senders, f \in Endpoints : q # s \/ f # e =>
            Collected(q, f)' = Collected(q, f)
    BY <2>3, SameRequests
  <2>5. Collected(s, e)' = {} /\ Collected(s, e) = {}
    <3>1. \A t \in Txs : request[s][e][t] = "none"
      BY <2>1 DEF JobInv, JobOK
    <3>2. \A t \in Txs : request'[s][e][t] \in {"waiting", "none"}
      BY <2>1
    <3> QED BY <3>1, <3>2 DEF Collected
  <2>6. JobInv'
    <3>1. success[s][e] + failure[s][e] = 0
      BY <2>5, NothingCounted
    <3>2. \A t \in Txs : request'[s][e][t] # "none" <=> t \in batch[s]
      BY <2>1
    <3>3. JobOK(s, e)'
      BY <2>1, <2>5, <3>1, <3>2, FS_EmptySet DEF JobOK
    <3>4. \A q \in Senders, f \in Endpoints : q # s \/ f # e => JobOK(q, f)'
      BY <2>1, <2>3, <2>4 DEF JobInv, JobOK
    <3> QED BY <3>3, <3>4 DEF JobInv
  <2>7. \A q \in Senders, f \in Endpoints : JobDone(q, f)' = JobDone(q, f)
    BY <2>1 DEF JobDone
  <2>8. ~JobDone(s, e)
    <3>1. success[s][e] + failure[s][e] = 0
      BY <2>5, NothingCounted
    <3>2. Cardinality(batch[s]) # 0
      BY <2>1, TxSetFinite
    <3> QED BY <3>1, <3>2 DEF JobDone
  <2>9. CallInv'
    BY <1>2, <2>1, <2>7 DEF RangeNext
  <2>10. FailedInv'
    BY <2>1, <2>7, <2>8
  <2> QED BY <2>2, <2>6, <2>9, <2>10
<1> QED BY <1>1, <1>2

\* A request takes its place.
LEMMA AcquireInv ==
    ASSUME InductiveInv, NEW s \in Senders, NEW e \in Endpoints, NEW t \in Txs,
           Acquire(s, e, t)
    PROVE  InductiveInv'
<1>1. /\ request[s][e][t] = "waiting"
      /\ request' = [request EXCEPT ![s][e][t] = "sending"]
      /\ held' = [held EXCEPT ![s][e] = held[s][e] \cup {t}]
      /\ UNCHANGED <<conn, listed, writing, alive, pc, batch, todo, started, failed, steady,
                     success, failure, crashed>>
  BY DEF Acquire, Running, connVars, sendVars
<1>2. \A u \in Txs : request'[s][e][u] = IF u = t THEN "sending" ELSE request[s][e][u]
  BY <1>1 DEF InductiveInv, TypeOK
<1>3. Collected(s, e)' = Collected(s, e)
  BY <1>1, <1>2 DEF Collected
<1>5. JobOK(s, e)'
  BY <1>1, <1>2, <1>3 DEF InductiveInv, JobInv, JobOK
<1>6. ASSUME NEW q \in Senders, NEW f \in Endpoints, q # s \/ f # e
      PROVE  JobOK(q, f)'
  <2>1. request'[q][f] = request[q][f]
    BY <1>1, <1>6 DEF InductiveInv, TypeOK
  <2>2. Collected(q, f)' = Collected(q, f)
    BY <2>1, SameRequests
  <2> QED BY <1>1, <2>1, <2>2 DEF InductiveInv, JobInv, JobOK
<1>7. JobInv'
  BY <1>5, <1>6 DEF JobInv
<1>8. \A q \in Senders, f \in Endpoints : JobDone(q, f)' = JobDone(q, f)
  BY <1>1 DEF JobDone
<1>9. TypeOK' /\ ListInv' /\ CallInv' /\ FailedInv'
  BY <1>1, <1>8 DEF InductiveInv, TypeOK, ListInv, CallInv, FailedInv
<1> QED BY <1>7, <1>9 DEF InductiveInv

\* A request ends.
LEMMA AnswerInv ==
    ASSUME InductiveInv, NEW s \in Senders, NEW e \in Endpoints, NEW t \in Txs,
           Answer(s, e, t)
    PROVE  InductiveInv'
<1>1. /\ request[s][e][t] = "sending"
      /\ UNCHANGED <<conn, listed, writing, alive, pc, batch, todo, started, failed, steady,
                     held, success, failure, crashed>>
  BY DEF Answer, Running, connVars, sendVars
<1>w. PICK word \in {"taken", "refused"} : request' = [request EXCEPT ![s][e][t] = word]
  BY DEF Answer
<1>2. \A u \in Txs : request'[s][e][u] = IF u = t THEN word ELSE request[s][e][u]
  BY <1>w DEF InductiveInv, TypeOK
<1>3. Collected(s, e)' = Collected(s, e)
  BY <1>1, <1>2 DEF Collected
<1>5. JobOK(s, e)'
  BY <1>1, <1>2, <1>3 DEF InductiveInv, JobInv, JobOK
<1>6. ASSUME NEW q \in Senders, NEW f \in Endpoints, q # s \/ f # e
      PROVE  JobOK(q, f)'
  <2>1. request'[q][f] = request[q][f]
    BY <1>1, <1>w, <1>6 DEF InductiveInv, TypeOK
  <2>2. Collected(q, f)' = Collected(q, f)
    BY <2>1, SameRequests
  <2> QED BY <1>1, <2>1, <2>2 DEF InductiveInv, JobInv, JobOK
<1>7. JobInv'
  BY <1>5, <1>6 DEF JobInv
<1>8. \A q \in Senders, f \in Endpoints : JobDone(q, f)' = JobDone(q, f)
  BY <1>1 DEF JobDone
<1>9. TypeOK' /\ ListInv' /\ CallInv' /\ FailedInv'
  BY <1>1, <1>w, <1>8 DEF InductiveInv, TypeOK, ListInv, CallInv, FailedInv
<1> QED BY <1>7, <1>9 DEF InductiveInv

\* A request gives its place back.
LEMMA ReleaseInv ==
    ASSUME InductiveInv, NEW s \in Senders, NEW e \in Endpoints, NEW t \in Txs,
           Release(s, e, t)
    PROVE  InductiveInv'
<1>1. /\ held' = [held EXCEPT ![s][e] = held[s][e] \ {t}]
      /\ UNCHANGED <<conn, listed, writing, alive, pc, batch, todo, started, failed, steady,
                     request, success, failure, crashed>>
  BY DEF Release, Running, connVars, sendVars
<1>2. JobInv' /\ \A q \in Senders, f \in Endpoints : JobDone(q, f)' = JobDone(q, f)
  BY <1>1, JobsUntouched
<1>3. TypeOK' /\ ListInv' /\ CallInv' /\ FailedInv'
  BY <1>1, <1>2 DEF InductiveInv, TypeOK, ListInv, CallInv, FailedInv
<1> QED BY <1>2, <1>3 DEF InductiveInv

\* A result is received and counted, and with the last one the job ends.
LEMMA CollectInv ==
    ASSUME InductiveInv, NEW s \in Senders, NEW e \in Endpoints, NEW t \in Txs,
           Collect(s, e, t)
    PROVE  InductiveInv'
<1> DEFINE took == IF request[s][e][t] = "taken" THEN 1 ELSE 0
           successes == success[s][e] + took
           failures == failure[s][e] + 1 - took
           last == successes + failures = Cardinality(batch[s])
<1>1. /\ request[s][e][t] \in {"taken", "refused"}
      /\ request' = [request EXCEPT ![s][e][t] = "collected"]
      /\ success' = [success EXCEPT ![s][e] = successes]
      /\ failure' = [failure EXCEPT ![s][e] = failures]
      /\ failed' = [failed EXCEPT ![s] = failed[s] \/ (last /\ JobError(successes, failures))]
      /\ UNCHANGED <<conn, listed, writing, alive, pc, batch, todo, started, steady, held, crashed>>
  BY DEF Collect, Running, connVars
<1>2. \A u \in Txs : request'[s][e][u] = IF u = t THEN "collected" ELSE request[s][e][u]
  BY <1>1 DEF InductiveInv, TypeOK
<1>3. /\ success[s][e] \in Nat /\ failure[s][e] \in Nat
      /\ successes \in Nat /\ failures \in Nat
      /\ successes + failures = success[s][e] + failure[s][e] + 1
      /\ success'[s][e] = successes /\ failure'[s][e] = failures
  <2>1. /\ success \in Counts /\ failure \in Counts /\ took \in {0, 1}
    BY DEF InductiveInv, TypeOK
  <2>2. /\ success[s][e] \in Nat /\ failure[s][e] \in Nat
        /\ success'[s][e] = successes /\ failure'[s][e] = failures
    BY <1>1, <2>1 DEF Counts
  <2> QED BY <2>1, <2>2
<1>4. /\ e \in started[s] /\ ~JobDone(s, e)
  <2>1. e \in started[s] /\ t \in batch[s]
    BY <1>1 DEF InductiveInv, JobInv, JobOK
  <2> QED BY <1>1, <2>1, DoneIsAllCollected
<1>5. Cardinality(Collected(s, e)') = Cardinality(Collected(s, e)) + 1
  <2>1. /\ Collected(s, e)' = Collected(s, e) \cup {t} /\ t \notin Collected(s, e)
        /\ Collected(s, e) \in SUBSET Txs
    BY <1>1, <1>2 DEF Collected
  <2> QED BY <2>1, TxSetFinite, FS_AddElement
<1>7. JobOK(s, e)'
  <2>1. JobOK(s, e)
    BY DEF InductiveInv, JobInv
  <2>2. \A u \in Txs : request'[s][e][u] # "none" <=> e \in started'[s] /\ u \in batch'[s]
    BY <1>1, <1>2, <2>1 DEF JobOK
  <2>3. success'[s][e] + failure'[s][e] = Cardinality(Collected(s, e)')
    BY <1>3, <1>5, <2>1 DEF JobOK
  <2> QED BY <2>2, <2>3 DEF JobOK
<1>8. ASSUME NEW q \in Senders, NEW f \in Endpoints, q # s \/ f # e
      PROVE  /\ JobOK(q, f)'
             /\ JobDone(q, f)' = JobDone(q, f)
             /\ success'[q][f] = success[q][f] /\ failure'[q][f] = failure[q][f]
  <2>1. /\ request'[q][f] = request[q][f]
        /\ success'[q][f] = success[q][f] /\ failure'[q][f] = failure[q][f]
    BY <1>1, <1>8 DEF InductiveInv, TypeOK, Counts
  <2>2. Collected(q, f)' = Collected(q, f)
    BY <2>1, SameRequests
  <2> QED BY <1>1, <2>1, <2>2 DEF InductiveInv, JobInv, JobOK, JobDone
<1>9. JobInv'
  BY <1>7, <1>8 DEF JobInv
<1>10. JobDone(s, e)' = last
  BY <1>1, <1>3 DEF JobDone
<1>11. TypeOK' /\ ListInv'
  BY <1>1, <1>3 DEF InductiveInv, TypeOK, ListInv, Counts
<1>12. CallInv'
  <2>1. pc[s] # "returned"
    BY <1>4 DEF InductiveInv, CallInv
  <2>2. \A q \in Senders : pc[q] = "returned" =>
            \A f \in started[q] : JobDone(q, f)'
    BY <1>8, <2>1 DEF InductiveInv, TypeOK, CallInv
  <2> QED BY <1>1, <2>2 DEF InductiveInv, CallInv
<1>13. FailedInv'
  <2> SUFFICES ASSUME NEW q \in Senders
               PROVE  failed'[q] <=>
                        \E f \in started'[q] : /\ JobDone(q, f)'
                                               /\ JobError(success'[q][f], failure'[q][f])
    BY DEF FailedInv
  <2>1. started'[q] = started[q] /\ started[q] \in SUBSET Endpoints
    BY <1>1 DEF InductiveInv, TypeOK
  <2>2. failed[q] <=> \E f \in started[q] : /\ JobDone(q, f)
                                            /\ JobError(success[q][f], failure[q][f])
    BY DEF InductiveInv, FailedInv
  <2>3. CASE q # s
    <3>1. failed'[q] = failed[q]
      BY <1>1, <2>3 DEF InductiveInv, TypeOK
    <3> QED BY <1>8, <2>1, <2>2, <2>3, <3>1
  <2>4. CASE q = s
    <3>1. failed'[s] <=> failed[s] \/ (last /\ JobError(successes, failures))
      BY <1>1 DEF InductiveInv, TypeOK
    <3>2. JobError(success'[s][e], failure'[s][e]) <=> JobError(successes, failures)
      BY <1>3
    <3>3. ASSUME NEW f \in Endpoints, f # e
          PROVE  /\ JobDone(s, f)' = JobDone(s, f)
                 /\ JobError(success'[s][f], failure'[s][f])
                      = JobError(success[s][f], failure[s][f])
      BY <1>8, <3>3
    <3>4. failed[s] => \E f \in started[s] :
                          /\ JobDone(s, f)'
                          /\ JobError(success'[s][f], failure'[s][f])
      BY <1>4, <2>1, <2>2, <2>4, <3>3
    <3>5. ASSUME NEW f \in started[s], JobDone(s, f)',
                 JobError(success'[s][f], failure'[s][f])
          PROVE  failed'[s]
      <4>1. CASE f = e
        BY <1>10, <3>1, <3>2, <3>5, <4>1
      <4>2. CASE f # e
        BY <2>1, <2>2, <2>4, <3>1, <3>3, <3>5, <4>2
      <4> QED BY <4>1, <4>2
    <3>6. last /\ JobError(successes, failures) =>
            \E f \in started[s] : /\ JobDone(s, f)'
                                  /\ JobError(success'[s][f], failure'[s][f])
      BY <1>4, <1>10, <3>2
    <3> HIDE DEF last, successes, failures
    <3> QED BY <2>1, <2>4, <3>1, <3>4, <3>5, <3>6
  <2> QED BY <2>3, <2>4
<1> QED BY <1>9, <1>11, <1>12, <1>13 DEF InductiveInv

\* The inductive invariant holds of every state.
THEOREM InvariantHolds == Spec => []InductiveInv
<1>1. ASSUME InductiveInv, UNCHANGED vars
      PROVE  InductiveInv'
  <2>1. JobInv' /\ \A s \in Senders, e \in Endpoints : JobDone(s, e)' = JobDone(s, e)
    BY <1>1, JobsUntouched DEF vars, jobVars, sendVars
  <2> QED BY <1>1, <2>1 DEF vars, connVars, sendVars, jobVars, InductiveInv, TypeOK, ListInv,
                            CallInv, FailedInv
<1>2. InductiveInv /\ [Next]_vars => InductiveInv'
  BY <1>1, ConnStep, CallStepInv, RangeNextInv, AcquireInv, AnswerInv, ReleaseInv, CollectInv
     DEF Next, SendNext, CallStep
<1> QED BY <1>2, InitInv, PTL DEF Spec

-----------------------------------------------------------------------------
\* Type correctness of the RPC target's state.
THEOREM TypeCorrect == Spec => []TypeOK
<1>1. InductiveInv => TypeOK
  BY DEF InductiveInv
<1> QED BY <1>1, InvariantHolds, PTL

\* The error of a call says of every endpoint at once whether it took nothing.
THEOREM ErrorIsExact == Spec => []ErrorMeansNothingTaken
<1>1. InductiveInv => ErrorMeansNothingTaken
  <2> SUFFICES ASSUME InductiveInv, NEW s \in Senders, pc[s] = "returned"
               PROVE  failed[s] <=> \E e \in started[s] : success[s][e] = 0
    BY DEF ErrorMeansNothingTaken
  <2>1. started[s] \in SUBSET Endpoints /\ batch[s] \in SUBSET Txs /\ batch[s] # {}
    BY DEF InductiveInv, TypeOK, CallInv
  <2>2. Cardinality(batch[s]) \in Nat /\ Cardinality(batch[s]) # 0
    BY <2>1, TxSetFinite
  <2>3. ASSUME NEW e \in started[s]
        PROVE  JobDone(s, e) /\ (JobError(success[s][e], failure[s][e]) <=> success[s][e] = 0)
    <3>1. JobDone(s, e)
      BY DEF InductiveInv, CallInv
    <3>2. success[s][e] \in Nat /\ failure[s][e] \in Nat
      BY <2>1 DEF InductiveInv, TypeOK, Counts
    <3> QED BY <2>2, <3>1, <3>2 DEF JobDone, JobError
  <2>4. failed[s] <=> \E e \in started[s] : /\ JobDone(s, e)
                                            /\ JobError(success[s][e], failure[s][e])
    BY DEF InductiveInv, FailedInv
  <2> QED BY <2>3, <2>4
<1> QED BY <1>1, InvariantHolds, PTL

\* No endpoint that was listed when a call began misses a transaction of its batch.
THEOREM EveryListedPeerIsOffered == Spec => []WholeBatchIsOffered
<1>1. InductiveInv => WholeBatchIsOffered
  <2> SUFFICES ASSUME InductiveInv, NEW s \in Senders, pc[s] = "returned",
                      NEW e \in steady[s], NEW t \in batch[s]
               PROVE  request[s][e][t] = "collected"
    BY DEF WholeBatchIsOffered
  <2>1. e \in started[s] /\ JobDone(s, e) /\ t \in Txs
    BY DEF InductiveInv, TypeOK, CallInv
  <2> QED BY <2>1, DoneIsAllCollected
<1> QED BY <1>1, InvariantHolds, PTL
=============================================================================
