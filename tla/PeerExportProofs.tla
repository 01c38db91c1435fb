-------------------------- MODULE PeerExportProofs --------------------------
(***************************************************************************)
(* PeerExport for every set of items, queue size and batch size: what the  *)
(* goroutines of a P2P source peer read from the array they share with the *)
(* batch processor.                                                        *)
(***************************************************************************)
EXTENDS PeerExport, BatchItemProcessorProofs

\* The items that have reached the batch, those exported since included.
Batched == Len(exported) + Len(batch)

\* The batch lies at the front of its array.
BatchInCells == \A k \in 1 .. Len(batch) : cells[k] = batch[k]

\* A goroutine reads no more than it was given, and what it was given had reached
\* the batch; while no ExportItems call runs, it has been exported too.
JobsInv ==
    \A j \in DOMAIN jobs :
        /\ Len(jobs[j].given) <= MaxExportBatchSize
        /\ Len(jobs[j].read) <= Len(jobs[j].given)
        /\ jobs[j].start + Len(jobs[j].given)
             <= Len(exported) + (IF MutexFree THEN 0 ELSE Len(batch))

\* A cell that a goroutine may read holds what the goroutine was given, or what
\* reached the batch at the same place of a later batch.
CellsAreNewer ==
    \A j \in DOMAIN jobs : \A k \in DOMAIN jobs[j].given :
        \/ cells[k] = jobs[j].given[k]
        \/ \E q \in jobs[j].start + Len(jobs[j].given) + k .. Batched :
               cells[k] = accepted[q]

PeerInv == PeerTypeOK /\ BatchInCells /\ JobsInv /\ CellsAreNewer
             /\ EveryExportHasAJob /\ WrongReadsAreNewer

-----------------------------------------------------------------------------
(* The processor's part.                                                   *)

\* The exporter of a peer is an exporter like any other: the processor under it
\* takes only steps of its own.
LEMMA ProcessorStep == [PeerNext]_exportVars => [Next]_vars
<1> SUFFICES ASSUME [PeerNext]_exportVars PROVE [Next]_vars
  OBVIOUS
<1>1. CASE ProcessorNext
  BY <1>1 DEF ProcessorNext, Next, WorkerNext, ExportNext
<1>2. CASE AppendCell
  BY <1>2 DEF AppendCell, Next, WorkerNext
<1>3. ASSUME NEW p \in Procs, StartJob(p) \/ EndExport(p) PROVE Next
  BY <1>3 DEF StartJob, EndExport, Next, ExportNext
<1>4. ASSUME NEW j \in DOMAIN jobs, JobRead(j) \/ JobRequest(j) PROVE UNCHANGED vars
  BY <1>4 DEF JobRead, JobRequest
<1>5. CASE UNCHANGED exportVars
  BY <1>5 DEF exportVars
<1> QED BY <1>1, <1>2, <1>3, <1>4, <1>5 DEF PeerNext

\* A P2P source peer uses the batch processor as BatchItemProcessor models it, so
\* all that holds of the processor holds under its exporter.
THEOREM ProcessorIsImplemented == PeerSpec => Spec
<1>1. PeerInit => Init
  BY DEF PeerInit
<1> QED BY <1>1, ProcessorStep, PTL DEF PeerSpec, Spec

\* Where the stages of the processor lie in the sequence of accepted items.
LEMMA Stages ==
    ASSUME NEW S, NEW a \in Seq(S), NEW b \in Seq(S), NEW c \in Seq(S),
           NEW d \in Seq(S), NEW e, e = a \o b \o c \o d
    PROVE  /\ Len(a) \in Nat /\ Len(b) \in Nat /\ Len(c) \in Nat
           /\ Len(a) + Len(b) + Len(c) <= Len(e)
           /\ \A k \in 1 .. Len(b) : e[Len(a) + k] = b[k]
           /\ \A k \in 1 .. Len(c) : e[Len(a) + Len(b) + k] = c[k]
<1>1. /\ Len(a) \in Nat /\ Len(b) \in Nat /\ Len(c) \in Nat /\ Len(d) \in Nat
  BY LenProperties
<1>2. /\ a \o b \in Seq(S) /\ Len(a \o b) = Len(a) + Len(b)
      /\ \A k \in 1 .. Len(b) : (a \o b)[Len(a) + k] = b[k]
  BY <1>1, ConcatProperties
<1>3. /\ a \o b \o c \in Seq(S) /\ Len(a \o b \o c) = Len(a) + Len(b) + Len(c)
      /\ \A k \in 1 .. Len(a) + Len(b) : (a \o b \o c)[k] = (a \o b)[k]
      /\ \A k \in 1 .. Len(c) : (a \o b \o c)[Len(a) + Len(b) + k] = c[k]
  BY <1>1, <1>2, ConcatProperties
<1>4. /\ Len(a \o b \o c \o d) = Len(a) + Len(b) + Len(c) + Len(d)
      /\ \A k \in 1 .. Len(a) + Len(b) + Len(c) :
             (a \o b \o c \o d)[k] = (a \o b \o c)[k]
  BY <1>1, <1>3, ConcatProperties
<1> QED BY <1>1, <1>2, <1>3, <1>4

\* The same of the processor's state.
LEMMA AcceptedStages ==
    ASSUME InductiveInv
    PROVE  /\ Len(exported) \in Nat /\ Len(batch) \in Nat /\ Len(accepted) \in Nat
           /\ Batched <= Len(accepted)
           /\ \A k \in 1 .. Len(batch) : accepted[Len(exported) + k] = batch[k]
           /\ hand # <<>> => /\ Len(hand) = 1
                             /\ Batched + 1 <= Len(accepted)
                             /\ accepted[Batched + 1] = hand[1]
<1>1. /\ exported \in Seq(Items) /\ batch \in Seq(Items) /\ hand \in Seq(Items)
      /\ queue \in Seq(Items) /\ accepted \in Seq(Items)
      /\ accepted = exported \o batch \o hand \o queue
  BY DEF InductiveInv, TypeOK, ExactlyOnceInOrder
<1>2. /\ Len(exported) \in Nat /\ Len(batch) \in Nat /\ Len(hand) \in Nat
      /\ Len(exported) + Len(batch) + Len(hand) <= Len(accepted)
      /\ \A k \in 1 .. Len(batch) : accepted[Len(exported) + k] = batch[k]
      /\ \A k \in 1 .. Len(hand) :
             accepted[Len(exported) + Len(batch) + k] = hand[k]
  BY <1>1, Stages
<1>3. hand # <<>> => Len(hand) = 1
  <2>1. Len(hand) <= 1
    BY DEF InductiveInv, WorkerInv
  <2>2. hand # <<>> => Len(hand) # 0
    BY <1>1, EmptySeq
  <2>3. \A n \in Nat : n <= 1 /\ n # 0 => n = 1
    OBVIOUS
  <2> QED BY <1>2, <2>1, <2>2, <2>3
<1>4. Len(accepted) \in Nat
  BY <1>1, LenProperties
<1> QED BY <1>2, <1>3, <1>4 DEF Batched

\* Accepted items keep their places.
LEMMA AcceptedStays ==
    ASSUME InductiveInv, [Next]_vars
    PROVE  \A q \in 1 .. Len(accepted) : accepted'[q] = accepted[q]
<1>1. ASSUME NEW i \in Items, WriteAccept(i)
      PROVE  \A q \in 1 .. Len(accepted) : accepted'[q] = accepted[q]
  <2>1. accepted \in Seq(Items) /\ accepted' = Append(accepted, i)
    BY <1>1 DEF WriteAccept, InductiveInv, TypeOK
  <2> QED BY <2>1, AppendProperties
<1>2. (Next => (\E i \in Items : WriteAccept(i)) \/ accepted' = accepted)
  BY DEF Next, WriterNext, WorkerNext, ExportNext, FlushNext, StopNext, WriteCheck,
         WriteDrop, SelectTimer, SelectStop, Receive, AppendToBatch, StopTimer,
         DrainDefault, DrainClose, DrainFinal, ResetTimer, SkipExport,
         CallExporter, ExportReturn, FlushStart, FlushReturn, FlushCancel, ShutdownStart, CloseStopCh,
         StopWaitDone, ShutdownReturn, ShutdownCancel
<1> QED BY <1>1, <1>2 DEF vars

\* Only the worker exports.
LEMMA OneExporter == Procs = {Worker} /\ (MutexFree <=> pc[Worker] # "export")
  BY PeerExportAssumption DEF Procs, MutexFree

\* Outside of append and of the calls of the exporter nothing moves through the batch.
LEMMA QuietStep ==
    ASSUME InductiveInv, ProcessorNext
    PROVE  /\ UNCHANGED <<batch, exported, cells, jobs>>
           /\ MutexFree' <=> MutexFree
<1>1. UNCHANGED <<batch, exported, cells, jobs>>
  BY DEF ProcessorNext, WriterNext, StopNext, WriteCheck, WriteAccept, WriteDrop,
         SelectTimer, SelectStop, Receive, StopTimer, DrainDefault, DrainClose,
         DrainFinal, ResetTimer, SkipExport, ShutdownStart, CloseStopCh, StopWaitDone,
         ShutdownReturn, ShutdownCancel
<1>2. pc \in [Procs -> WorkerStates \cup FlusherStates]
  BY DEF InductiveInv, TypeOK
<1>3. ASSUME NEW l \in WorkerStates \ {"export"}, pc[Worker] # "export",
             pc' = [pc EXCEPT ![Worker] = l]
      PROVE  MutexFree' /\ MutexFree
  BY <1>2, <1>3, OneExporter DEF MutexFree
<1>4. CASE SelectTimer \/ SelectStop \/ Receive \/ StopTimer \/ DrainDefault
             \/ DrainClose \/ DrainFinal
  <2>1. /\ pc[Worker] # "export"
        /\ \E l \in WorkerStates \ {"export"} : pc' = [pc EXCEPT ![Worker] = l]
    BY <1>4 DEF SelectTimer, SelectStop, Receive, StopTimer, DrainDefault,
           DrainClose, DrainFinal, Goto, WorkerStates
  <2> QED BY <1>1, <1>3, <2>1
<1>5. ASSUME NEW p \in Procs, ResetTimer(p) \/ SkipExport(p)
      PROVE  MutexFree' <=> MutexFree
  <2>1. p = Worker
    BY OneExporter
  <2>2. /\ pc[Worker] # "export"
        /\ \E l \in WorkerStates \ {"export"} : pc' = [pc EXCEPT ![Worker] = l]
    BY <1>5, <2>1 DEF ResetTimer, SkipExport, Goto, AfterExport, WorkerStates
  <2> QED BY <1>3, <2>2
<1>6. CASE WriterNext \/ StopNext
  <2>1. pc' = pc
    BY <1>6 DEF WriterNext, StopNext, WriteCheck, WriteAccept, WriteDrop,
           ShutdownStart, CloseStopCh, StopWaitDone, ShutdownReturn, ShutdownCancel
  <2> QED BY <1>1, <2>1 DEF MutexFree
<1> QED BY <1>1, <1>4, <1>5, <1>6 DEF ProcessorNext

-----------------------------------------------------------------------------
(* The goroutines.                                                         *)

\* A goroutine that moves on leaves the others alone, and keeps its own batch.
LEMMA ChangedJob ==
    ASSUME PeerTypeOK, NEW j \in DOMAIN jobs, NEW r \in Jobs,
           jobs' = [jobs EXCEPT ![j] = r]
    PROVE  /\ jobs' \in Seq(Jobs)
           /\ Len(jobs') = Len(jobs)
           /\ DOMAIN jobs' = DOMAIN jobs
           /\ jobs'[j] = r
           /\ \A i \in DOMAIN jobs \ {j} : jobs'[i] = jobs[i]
<1>1. jobs \in Seq(Jobs) /\ j \in 1 .. Len(jobs)
  BY LenProperties DEF PeerTypeOK
<1> QED BY <1>1, ExceptSeq, LenProperties

\* What the types say of the goroutines.
LEMMA JobTypes ==
    ASSUME PeerTypeOK
    PROVE  /\ Len(jobs) \in Nat /\ DOMAIN jobs = 1 .. Len(jobs)
           /\ \A j \in DOMAIN jobs :
                 /\ jobs[j] \in Jobs
                 /\ jobs[j].start \in Nat
                 /\ jobs[j].given \in Seq(Items) /\ Len(jobs[j].given) \in Nat
                 /\ DOMAIN jobs[j].given = 1 .. Len(jobs[j].given)
                 /\ jobs[j].read \in Seq(Items \cup {None}) /\ Len(jobs[j].read) \in Nat
                 /\ DOMAIN jobs[j].read = 1 .. Len(jobs[j].read)
<1>1. jobs \in Seq(Jobs)
  BY DEF PeerTypeOK
<1>2. Len(jobs) \in Nat /\ DOMAIN jobs = 1 .. Len(jobs) /\ jobs \in [1 .. Len(jobs) -> Jobs]
  BY <1>1, LenProperties
<1>3. ASSUME NEW j \in DOMAIN jobs
      PROVE  /\ jobs[j] \in Jobs
             /\ jobs[j].start \in Nat
             /\ jobs[j].given \in Seq(Items)
             /\ jobs[j].read \in Seq(Items \cup {None})
  <2>1. jobs[j] \in Jobs
    BY <1>2, <1>3
  <2> QED BY <2>1 DEF Jobs
<1> QED BY <1>2, <1>3, LenProperties

\* The first state satisfies the invariant.
LEMMA PeerInitInv == PeerInit => PeerInv
<1> SUFFICES ASSUME PeerInit PROVE PeerInv
  OBVIOUS
<1>1. /\ <<>> \in Seq(Jobs) /\ DOMAIN <<>> = {} /\ Len(<<>>) = 0
  BY EmptySeq
<1>2. MutexFree
  BY PeerExportAssumption DEF PeerInit, Init, MutexFree, Procs
<1> QED BY <1>1, <1>2 DEF PeerInit, Init, PeerInv, PeerTypeOK, BatchInCells, JobsInv,
           CellsAreNewer, EveryExportHasAJob, WrongReadsAreNewer, HandedOver

\* While the goroutines read nothing and no batch is handed over, accepted items
\* keep their places, and with them all that relates the goroutines to them.
LEMMA SameJobs ==
    ASSUME InductiveInv, InductiveInv', [Next]_vars, PeerInv,
           jobs' \in Seq(Jobs), Len(jobs') = Len(jobs), DOMAIN jobs' = DOMAIN jobs,
           \A j \in DOMAIN jobs : /\ jobs'[j].given = jobs[j].given
                                  /\ jobs'[j].start = jobs[j].start
                                  /\ jobs'[j].read = jobs[j].read,
           Batched' >= Batched,
           Len(exported') + (IF MutexFree' THEN 0 ELSE Len(batch'))
             = Len(exported) + (IF MutexFree THEN 0 ELSE Len(batch))
    PROVE  /\ JobsInv' /\ EveryExportHasAJob' /\ WrongReadsAreNewer'
           /\ cells' = cells => CellsAreNewer'
<1>1. /\ Len(exported) \in Nat /\ Len(batch) \in Nat /\ Len(accepted) \in Nat
      /\ Len(exported') \in Nat /\ Len(batch') \in Nat
      /\ Batched <= Len(accepted)
      /\ Batched \in Nat /\ Batched' \in Nat
  BY AcceptedStages DEF Batched, InductiveInv, TypeOK
<1>2. \A q \in 1 .. Len(accepted) : accepted'[q] = accepted[q]
  BY AcceptedStays
<1>3. PeerTypeOK
  BY DEF PeerInv
<1>t. \A j \in DOMAIN jobs : /\ jobs[j].start \in Nat
                             /\ Len(jobs[j].given) \in Nat
                             /\ DOMAIN jobs[j].given = 1 .. Len(jobs[j].given)
  BY <1>3, JobTypes
<1>4. JobsInv'
  BY <1>3, JobTypes DEF PeerInv, JobsInv
<1>5. \A j \in DOMAIN jobs : jobs[j].start + Len(jobs[j].given) <= Len(accepted)
  BY <1>1, <1>3, JobTypes DEF PeerInv, JobsInv, Batched
<1>6. EveryExportHasAJob'
  <2>1. ASSUME NEW j \in DOMAIN jobs, NEW k \in DOMAIN jobs[j].given
        PROVE  jobs[j].given[k] = accepted'[jobs[j].start + k]
    <3>1. /\ jobs[j].start \in Nat /\ Len(jobs[j].given) \in Nat
          /\ k \in 1 .. Len(jobs[j].given)
          /\ jobs[j].start + Len(jobs[j].given) <= Len(accepted)
          /\ Len(accepted) \in Nat
      BY <1>1, <1>5, <1>t, <2>1
    <3>2. \A a, b, n \in Nat : a + b <= n => \A i \in 1 .. b : a + i \in 1 .. n
      OBVIOUS
    <3>3. jobs[j].start + k \in 1 .. Len(accepted)
      BY <3>1, <3>2
    <3> QED BY <1>2, <3>3 DEF PeerInv, EveryExportHasAJob
  <2>2. HandedOver' = HandedOver
    BY <1>3, JobTypes, EmptySeq DEF HandedOver
  <2>3. ASSUME NEW j \in DOMAIN jobs
        PROVE  jobs'[j].start = IF j = 1 THEN 0
                                ELSE jobs'[j-1].start + Len(jobs'[j-1].given)
    <3>1. j # 1 => j - 1 \in DOMAIN jobs
      BY <1>3, JobTypes
    <3> QED BY <3>1 DEF PeerInv, EveryExportHasAJob
  <2> QED BY <2>1, <2>2, <2>3 DEF PeerInv, EveryExportHasAJob
<1>7. ASSUME NEW j \in DOMAIN jobs, NEW k \in DOMAIN jobs[j].given,
             NEW q \in jobs[j].start + Len(jobs[j].given) + k .. Batched
      PROVE  /\ q \in jobs[j].start + Len(jobs[j].given) + k .. Batched'
             /\ accepted'[q] = accepted[q]
  <2>a. /\ jobs[j].start \in Nat /\ Len(jobs[j].given) \in Nat
        /\ k \in 1 .. Len(jobs[j].given)
    BY <1>t
  <2>b. q \in Nat /\ 1 <= q /\ q <= Batched
    BY ONLY <1>1, <1>7, <2>a
  <2>1. q \in 1 .. Len(accepted) /\ q \in Nat /\ q <= Batched'
    BY ONLY <1>1, <2>b, Batched' >= Batched
  <2> QED BY <1>1, <1>2, <1>7, <2>1, <2>a
<1>8. \A j \in DOMAIN jobs : \A k \in DOMAIN jobs[j].read : k \in DOMAIN jobs[j].given
  BY <1>3, JobTypes DEF PeerInv, JobsInv
<1>9. ASSUME NEW j \in DOMAIN jobs, NEW k \in DOMAIN jobs[j].read
      PROVE  \/ jobs[j].read[k] = jobs[j].given[k]
             \/ \E q \in jobs[j].start + Len(jobs[j].given) + k .. Batched' :
                    jobs[j].read[k] = accepted'[q]
  <2>1. \/ jobs[j].read[k] = jobs[j].given[k]
        \/ \E q \in jobs[j].start + Len(jobs[j].given) + k .. Batched :
               jobs[j].read[k] = accepted[q]
    BY DEF PeerInv, WrongReadsAreNewer, Batched
  <2> QED BY <1>7, <1>8, <2>1
<1>10. ASSUME NEW j \in DOMAIN jobs, NEW k \in DOMAIN jobs[j].given
       PROVE  \/ cells[k] = jobs[j].given[k]
              \/ \E q \in jobs[j].start + Len(jobs[j].given) + k .. Batched' :
                     cells[k] = accepted'[q]
  <2>1. \/ cells[k] = jobs[j].given[k]
        \/ \E q \in jobs[j].start + Len(jobs[j].given) + k .. Batched :
               cells[k] = accepted[q]
    BY DEF PeerInv, CellsAreNewer
  <2> QED BY <1>7, <2>1
<1>11. WrongReadsAreNewer'
  BY <1>9 DEF WrongReadsAreNewer, Batched
<1>12. cells' = cells => CellsAreNewer'
  BY <1>10 DEF CellsAreNewer
<1> QED BY <1>4, <1>6, <1>11, <1>12

\* Steps that leave the batch, its array and the goroutines' batches alone.
LEMMA QuietInv ==
    ASSUME InductiveInv, InductiveInv', [Next]_vars, PeerInv,
           UNCHANGED <<batch, exported, cells>>, MutexFree' <=> MutexFree,
           jobs' \in Seq(Jobs), Len(jobs') = Len(jobs), DOMAIN jobs' = DOMAIN jobs,
           \A j \in DOMAIN jobs : /\ jobs'[j].given = jobs[j].given
                                  /\ jobs'[j].start = jobs[j].start
                                  /\ jobs'[j].read = jobs[j].read
    PROVE  PeerInv'
<1>1. /\ Batched' = Batched /\ Batched \in Nat
      /\ Len(exported') + (IF MutexFree' THEN 0 ELSE Len(batch'))
           = Len(exported) + (IF MutexFree THEN 0 ELSE Len(batch))
  BY AcceptedStages DEF Batched
<1>2. Batched' >= Batched
  BY <1>1
<1>3. /\ JobsInv' /\ EveryExportHasAJob' /\ WrongReadsAreNewer' /\ CellsAreNewer'
  BY <1>1, <1>2, SameJobs
<1>4. PeerTypeOK' /\ BatchInCells'
  BY DEF PeerInv, PeerTypeOK, BatchInCells
<1> QED BY <1>3, <1>4 DEF PeerInv

\* A goroutine asks the peer, or finds that it need not.
LEMMA JobRequestInv ==
    ASSUME InductiveInv, InductiveInv', PeerInv,
           NEW j \in DOMAIN jobs, JobRequest(j)
    PROVE  PeerInv'
<1>1. PeerTypeOK /\ jobs[j] \in Jobs
  BY JobTypes DEF PeerInv
<1>2. PICK r \in Jobs : /\ jobs' = [jobs EXCEPT ![j] = r]
                        /\ r.given = jobs[j].given
                        /\ r.start = jobs[j].start
                        /\ r.read = jobs[j].read
  <2>1. CASE jobs' = [jobs EXCEPT ![j].phase = "requested",
                                  ![j].requestLive = jobs[j].live]
    <3> DEFINE r == [jobs[j] EXCEPT !.phase = "requested",
                                    !.requestLive = jobs[j].live]
    <3>1. jobs' = [jobs EXCEPT ![j] = r]
      BY <2>1
    <3>2. r \in Jobs /\ r.given = jobs[j].given /\ r.start = jobs[j].start
            /\ r.read = jobs[j].read
      BY <1>1 DEF Jobs
    <3> QED BY <3>1, <3>2
  <2>2. CASE jobs' = [jobs EXCEPT ![j].phase = "nothingNew"]
    <3> DEFINE r == [jobs[j] EXCEPT !.phase = "nothingNew"]
    <3>1. jobs' = [jobs EXCEPT ![j] = r]
      BY <2>2
    <3>2. r \in Jobs /\ r.given = jobs[j].given /\ r.start = jobs[j].start
            /\ r.read = jobs[j].read
      BY <1>1 DEF Jobs
    <3> QED BY <3>1, <3>2
  <2> QED BY <2>1, <2>2 DEF JobRequest
<1>3. /\ jobs' \in Seq(Jobs) /\ Len(jobs') = Len(jobs) /\ DOMAIN jobs' = DOMAIN jobs
      /\ jobs'[j] = r /\ \A i \in DOMAIN jobs \ {j} : jobs'[i] = jobs[i]
  BY <1>1, <1>2, ChangedJob
<1>4. UNCHANGED vars /\ UNCHANGED cells
  BY DEF JobRequest
<1>5. UNCHANGED <<batch, exported, cells>> /\ (MutexFree' <=> MutexFree)
  BY <1>4 DEF vars, MutexFree
<1> QED BY <1>2, <1>3, <1>4, <1>5, QuietInv

\* A goroutine reads a cell: its own item, or one that is newer.
LEMMA JobReadInv ==
    ASSUME InductiveInv, InductiveInv', PeerInv,
           NEW j \in DOMAIN jobs, JobRead(j)
    PROVE  PeerInv'
<1> DEFINE k == Len(jobs[j].read) + 1
           r == [jobs[j] EXCEPT !.read = Append(jobs[j].read, cells[k])]
<1>1. /\ PeerTypeOK /\ jobs[j] \in Jobs
      /\ jobs[j].read \in Seq(Items \cup {None}) /\ Len(jobs[j].read) \in Nat
      /\ Len(jobs[j].given) \in Nat /\ DOMAIN jobs[j].given = 1 .. Len(jobs[j].given)
  BY JobTypes DEF PeerInv
<1>2. /\ jobs' = [jobs EXCEPT ![j] = r]
      /\ Len(jobs[j].read) < Len(jobs[j].given)
      /\ UNCHANGED <<vars, cells>>
  BY DEF JobRead
<1>3. k \in 1 .. Len(jobs[j].given) /\ k \in 1 .. MaxExportBatchSize
  BY <1>1, <1>2, ProcessorAssumption DEF PeerInv, JobsInv
<1>4. cells[k] \in Items \cup {None}
  BY <1>1, <1>3 DEF PeerTypeOK
<1>5. /\ Append(jobs[j].read, cells[k]) \in Seq(Items \cup {None})
      /\ Len(Append(jobs[j].read, cells[k])) = k
      /\ DOMAIN Append(jobs[j].read, cells[k]) = 1 .. k
      /\ \A i \in 1 .. Len(jobs[j].read) : Append(jobs[j].read, cells[k])[i] = jobs[j].read[i]
      /\ Append(jobs[j].read, cells[k])[k] = cells[k]
  BY <1>1, <1>4, AppendProperties, LenProperties
<1>6. /\ r \in Jobs /\ r.given = jobs[j].given /\ r.start = jobs[j].start
      /\ r.read = Append(jobs[j].read, cells[k])
  BY <1>1, <1>5 DEF Jobs
<1>7. /\ jobs' \in Seq(Jobs) /\ Len(jobs') = Len(jobs) /\ DOMAIN jobs' = DOMAIN jobs
      /\ jobs'[j] = r /\ \A i \in DOMAIN jobs \ {j} : jobs'[i] = jobs[i]
  BY <1>1, <1>2, <1>6, ChangedJob
<1> HIDE DEF r
<1>8. /\ \A i \in DOMAIN jobs : /\ jobs'[i].given = jobs[i].given
                                /\ jobs'[i].start = jobs[i].start
      /\ \A i \in DOMAIN jobs \ {j} : jobs'[i].read = jobs[i].read
  BY <1>6, <1>7
<1>9. /\ UNCHANGED <<batch, exported, cells, accepted, pc>>
      /\ MutexFree' <=> MutexFree
      /\ Batched' = Batched
  BY <1>2 DEF vars, MutexFree, Batched
<1>10. PeerTypeOK' /\ BatchInCells' /\ CellsAreNewer'
  BY <1>7, <1>8, <1>9 DEF PeerInv, PeerTypeOK, BatchInCells, CellsAreNewer
<1>11. JobsInv'
  <2>1. \A i \in DOMAIN jobs : Len(jobs'[i].read) <= Len(jobs[i].given)
    BY <1>3, <1>5, <1>6, <1>7, <1>8 DEF PeerInv, JobsInv
  <2> QED BY <1>7, <1>8, <1>9, <2>1 DEF PeerInv, JobsInv
<1>12. EveryExportHasAJob'
  <2>1. HandedOver' = HandedOver
    <3>1. jobs # <<>> => Len(jobs) \in DOMAIN jobs
      BY <1>1, JobTypes, EmptySeq DEF PeerTypeOK
    <3>2. jobs' = <<>> <=> jobs = <<>>
      BY <1>1, <1>7, EmptySeq DEF PeerTypeOK
    <3> QED BY <1>7, <1>8, <3>1, <3>2 DEF HandedOver
  <2>2. \A i \in DOMAIN jobs : i # 1 => i - 1 \in DOMAIN jobs
    BY <1>1, JobTypes
  <2> QED BY <1>7, <1>8, <1>9, <2>1, <2>2 DEF PeerInv, EveryExportHasAJob
<1>13. WrongReadsAreNewer'
  <2>1. ASSUME NEW i \in DOMAIN jobs, NEW n \in DOMAIN jobs'[i].read
        PROVE  \/ jobs'[i].read[n] = jobs[i].given[n]
               \/ \E q \in jobs[i].start + Len(jobs[i].given) + n .. Batched :
                      jobs'[i].read[n] = accepted[q]
    <3>1. CASE i = j /\ n = k
      BY <1>1, <1>3, <1>5, <1>6, <1>7, <3>1 DEF PeerInv, CellsAreNewer
    <3>2. CASE i # j \/ n # k
      <4>1. n \in DOMAIN jobs[i].read /\ jobs'[i].read[n] = jobs[i].read[n]
        <5>1. CASE i # j
          BY <1>8, <2>1, <5>1
        <5>2. CASE i = j
          <6>1. jobs'[i].read = Append(jobs[j].read, cells[k])
            BY <1>6, <1>7, <5>2
          <6>2. DOMAIN jobs[j].read = 1 .. Len(jobs[j].read)
            BY <1>1, LenProperties
          <6>3. n \in 1 .. Len(jobs[j].read)
            BY <1>1, <1>5, <2>1, <3>2, <5>2, <6>1
          <6> QED BY <1>5, <5>2, <6>1, <6>2, <6>3
        <5> QED BY <5>1, <5>2
      <4> QED BY <4>1 DEF PeerInv, WrongReadsAreNewer, Batched
    <3> QED BY <3>1, <3>2
  <2> QED BY <1>7, <1>8, <1>9, <2>1 DEF WrongReadsAreNewer, Batched
<1> QED BY <1>10, <1>11, <1>12, <1>13 DEF PeerInv

\* The worker refills a cell: what it puts there is newer than the batches of the
\* goroutines that may still read it.
LEMMA AppendCellInv ==
    ASSUME InductiveInv, InductiveInv', [Next]_vars, PeerInv, AppendCell
    PROVE  PeerInv'
<1> DEFINE n == Len(batch) + 1
<1>1. /\ Len(exported) \in Nat /\ Len(batch) \in Nat /\ Len(accepted) \in Nat
      /\ \A k \in 1 .. Len(batch) : accepted[Len(exported) + k] = batch[k]
      /\ Batched = Len(exported) + Len(batch)
  BY AcceptedStages DEF Batched
<1>2. /\ hand \in Seq(Items) /\ batch \in Seq(Items)
      /\ pc \in [Procs -> WorkerStates \cup FlusherStates]
  BY DEF InductiveInv, TypeOK
<1>3. hand # <<>>
  BY DEF AppendCell, AppendToBatch, InductiveInv, WorkerInv
<1>4. Len(hand) = 1 /\ Batched + 1 <= Len(accepted) /\ accepted[Batched + 1] = hand[1]
  BY <1>3, AcceptedStages
<1>5. /\ batch' = batch \o hand /\ UNCHANGED <<exported, accepted, jobs>>
      /\ cells' = [cells EXCEPT ![n] = hand[1]]
      /\ MutexFree
  BY DEF AppendCell, AppendToBatch
<1>6. /\ Len(batch') = n
      /\ \A k \in 1 .. Len(batch) : batch'[k] = batch[k]
      /\ batch'[n] = hand[1]
      /\ hand[1] \in Items
  <2>1. hand \in [1 .. 1 -> Items]
    BY <1>2, <1>4, LenProperties
  <2>2. /\ Len(batch \o hand) = Len(batch) + 1
        /\ \A i \in 1 .. Len(batch) + 1 :
               (batch \o hand)[i] = IF i <= Len(batch) THEN batch[i]
                                   ELSE hand[i - Len(batch)]
    <3>1. /\ Len(batch \o hand) = Len(batch) + Len(hand)
          /\ \A i \in 1 .. Len(batch) + Len(hand) :
                 (batch \o hand)[i] = IF i <= Len(batch) THEN batch[i]
                                     ELSE hand[i - Len(batch)]
      BY <1>2, ConcatProperties
    <3> QED BY <1>4, <3>1
  <2>3. /\ (batch \o hand)[Len(batch) + 1] = hand[1]
        /\ \A i \in 1 .. Len(batch) : (batch \o hand)[i] = batch[i]
    <3> HIDE DEF n
    <3>1. /\ Len(batch) + 1 \in 1 .. Len(batch) + 1
          /\ ~(Len(batch) + 1 <= Len(batch))
          /\ Len(batch) + 1 - Len(batch) = 1
      BY <1>1
    <3>2. \A i \in 1 .. Len(batch) : i \in 1 .. Len(batch) + 1 /\ i <= Len(batch)
      BY <1>1
    <3> QED BY <2>2, <3>1, <3>2
  <2> QED BY <1>5, <2>1, <2>2, <2>3
<1>7. MutexFree'
  <2>1. pc'[Worker] # "export"
    BY <1>2, OneExporter DEF AppendCell, AppendToBatch, Goto
  <2> QED BY <2>1, OneExporter DEF MutexFree
<1>8. n \in 1 .. MaxExportBatchSize
  <2>1. Len(batch) < MaxExportBatchSize
    BY DEF AppendCell, AppendToBatch, InductiveInv, RoomInv
  <2> QED BY <1>1, <2>1, ProcessorAssumption
<1>9. /\ PeerTypeOK' /\ cells'[n] = hand[1]
      /\ \A k \in 1 .. MaxExportBatchSize : k # n => cells'[k] = cells[k]
  BY <1>5, <1>6, <1>8 DEF PeerInv, PeerTypeOK
<1>10. BatchInCells'
  <2>1. ASSUME NEW k \in 1 .. n PROVE cells'[k] = batch'[k]
    <3>1. k = n \/ (k \in 1 .. Len(batch) /\ k # n /\ k \in 1 .. MaxExportBatchSize)
      BY <1>1, <1>8, <2>1, ProcessorAssumption
    <3> QED BY <1>6, <1>9, <3>1 DEF PeerInv, BatchInCells
  <2> QED BY <1>6, <2>1 DEF BatchInCells
<1>11. Batched' = Batched + 1
  BY <1>1, <1>5, <1>6 DEF Batched
<1>12. JobsInv' /\ EveryExportHasAJob' /\ WrongReadsAreNewer'
  <2>1. jobs \in Seq(Jobs)
    BY DEF PeerInv, PeerTypeOK
  <2>2. Batched' >= Batched
    BY <1>1, <1>11
  <2>3. Len(exported') + (IF MutexFree' THEN 0 ELSE Len(batch'))
          = Len(exported) + (IF MutexFree THEN 0 ELSE Len(batch))
    BY <1>5, <1>7
  <2> QED BY <1>5, <2>1, <2>2, <2>3, SameJobs
<1>13. CellsAreNewer'
  <2>1. ASSUME NEW j \in DOMAIN jobs, NEW k \in DOMAIN jobs[j].given
        PROVE  \/ cells'[k] = jobs[j].given[k]
               \/ \E q \in jobs[j].start + Len(jobs[j].given) + k .. Batched + 1 :
                      cells'[k] = accepted[q]
    <3>1. /\ jobs[j].start \in Nat /\ Len(jobs[j].given) \in Nat
          /\ k \in 1 .. Len(jobs[j].given)
      BY <2>1, JobTypes DEF PeerInv
    <3>2. /\ Len(jobs[j].given) <= MaxExportBatchSize
          /\ jobs[j].start + Len(jobs[j].given) <= Len(exported)
      BY <1>1, <1>5, <2>1 DEF PeerInv, JobsInv
    <3>3. CASE k = n
      <4>1. Batched + 1 \in jobs[j].start + Len(jobs[j].given) + k .. Batched + 1
        BY <1>1, <3>1, <3>2, <3>3
      <4> QED BY <1>4, <1>9, <3>3, <4>1
    <3>4. CASE k # n
      <4>1. cells'[k] = cells[k]
        BY <1>9, <3>1, <3>2, <3>4, ProcessorAssumption
      <4>2. jobs[j].start + Len(jobs[j].given) + k .. Batched
              \subseteq jobs[j].start + Len(jobs[j].given) + k .. Batched + 1
        BY <1>1, <3>1
      <4> QED BY <2>1, <4>1, <4>2 DEF PeerInv, CellsAreNewer
    <3> QED BY <3>3, <3>4
  <2> QED BY <1>5, <1>11, <2>1 DEF CellsAreNewer
<1> QED BY <1>9, <1>10, <1>12, <1>13 DEF PeerInv

\* ExportItems returns: the batch becomes exported, and the array stays as it is.
LEMMA EndExportInv ==
    ASSUME InductiveInv, InductiveInv', [Next]_vars, PeerInv,
           NEW p \in Procs, EndExport(p)
    PROVE  PeerInv'
<1>1. /\ p = Worker /\ pc[p] = "export"
      /\ exported' = exported \o batch /\ batch' = <<>> /\ UNCHANGED cells
      /\ pc' = [pc EXCEPT ![p] = AfterExport(p)]
      /\ jobs' = [jobs EXCEPT ![Len(jobs)].live = FALSE]
  BY OneExporter DEF EndExport, ExportReturn, Goto
<1>2. /\ exported \in Seq(Items) /\ batch \in Seq(Items)
      /\ pc \in [Procs -> WorkerStates \cup FlusherStates]
      /\ Worker \in Procs
  BY DEF InductiveInv, TypeOK, Procs
<1>3. ~MutexFree /\ MutexFree'
  <2>1. pc'[Worker] # "export"
    BY <1>1, <1>2 DEF AfterExport
  <2> QED BY <1>1, <2>1, OneExporter DEF MutexFree
<1>4. /\ Len(exported) \in Nat /\ Len(batch) \in Nat
      /\ Len(exported') = Len(exported) + Len(batch) /\ Len(batch') = 0
  BY <1>1, <1>2, ConcatProperties, LenProperties, EmptySeq
<1>5. /\ Batched' = Batched /\ Batched \in Nat
      /\ Len(exported') + (IF MutexFree' THEN 0 ELSE Len(batch'))
           = Len(exported) + (IF MutexFree THEN 0 ELSE Len(batch))
  BY <1>3, <1>4 DEF Batched
<1>6. PeerTypeOK
  BY DEF PeerInv
<1>7. /\ jobs' \in Seq(Jobs) /\ Len(jobs') = Len(jobs) /\ DOMAIN jobs' = DOMAIN jobs
      /\ \A j \in DOMAIN jobs : /\ jobs'[j].given = jobs[j].given
                                /\ jobs'[j].start = jobs[j].start
                                /\ jobs'[j].read = jobs[j].read
  <2>1. CASE Len(jobs) \in DOMAIN jobs
    <3> DEFINE r == [jobs[Len(jobs)] EXCEPT !.live = FALSE]
    <3>1. jobs[Len(jobs)] \in Jobs
      BY <1>6, <2>1, JobTypes
    <3>2. /\ r \in Jobs /\ r.given = jobs[Len(jobs)].given
          /\ r.start = jobs[Len(jobs)].start /\ r.read = jobs[Len(jobs)].read
      BY <3>1 DEF Jobs
    <3>3. jobs' = [jobs EXCEPT ![Len(jobs)] = r]
      BY <1>1
    <3> HIDE DEF r
    <3>4. /\ jobs' \in Seq(Jobs) /\ Len(jobs') = Len(jobs) /\ DOMAIN jobs' = DOMAIN jobs
          /\ jobs'[Len(jobs)] = r
          /\ \A i \in DOMAIN jobs \ {Len(jobs)} : jobs'[i] = jobs[i]
      BY <1>6, <2>1, <3>2, <3>3, ChangedJob
    <3> QED BY <3>2, <3>4
  <2>2. CASE Len(jobs) \notin DOMAIN jobs
    <3>1. jobs' = jobs
      BY <1>1, <1>6, <2>2, JobTypes DEF PeerTypeOK
    <3> QED BY <1>6, <3>1 DEF PeerTypeOK
  <2> QED BY <2>1, <2>2
<1>8. Batched' >= Batched
  BY <1>5
<1>9. JobsInv' /\ EveryExportHasAJob' /\ WrongReadsAreNewer' /\ CellsAreNewer'
  BY <1>1, <1>5, <1>7, <1>8, SameJobs
<1>10. PeerTypeOK' /\ BatchInCells'
  BY <1>1, <1>4, <1>7 DEF PeerInv, PeerTypeOK, BatchInCells
<1> QED BY <1>9, <1>10 DEF PeerInv

\* exportItems calls the exporter: a goroutine starts where the one before ended.
LEMMA StartJobInv ==
    ASSUME InductiveInv, InductiveInv', [Next]_vars, PeerInv,
           NEW p \in Procs, StartJob(p)
    PROVE  PeerInv'
<1> DEFINE m == Len(jobs) + 1
           r == [given |-> batch, start |-> Len(exported), read |-> <<>>,
                 live |-> TRUE, phase |-> "reading", requestLive |-> FALSE]
<1>1. /\ Len(exported) \in Nat /\ Len(batch) \in Nat /\ Len(accepted) \in Nat
      /\ \A k \in 1 .. Len(batch) : accepted[Len(exported) + k] = batch[k]
      /\ Batched = Len(exported) + Len(batch)
  BY AcceptedStages DEF Batched
<1>2. /\ batch \in Seq(Items) /\ DOMAIN batch = 1 .. Len(batch)
      /\ Len(batch) <= MaxExportBatchSize
      /\ pc \in [Procs -> WorkerStates \cup FlusherStates] /\ Worker \in Procs
  BY LenProperties DEF InductiveInv, TypeOK, BatchBounded, Procs
<1>3. /\ UNCHANGED <<batch, exported, accepted, cells>> /\ MutexFree
      /\ pc' = [pc EXCEPT ![Worker] = "export"]
      /\ jobs' = Append(jobs, r)
  BY OneExporter DEF StartJob, CallExporter, Goto
<1>4. ~MutexFree'
  BY <1>2, <1>3 DEF MutexFree
<1>5. r \in Jobs
  <2>1. <<>> \in Seq(Items \cup {None})
    BY EmptySeq
  <2> QED BY <1>1, <1>2, <2>1 DEF Jobs
<1>6. r.given = batch /\ r.start = Len(exported) /\ r.read = <<>>
  OBVIOUS
<1>7. jobs \in Seq(Jobs) /\ Len(jobs) \in Nat /\ DOMAIN jobs = 1 .. Len(jobs)
  BY JobTypes DEF PeerInv, PeerTypeOK
<1> HIDE DEF r
<1>8. /\ jobs' \in Seq(Jobs) /\ DOMAIN jobs' = 1 .. m /\ Len(jobs') = m
      /\ jobs' # <<>> /\ jobs'[m] = r
      /\ \A j \in 1 .. Len(jobs) : jobs'[j] = jobs[j]
  BY <1>3, <1>5, <1>7, AppendProperties, LenProperties
<1>9. Batched' = Batched
  BY <1>3 DEF Batched
<1>10. \A j \in 1 .. m : j = m \/ j \in DOMAIN jobs
  BY <1>7
<1>11. PeerTypeOK' /\ BatchInCells'
  BY <1>3, <1>8 DEF PeerInv, PeerTypeOK, BatchInCells
<1>12. JobsInv'
  <2>1. ASSUME NEW j \in DOMAIN jobs
        PROVE  /\ Len(jobs'[j].given) <= MaxExportBatchSize
               /\ Len(jobs'[j].read) <= Len(jobs'[j].given)
               /\ jobs'[j].start + Len(jobs'[j].given) <= Len(exported) + Len(batch)
    <3>1. /\ Len(jobs[j].given) <= MaxExportBatchSize
          /\ Len(jobs[j].read) <= Len(jobs[j].given)
          /\ jobs[j].start + Len(jobs[j].given) <= Len(exported)
      BY <1>1, <1>3, <2>1 DEF PeerInv, JobsInv
    <3>2. jobs[j].start \in Nat /\ Len(jobs[j].given) \in Nat
      BY <2>1, JobTypes DEF PeerInv
    <3>3. jobs[j].start + Len(jobs[j].given) <= Len(exported) + Len(batch)
      BY <1>1, <3>1, <3>2
    <3> QED BY <1>7, <1>8, <3>1, <3>3
  <2>2. /\ Len(jobs'[m].given) <= MaxExportBatchSize
        /\ Len(jobs'[m].read) <= Len(jobs'[m].given)
        /\ jobs'[m].start + Len(jobs'[m].given) <= Len(exported) + Len(batch)
    <3>1. Len(<<>>) = 0
      OBVIOUS
    <3> QED BY <1>1, <1>2, <1>6, <1>8, <3>1
  <2> QED BY <1>3, <1>4, <1>8, <1>10, <2>1, <2>2 DEF JobsInv
<1>13. CellsAreNewer'
  <2>1. ASSUME NEW j \in DOMAIN jobs, NEW k \in DOMAIN jobs[j].given
        PROVE  \/ cells[k] = jobs[j].given[k]
               \/ \E q \in jobs[j].start + Len(jobs[j].given) + k .. Batched :
                      cells[k] = accepted[q]
    BY DEF PeerInv, CellsAreNewer
  <2>2. \A k \in DOMAIN batch : cells[k] = batch[k]
    BY <1>2 DEF PeerInv, BatchInCells
  <2>3. ASSUME NEW j \in DOMAIN jobs', NEW k \in DOMAIN jobs'[j].given
        PROVE  \/ cells[k] = jobs'[j].given[k]
               \/ \E q \in jobs'[j].start + Len(jobs'[j].given) + k .. Batched :
                      cells[k] = accepted[q]
    <3>1. CASE j = m
      BY <1>6, <1>8, <2>2, <2>3, <3>1
    <3>2. CASE j \in DOMAIN jobs
      <4>1. jobs'[j] = jobs[j]
        BY <1>7, <1>8, <3>2
      <4> QED BY <2>1, <2>3, <3>2, <4>1
    <3> QED BY <1>8, <1>10, <2>3, <3>1, <3>2
  <2> QED BY <1>3, <1>9, <2>3 DEF CellsAreNewer
<1>14. WrongReadsAreNewer'
  <2>1. ASSUME NEW j \in DOMAIN jobs', NEW k \in DOMAIN jobs'[j].read
        PROVE  \/ jobs'[j].read[k] = jobs'[j].given[k]
               \/ \E q \in jobs'[j].start + Len(jobs'[j].given) + k .. Batched :
                      jobs'[j].read[k] = accepted[q]
    <3>1. CASE j = m
      <4>1. DOMAIN jobs'[j].read = {}
        BY <1>6, <1>8, <3>1, EmptySeq
      <4> QED BY <2>1, <4>1
    <3>2. CASE j \in DOMAIN jobs
      <4>1. jobs'[j] = jobs[j]
        BY <1>7, <1>8, <3>2
      <4> QED BY <2>1, <3>2, <4>1 DEF PeerInv, WrongReadsAreNewer, Batched
    <3> QED BY <1>8, <1>10, <2>1, <3>1, <3>2
  <2> QED BY <1>3, <2>1 DEF WrongReadsAreNewer, Batched
<1>15. EveryExportHasAJob'
  <2>1. ASSUME NEW j \in DOMAIN jobs', NEW k \in DOMAIN jobs'[j].given
        PROVE  jobs'[j].given[k] = accepted[jobs'[j].start + k]
    <3>1. CASE j = m
      BY <1>1, <1>2, <1>6, <1>8, <2>1, <3>1
    <3>2. CASE j \in DOMAIN jobs
      <4>1. jobs'[j] = jobs[j]
        BY <1>7, <1>8, <3>2
      <4> QED BY <2>1, <3>2, <4>1 DEF PeerInv, EveryExportHasAJob
    <3> QED BY <1>8, <1>10, <2>1, <3>1, <3>2
  <2>2. HandedOver = Len(exported)
    BY <1>1, <1>3 DEF PeerInv, EveryExportHasAJob
  <2>3. ASSUME NEW j \in DOMAIN jobs'
        PROVE  jobs'[j].start = IF j = 1 THEN 0
                                ELSE jobs'[j-1].start + Len(jobs'[j-1].given)
    <3>1. CASE j = m /\ jobs = <<>>
      <4>1. j = 1 /\ Len(exported) = 0
        BY <2>2, <3>1 DEF HandedOver
      <4> QED BY <1>6, <1>8, <3>1, <4>1
    <3>2. CASE j = m /\ jobs # <<>>
      <4>1. Len(jobs) \in 1 .. Len(jobs) /\ j # 1 /\ j - 1 = Len(jobs)
        BY <1>7, <3>2, EmptySeq
      <4>2. jobs'[j-1] = jobs[Len(jobs)]
        BY <1>8, <4>1
      <4>3. Len(exported) = jobs[Len(jobs)].start + Len(jobs[Len(jobs)].given)
        BY <2>2, <3>2 DEF HandedOver
      <4> QED BY <1>6, <1>8, <3>2, <4>1, <4>2, <4>3
    <3>3. CASE j \in DOMAIN jobs
      <4>1. j \in 1 .. Len(jobs) /\ (j # 1 => j - 1 \in 1 .. Len(jobs))
        BY <1>7, <3>3
      <4>2. jobs'[j] = jobs[j] /\ (j # 1 => jobs'[j-1] = jobs[j-1])
        BY <1>8, <4>1
      <4> QED BY <3>3, <4>2 DEF PeerInv, EveryExportHasAJob
    <3> QED BY <1>8, <1>10, <2>3, <3>1, <3>2, <3>3
  <2>4. HandedOver' = Len(exported') + (IF MutexFree' THEN 0 ELSE Len(batch'))
    BY <1>3, <1>4, <1>6, <1>8 DEF HandedOver
  <2> QED BY <1>3, <2>1, <2>3, <2>4 DEF EveryExportHasAJob
<1> QED BY <1>11, <1>12, <1>13, <1>14, <1>15 DEF PeerInv

\* Every step of the peer's export preserves the invariant.
LEMMA PeerInvStep ==
    InductiveInv /\ PeerInv /\ [PeerNext]_exportVars => PeerInv'
<1> SUFFICES ASSUME InductiveInv, PeerInv, [PeerNext]_exportVars PROVE PeerInv'
  OBVIOUS
<1>1. [Next]_vars /\ InductiveInv'
  BY ProcessorStep, NextInv
<1>2. jobs \in Seq(Jobs)
  BY DEF PeerInv, PeerTypeOK
<1>3. CASE ProcessorNext
  BY <1>1, <1>2, <1>3, QuietStep, QuietInv
<1>4. CASE UNCHANGED exportVars
  <2>1. UNCHANGED <<batch, exported, cells, jobs>> /\ (MutexFree' <=> MutexFree)
    BY <1>4 DEF exportVars, vars, MutexFree
  <2> QED BY <1>1, <1>2, <2>1, QuietInv
<1> QED BY <1>1, <1>3, <1>4, AppendCellInv, StartJobInv, EndExportInv, JobReadInv,
           JobRequestInv DEF PeerNext

\* The invariant of the processor and that of the goroutines hold of every state.
THEOREM PeerInvariantHolds == PeerSpec => [](InductiveInv /\ PeerInv)
<1>1. PeerSpec => []InductiveInv
  BY ProcessorIsImplemented, InvariantHolds, PTL
<1> QED BY <1>1, PeerInitInv, PeerInvStep, PTL DEF PeerSpec

-----------------------------------------------------------------------------
(* The properties of PeerExport that TLC checks on small instances.        *)

\* Type correctness of the array and of the goroutines.
THEOREM PeerTypeCorrect == PeerSpec => []PeerTypeOK
<1>1. PeerInv => PeerTypeOK
  BY DEF PeerInv
<1> QED BY <1>1, PeerInvariantHolds, PTL

\* No batch grows beyond the array that the goroutines share.
THEOREM BatchFitsItsArray == PeerSpec => []BatchBounded
<1>1. InductiveInv => BatchBounded
  BY DEF InductiveInv
<1> QED BY <1>1, PeerInvariantHolds, PTL

\* Each exported item was handed to one goroutine, in order.
THEOREM HandOverIsExact == PeerSpec => []EveryExportHasAJob
<1>1. PeerInv => EveryExportHasAJob
  BY DEF PeerInv
<1> QED BY <1>1, PeerInvariantHolds, PTL

\* A goroutine that misses its own hash reads one accepted after its batch.
THEOREM SharedArrayReadsAreNewer == PeerSpec => []WrongReadsAreNewer
<1>1. PeerInv => WrongReadsAreNewer
  BY DEF PeerInv
<1> QED BY <1>1, PeerInvariantHolds, PTL
=============================================================================
