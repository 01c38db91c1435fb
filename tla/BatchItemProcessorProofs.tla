---------------------- MODULE BatchItemProcessorProofs ----------------------
(***************************************************************************)
(* BatchItemProcessor for every set of items, queue size, batch size and   *)
(* set of ForceFlush calls.                                                *)
(***************************************************************************)
EXTENDS BatchItemProcessor, SequenceTheorems, TLAPS

\* Moving the boundary between two neighbouring stages moves no item.
LEMMA ConcatFour ==
    ASSUME NEW S, NEW a \in Seq(S), NEW b \in Seq(S), NEW c \in Seq(S),
           NEW d \in Seq(S)
    PROVE  /\ a \o b \o c \o d \in Seq(S)
           /\ (a \o b) \o <<>> = a \o b
           /\ a \o b \o c \o d = a \o (b \o c) \o d
           /\ a \o b \o c \o d = a \o b \o (c \o d)
<1>1. /\ a \o b \in Seq(S)
      /\ (a \o b) \o c \in Seq(S)
  BY ConcatProperties
<1>2. ((a \o b) \o c) \o d \in Seq(S)
  BY <1>1, ConcatProperties
<1>3. (a \o b) \o c = a \o (b \o c)
  BY ConcatAssociative, SMTT(30)
<1>4. ((a \o b) \o c) \o d = (a \o b) \o (c \o d)
  BY <1>1, ConcatAssociative
<1>5. (a \o b) \o <<>> = a \o b
  BY <1>1, ConcatEmptySeq
<1> QED BY <1>2, <1>3, <1>4, <1>5

\* Receiving: the head of a queue followed by its tail is the queue.
LEMMA HeadThenTail ==
    ASSUME NEW S, NEW s \in Seq(S), s # <<>>
    PROVE  /\ <<Head(s)>> \in Seq(S)
           /\ Tail(s) \in Seq(S)
           /\ <<Head(s)>> \o Tail(s) = s
<1>1. /\ Head(s) \in S
      /\ Tail(s) \in Seq(S)
      /\ Len(Tail(s)) = Len(s) - 1
      /\ \A i \in 1 .. Len(Tail(s)) : Tail(s)[i] = s[i+1]
  BY HeadTailProperties
<1>2. Head(s) = s[1] /\ Len(s) \in Nat
  BY LenProperties
<1>3. <<Head(s)>> \in Seq(S) /\ Len(<<Head(s)>>) = 1 /\ <<Head(s)>>[1] = Head(s)
  BY <1>1
<1>4. /\ <<Head(s)>> \o Tail(s) \in Seq(S)
      /\ Len(<<Head(s)>> \o Tail(s)) = Len(s)
      /\ \A i \in 1 .. Len(s) : (<<Head(s)>> \o Tail(s))[i] = s[i]
  BY <1>1, <1>2, <1>3, ConcatProperties
<1>5. <<Head(s)>> \o Tail(s) = s
  BY <1>4, SeqEqual
<1> QED BY <1>1, <1>3, <1>5

\* WriteAccept: an item sent to the channel comes last.
LEMMA SendKeepsOrder ==
    ASSUME NEW S, NEW a \in Seq(S), NEW b \in Seq(S), NEW c \in Seq(S),
           NEW d \in Seq(S), NEW e \in S
    PROVE  /\ Append(d, e) \in Seq(S)
           /\ a \o b \o c \o Append(d, e) = Append(a \o b \o c \o d, e)
           /\ Append(a \o b \o c \o d, e) \in Seq(S)
<1>1. a \o b \o c \in Seq(S) /\ a \o b \o c \o d \in Seq(S)
  BY ConcatFour, ConcatProperties
<1>2. <<e>> \in Seq(S)
  OBVIOUS
<1>3. (a \o b \o c) \o (d \o <<e>>) = ((a \o b \o c) \o d) \o <<e>>
  BY <1>1, <1>2, ConcatAssociative, SMTT(30)
<1>4. /\ Append(d, e) = d \o <<e>>
      /\ Append(a \o b \o c \o d, e) = (a \o b \o c \o d) \o <<e>>
  BY <1>1, AppendIsConcat
<1> QED BY <1>1, <1>3, <1>4, AppendProperties

\* Receive: the worker's empty hand takes the head of the channel.
LEMMA ReceiveKeepsOrder ==
    ASSUME NEW S, NEW a \in Seq(S), NEW b \in Seq(S), NEW d \in Seq(S), d # <<>>
    PROVE  /\ <<Head(d)>> \in Seq(S) /\ Tail(d) \in Seq(S)
           /\ Len(<<Head(d)>>) = 1
           /\ <<Head(d)>> # <<>>
           /\ a \o b \o <<Head(d)>> \o Tail(d) = a \o b \o <<>> \o d
<1>1. /\ <<Head(d)>> \in Seq(S) /\ Tail(d) \in Seq(S)
      /\ <<Head(d)>> \o Tail(d) = d
  BY HeadThenTail
<1>2. a \o b \o <<Head(d)>> \o Tail(d) = a \o b \o d
  BY <1>1, ConcatFour, SMTT(30)
<1>3. a \o b \o <<>> = a \o b
  BY ConcatProperties, ConcatEmptySeq
<1> QED BY <1>1, <1>2, <1>3

\* AppendToBatch: the item in hand becomes the last of the batch.
LEMMA BatchingKeepsOrder ==
    ASSUME NEW S, NEW a \in Seq(S), NEW b \in Seq(S), NEW c \in Seq(S),
           NEW d \in Seq(S)
    PROVE  /\ b \o c \in Seq(S)
           /\ Len(b) \in Nat /\ Len(c) \in Nat
           /\ Len(b \o c) = Len(b) + Len(c)
           /\ c # <<>> => Len(c) # 0
           /\ a \o (b \o c) \o <<>> \o d = a \o b \o c \o d
<1>1. b \o c \in Seq(S) /\ Len(b \o c) = Len(b) + Len(c)
  BY ConcatProperties
<1>2. a \o (b \o c) \in Seq(S)
  BY <1>1, ConcatProperties
<1>3. a \o (b \o c) \o <<>> = a \o (b \o c)
  BY <1>2, ConcatEmptySeq
<1>4. a \o b \o c \o d = a \o (b \o c) \o d
  BY ConcatFour, SMTT(30)
<1> QED BY <1>1, <1>3, <1>4, LenProperties, EmptySeq

\* ExportReturn: the whole batch joins the exported items.
LEMMA ExportKeepsOrder ==
    ASSUME NEW S, NEW a \in Seq(S), NEW b \in Seq(S), NEW c \in Seq(S),
           NEW d \in Seq(S)
    PROVE  /\ a \o b \in Seq(S)
           /\ <<>> \in Seq(S) /\ Len(<<>>) = 0
           /\ (a \o b) \o <<>> \o c \o d = a \o b \o c \o d
  BY ConcatProperties, ConcatEmptySeq, EmptySeq

\* The first state satisfies the inductive invariant.
LEMMA InitInv == Init => InductiveInv
<1> SUFFICES ASSUME Init PROVE InductiveInv
  OBVIOUS
<1>1. <<>> \in Seq(Items) /\ Len(<<>>) = 0
  BY EmptySeq
<1>2. <<>> \o <<>> \o <<>> \o <<>> = <<>>
  BY <1>1, ConcatEmptySeq
<1>3. TypeOK
  BY <1>1 DEF Init, TypeOK, Procs, WriteStates, WorkerStates, FlusherStates
<1>4. ExactlyOnceInOrder
  BY <1>2 DEF Init, ExactlyOnceInOrder
<1>5. BatchBounded /\ RoomInv
  BY <1>1, ProcessorAssumption DEF Init, BatchBounded, RoomInv
<1>6. ExporterCalledAlone /\ WorkerInv /\ FlusherInv
  BY <1>1, ProcessorAssumption
     DEF Init, ExporterCalledAlone, WorkerInv, FlusherInv, Procs, FlusherStates
<1>7. StopInv /\ TimerInv
  BY DEF Init, StopInv, TimerInv
<1> QED BY <1>3, <1>4, <1>5, <1>6, <1>7 DEF InductiveInv

\* Every step preserves the inductive invariant.  Only four actions move items;
\* the others touch the control state alone.
LEMMA NextInv == InductiveInv /\ [Next]_vars => InductiveInv'
<1> SUFFICES ASSUME InductiveInv, [Next]_vars PROVE InductiveInv'
  OBVIOUS
<1>seqs. /\ accepted \in Seq(Items) /\ exported \in Seq(Items)
         /\ batch \in Seq(Items) /\ hand \in Seq(Items) /\ queue \in Seq(Items)
  BY DEF InductiveInv, TypeOK
<1>send. ASSUME NEW i \in Items
         PROVE  /\ Append(queue, i) \in Seq(Items)
                /\ exported \o batch \o hand \o Append(queue, i)
                     = Append(exported \o batch \o hand \o queue, i)
                /\ Append(exported \o batch \o hand \o queue, i) \in Seq(Items)
  BY <1>seqs, SendKeepsOrder
<1>receive. ASSUME queue # <<>>
            PROVE  /\ <<Head(queue)>> \in Seq(Items) /\ Tail(queue) \in Seq(Items)
                   /\ Len(<<Head(queue)>>) = 1
                   /\ <<Head(queue)>> # <<>>
                   /\ exported \o batch \o <<Head(queue)>> \o Tail(queue)
                        = exported \o batch \o <<>> \o queue
  BY <1>seqs, <1>receive, ReceiveKeepsOrder, SMTT(30)
<1>batching. /\ batch \o hand \in Seq(Items)
             /\ Len(batch) \in Nat /\ Len(hand) \in Nat
             /\ Len(batch \o hand) = Len(batch) + Len(hand)
             /\ hand # <<>> => Len(hand) # 0
             /\ exported \o (batch \o hand) \o <<>> \o queue
                  = exported \o batch \o hand \o queue
  BY <1>seqs, BatchingKeepsOrder, SMTT(30)
<1>single. hand # <<>> => Len(hand) = 1
  <2>1. Len(hand) <= 1
    BY DEF InductiveInv, WorkerInv
  <2>2. Len(hand) \in Nat /\ (hand # <<>> => Len(hand) # 0)
    BY <1>batching
  <2>3. \A n \in Nat : n <= 1 /\ n # 0 => n = 1
    OBVIOUS
  <2> QED BY <2>1, <2>2, <2>3
<1>export. /\ exported \o batch \in Seq(Items)
           /\ <<>> \in Seq(Items) /\ Len(<<>>) = 0
           /\ (exported \o batch) \o <<>> \o hand \o queue
                = exported \o batch \o hand \o queue
  BY <1>seqs, ExportKeepsOrder
<1>control. ASSUME write' \in [Items -> WriteStates],
                   UNCHANGED <<accepted, queue, hand, batch, exported, armed, mode,
                               pc, shutdown, stopper, abandoned>>
            PROVE  InductiveInv'
  <2>1. TypeOK' /\ ExactlyOnceInOrder' /\ BatchBounded'
    BY <1>control DEF InductiveInv, TypeOK, ExactlyOnceInOrder, BatchBounded
  <2>2. ExporterCalledAlone' /\ RoomInv' /\ FlusherInv'
    BY <1>control DEF InductiveInv, ExporterCalledAlone, RoomInv, FlusherInv
  <2>3. WorkerInv' /\ StopInv' /\ TimerInv'
    BY <1>control DEF InductiveInv, WorkerInv, StopInv, TimerInv, StopChClosed
  <2> QED BY <2>1, <2>2, <2>3 DEF InductiveInv
<1>1. ASSUME NEW i \in Items, WriteCheck(i) PROVE InductiveInv'
  <2>1. /\ write' \in [Items -> WriteStates]
        /\ UNCHANGED <<accepted, queue, hand, batch, exported, armed, mode, pc,
                       shutdown, stopper, abandoned>>
    BY <1>1 DEF WriteCheck, InductiveInv, TypeOK, WriteStates
  <2> QED BY <2>1, <1>control
<1>2. ASSUME NEW i \in Items, WriteAccept(i) PROVE InductiveInv'
  <2>1. /\ mode # "final"
        /\ queue' = Append(queue, i) /\ accepted' = Append(accepted, i)
        /\ write' \in [Items -> WriteStates]
        /\ UNCHANGED <<hand, batch, exported, armed, mode, pc, shutdown, stopper,
                       abandoned>>
    BY <1>2 DEF WriteAccept, QueueClosed, InductiveInv, TypeOK, WriteStates
  <2>2. TypeOK' /\ ExactlyOnceInOrder'
    BY <2>1, <1>send DEF InductiveInv, TypeOK, ExactlyOnceInOrder
  <2>3. BatchBounded' /\ ExporterCalledAlone' /\ RoomInv'
    BY <2>1 DEF InductiveInv, BatchBounded, ExporterCalledAlone, RoomInv
  <2>4. WorkerInv' /\ StopInv' /\ TimerInv' /\ FlusherInv'
    BY <2>1 DEF InductiveInv, WorkerInv, StopInv, TimerInv, FlusherInv, StopChClosed
  <2> QED BY <2>2, <2>3, <2>4 DEF InductiveInv
<1>3. ASSUME NEW i \in Items, WriteDrop(i) PROVE InductiveInv'
  <2>1. /\ write' \in [Items -> WriteStates]
        /\ UNCHANGED <<accepted, queue, hand, batch, exported, armed, mode, pc,
                       shutdown, stopper, abandoned>>
    BY <1>3 DEF WriteDrop, InductiveInv, TypeOK, WriteStates
  <2> QED BY <2>1, <1>control
<1> USE ProcessorAssumption
    DEF InductiveInv, TypeOK, ExactlyOnceInOrder, BatchBounded,
        ExporterCalledAlone, WorkerInv, StopInv, RoomInv, TimerInv, FlusherInv,
        Procs, WriteStates, WorkerStates, FlusherStates, Goto, MutexFree,
        StopChClosed, QueueClosed
<1>4. CASE SelectTimer
  BY <1>4 DEF SelectTimer
<1>5. CASE SelectStop
  BY <1>5 DEF SelectStop
<1>6. CASE Receive
  <2>1. queue # <<>> /\ hand = <<>>
    BY <1>6 DEF Receive
  <2> QED BY <1>6, <2>1, <1>receive, SMTT(30) DEF Receive
<1>7. CASE AppendToBatch
  <2>1. hand # <<>> /\ Len(batch) < MaxExportBatchSize /\ mode # "final"
    BY <1>7 DEF AppendToBatch
  <2>2. Len(hand) = 1
    BY <2>1, <1>single
  <2> QED BY <1>7, <2>1, <2>2, <1>batching, <1>export, SMTT(30)
         DEF AppendToBatch, ShouldExport
<1>8. CASE StopTimer
  BY <1>8 DEF StopTimer
<1>9. CASE DrainClose
  BY <1>9 DEF DrainClose
<1>9a. CASE DrainDefault
  BY <1>9a DEF DrainDefault
<1>10. CASE DrainFinal
  BY <1>10 DEF DrainFinal
<1>11. ASSUME NEW p \in Procs, ResetTimer(p) PROVE InductiveInv'
  BY <1>11 DEF ResetTimer
<1>12. ASSUME NEW p \in Procs, SkipExport(p) PROVE InductiveInv'
  BY <1>12 DEF SkipExport, AfterExport
<1>13. ASSUME NEW p \in Procs, CallExporter(p) PROVE InductiveInv'
  BY <1>13 DEF CallExporter
<1>14. ASSUME NEW p \in Procs, ExportReturn(p) PROVE InductiveInv'
  <2>1. TypeOK' /\ ExactlyOnceInOrder' /\ BatchBounded'
    BY <1>14, <1>export, SMTT(30) DEF ExportReturn, AfterExport
  <2>2. batch' = <<>> /\ pc' = [pc EXCEPT ![p] = AfterExport(p)]
    BY <1>14 DEF ExportReturn
  <2>3. ExporterCalledAlone' /\ RoomInv' /\ FlusherInv'
    BY <1>14, <1>export, <2>2, SMTT(30) DEF ExportReturn, AfterExport
  <2>4. WorkerInv' /\ StopInv' /\ TimerInv'
    BY <1>14, <2>2, SMTT(30) DEF ExportReturn, AfterExport
  <2> QED BY <2>1, <2>3, <2>4
<1>15. ASSUME NEW f \in Flushers, FlushStart(f) PROVE InductiveInv'
  BY <1>15 DEF FlushStart
<1>16. ASSUME NEW f \in Flushers, FlushReturn(f) PROVE InductiveInv'
  BY <1>16 DEF FlushReturn
<1>17. ASSUME NEW f \in Flushers, FlushCancel(f) PROVE InductiveInv'
  BY <1>17 DEF FlushCancel
<1>18. CASE ShutdownStart
  BY <1>18 DEF ShutdownStart
<1>19. CASE CloseStopCh
  BY <1>19 DEF CloseStopCh
<1>20. CASE StopWaitDone
  BY <1>20 DEF StopWaitDone
<1>21. CASE ShutdownReturn
  BY <1>21 DEF ShutdownReturn
<1>22. CASE ShutdownCancel
  BY <1>22 DEF ShutdownCancel
<1>23. CASE UNCHANGED vars
  BY <1>23 DEF vars
<1> QED BY <1>1, <1>2, <1>3, <1>4, <1>5, <1>6, <1>7, <1>8, <1>9, <1>9a, <1>10, <1>11,
           <1>12, <1>13, <1>14, <1>15, <1>16, <1>17, <1>18, <1>19, <1>20,
           <1>21, <1>22, <1>23
        DEF Next, WriterNext, WorkerNext, ExportNext, FlushNext, StopNext

\* The inductive invariant holds of every state the goroutines of batch.go reach.
THEOREM InvariantHolds == Spec => []InductiveInv
<1>1. Init => InductiveInv
  BY InitInv
<1>2. InductiveInv /\ [Next]_vars => InductiveInv'
  BY NextInv
<1> QED BY <1>1, <1>2, PTL DEF Spec

-----------------------------------------------------------------------------
(* The properties of BatchItemProcessor that TLC checks on small instances. *)

\* Type correctness of the processor's state.
THEOREM TypeCorrect == Spec => []TypeOK
<1>1. InductiveInv => TypeOK
  BY DEF InductiveInv
<1> QED BY <1>1, InvariantHolds, PTL

\* Nothing the channel took is lost, duplicated or reordered on its way through
\* processQueue, drainQueue and exportItems.
THEOREM NothingLostOrReordered == Spec => []ExactlyOnceInOrder
<1>1. InductiveInv => ExactlyOnceInOrder
  BY DEF InductiveInv
<1> QED BY <1>1, InvariantHolds, PTL

\* A Shutdown that succeeds has exported everything, the items that late writers
\* sent until the close of the channel included.
THEOREM ShutdownLosesNothing == Spec => []ShutdownFlushes
<1>1. InductiveInv => ShutdownFlushes
  <2> SUFFICES ASSUME InductiveInv, shutdown = "flushed"
               PROVE  exported = accepted
    BY DEF ShutdownFlushes
  <2>1. pc[Worker] = "done"
    BY DEF InductiveInv, StopInv
  <2>2. batch = <<>> /\ hand = <<>> /\ queue = <<>>
    BY <2>1 DEF InductiveInv, WorkerInv, TypeOK
  <2>3. exported \o <<>> \o <<>> \o <<>> = exported
    BY ConcatEmptySeq DEF InductiveInv, TypeOK
  <2> QED BY <2>2, <2>3 DEF InductiveInv, ExactlyOnceInOrder
<1> QED BY <1>1, InvariantHolds, PTL

\* ExportItems calls never overlap, and each gets between one item and
\* MaxExportBatchSize items.
THEOREM ExportsAreSerialAndBounded ==
    Spec => [](BatchBounded /\ ExporterCalledAlone)
<1>1. InductiveInv => BatchBounded /\ ExporterCalledAlone
  BY DEF InductiveInv
<1> QED BY <1>1, InvariantHolds, PTL

\* The receive from timer.C in processQueue can always proceed.
THEOREM TimerReceiveReady == Spec => []TimerNeverBlocks
<1>1. InductiveInv => TimerNeverBlocks
  BY DEF InductiveInv, TimerInv, WorkerInv, TimerNeverBlocks, TypeOK
<1> QED BY <1>1, InvariantHolds, PTL

-----------------------------------------------------------------------------
(* The processor implements the abstract buffer's safety.                  *)

\* The exported items and the batch are the first accepted items.
LEMMA PrefixOfConcat ==
    ASSUME NEW S, NEW a \in Seq(S), NEW b \in Seq(S), NEW c \in Seq(S),
           NEW d \in Seq(S), b # <<>>,
           NEW e, e = a \o b \o c \o d
    PROVE  /\ SubSeq(e, 1, Len(a) + Len(b)) = a \o b
           /\ Len(a) + Len(b) <= Len(e)
           /\ Len(a) \in Nat
           /\ Len(b) \in Nat \ {0}
<1>1. /\ a \o b \in Seq(S) /\ Len(a \o b) = Len(a) + Len(b)
      /\ c \o d \in Seq(S) /\ Len(c \o d) \in Nat
  BY ConcatProperties, LenProperties
<1>2. Len(a) \in Nat /\ Len(b) \in Nat \ {0}
  BY LenProperties, EmptySeq
<1>3. a \o b \o c \o d = (a \o b) \o (c \o d)
  BY <1>1, ConcatAssociative, SMTT(30)
<1>4. 1 \in 1 .. Len(a \o b) /\ Len(a \o b) \in 1 .. Len(a \o b)
  BY <1>1, <1>2
<1>5. SubSeq((a \o b) \o (c \o d), 1, Len(a \o b)) = SubSeq(a \o b, 1, Len(a \o b))
  BY <1>1, <1>4, SubSeqOfConcat1
<1>6. SubSeq(a \o b, 1, Len(a \o b)) = a \o b
  BY <1>1, SubSeqFull
<1>7. Len((a \o b) \o (c \o d)) = Len(a \o b) + Len(c \o d)
  BY <1>1, ConcatProperties
<1> QED BY <1>1, <1>2, <1>3, <1>5, <1>6, <1>7

\* Every step of the processor is a step of the buffer or changes nothing it sees.
LEMMA StepSimulation ==
    InductiveInv /\ [Next]_vars => [Buffer!BufferNext]_Buffer!bufferVars
<1> SUFFICES ASSUME InductiveInv, [Next]_vars
             PROVE  [Buffer!BufferNext]_Buffer!bufferVars
  OBVIOUS
<1> USE DEF Buffer!BufferNext, Buffer!bufferVars, QueueClosed
<1>1. ASSUME NEW i \in Items, WriteAccept(i) PROVE Buffer!Accept
  BY <1>1 DEF WriteAccept, Buffer!Accept
<1>2. CASE DrainClose
  BY <1>2 DEF DrainClose, Buffer!Close
<1>3. ASSUME NEW p \in Procs, ExportReturn(p) PROVE Buffer!Export
  <2>1. batch # <<>> /\ Len(batch) <= MaxExportBatchSize
    BY <1>3 DEF ExportReturn, InductiveInv, ExporterCalledAlone, BatchBounded
  <2>p. /\ exported \in Seq(Items) /\ batch \in Seq(Items)
        /\ hand \in Seq(Items) /\ queue \in Seq(Items)
        /\ accepted = exported \o batch \o hand \o queue
    BY DEF InductiveInv, TypeOK, ExactlyOnceInOrder
  <2>2. /\ SubSeq(accepted, 1, Len(exported) + Len(batch)) = exported \o batch
        /\ Len(exported) + Len(batch) <= Len(accepted)
        /\ Len(batch) \in Nat \ {0}
    BY <2>1, <2>p, PrefixOfConcat
  <2>3. Len(batch) \in 1 .. MaxExportBatchSize
    BY <2>1, <2>2, ProcessorAssumption
  <2>4. exported' = exported \o batch /\ UNCHANGED <<accepted, mode>>
    BY <1>3 DEF ExportReturn
  <2> QED BY <2>2, <2>3, <2>4 DEF Buffer!Export
<1>4. CASE \/ \E i \in Items : WriteCheck(i) \/ WriteDrop(i)
           \/ SelectTimer \/ SelectStop \/ Receive \/ AppendToBatch
           \/ StopTimer \/ DrainDefault \/ DrainFinal
  BY <1>4 DEF WriteCheck, WriteDrop, SelectTimer, SelectStop, Receive,
              AppendToBatch, StopTimer, DrainDefault, DrainFinal, InductiveInv, WorkerInv
<1>5. CASE \E p \in Procs : ResetTimer(p) \/ SkipExport(p) \/ CallExporter(p)
  BY <1>5 DEF ResetTimer, SkipExport, CallExporter
<1>6. CASE FlushNext \/ StopNext \/ UNCHANGED vars
  BY <1>6 DEF FlushNext, FlushStart, FlushReturn, FlushCancel, StopNext,
              ShutdownStart, CloseStopCh, StopWaitDone, ShutdownReturn,
              ShutdownCancel, vars
<1> QED BY <1>1, <1>2, <1>3, <1>4, <1>5, <1>6
        DEF Next, WriterNext, WorkerNext, ExportNext

\* batch.go implements a first-in first-out buffer with bounded batches that
\* closes once; that the buffer is emptied in the end is for TLC.
THEOREM ImplementsBufferSafety == Spec => Buffer!BufferSafety
<1>1. Init => Buffer!BufferInit
  BY DEF Init, Buffer!BufferInit, QueueClosed
<1>2. InductiveInv /\ [Next]_vars => [Buffer!BufferNext]_Buffer!bufferVars
  BY StepSimulation
<1> QED BY <1>1, <1>2, InvariantHolds, PTL DEF Spec, Buffer!BufferSafety
=============================================================================
