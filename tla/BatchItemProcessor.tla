------------------------- MODULE BatchItemProcessor -------------------------
(***************************************************************************)
(* pkg/processor/batch.go: writers put items on a bounded channel without  *)
(* blocking; one worker goroutine moves them to a batch and hands full or  *)
(* timed-out batches to the exporter; ForceFlush calls the same export     *)
(* routine from other goroutines; Shutdown closes stopCh, and the worker   *)
(* then drains and closes the channel while late writers may still be      *)
(* between their check of stopCh and their send.                           *)
(*                                                                         *)
(* One process per Write call (each item is written once), the worker, one *)
(* process per ForceFlush call, and the goroutine Shutdown starts.         *)
(***************************************************************************)
EXTENDS Naturals, Sequences, FiniteSets

CONSTANTS Items,                \* the items written, one Write call each
          MaxQueueSize,         \* capacity of the channel
          MaxExportBatchSize,   \* length at which a batch is exported
          Worker,               \* the goroutine of NewBatchItemProcessor
          Flushers              \* the ForceFlush calls

ASSUME ProcessorAssumption ==
    /\ MaxQueueSize \in Nat \ {0}
    /\ MaxExportBatchSize \in Nat \ {0}
    /\ Worker \notin Flushers

VARIABLES
    write,      \* where each Write call is
    accepted,   \* history: the items the channel took, in order
    queue,      \* the channel
    hand,       \* the item the worker received and has not yet appended
    batch,      \* bvp.batch
    exported,   \* history: the items whose ExportItems call returned
    armed,      \* the timer runs, or has expired and was not received
    mode,       \* which loop of the worker goroutine runs
    pc,         \* where the worker and each ForceFlush goroutine are
    shutdown,   \* the one Shutdown call that stopOnce lets through
    stopper,    \* the goroutine that call starts
    abandoned   \* ForceFlush calls whose caller left on its context

vars == <<write, accepted, queue, hand, batch, exported, armed, mode, pc,
          shutdown, stopper, abandoned>>

Procs == {Worker} \cup Flushers

WriteStates == {"idle", "checked", "accepted", "dropped", "refused"}
WorkerStates == {"select", "append", "stopTimer", "reset", "lock", "export",
                 "drain", "close", "done"}
FlusherStates == {"idle", "reset", "lock", "export", "send", "done"}

TypeOK ==
    /\ write \in [Items -> WriteStates]
    /\ accepted \in Seq(Items)
    /\ queue \in Seq(Items)
    /\ hand \in Seq(Items)
    /\ batch \in Seq(Items)
    /\ exported \in Seq(Items)
    /\ armed \in BOOLEAN
    /\ mode \in {"process", "drain", "closed", "final"}
    /\ pc \in [Procs -> WorkerStates \cup FlusherStates]
    /\ shutdown \in {"idle", "running", "flushed", "cancelled"}
    /\ stopper \in {"idle", "closing", "waiting", "finished"}
    /\ abandoned \in SUBSET Flushers

-----------------------------------------------------------------------------
StopChClosed == stopper \in {"waiting", "finished"}
QueueClosed  == mode \in {"closed", "final"}

\* The mutex is taken for the length of an append and of an ExportItems call;
\* only the second takes more than one step.
MutexFree == \A p \in Procs : pc[p] # "export"

Goto(p, l) == pc' = [pc EXCEPT ![p] = l]

\* Where a caller of exportItems continues when it returns.
AfterExport(p) ==
    IF p # Worker THEN "send"
    ELSE CASE mode = "process" -> "select"
           [] mode = "final"   -> "done"
           [] OTHER            -> "drain"

Init ==
    /\ write = [i \in Items |-> "idle"]
    /\ accepted = <<>>
    /\ queue = <<>>
    /\ hand = <<>>
    /\ batch = <<>>
    /\ exported = <<>>
    /\ armed = TRUE
    /\ mode = "process"
    /\ pc = [p \in Procs |-> IF p = Worker THEN "select" ELSE "idle"]
    /\ shutdown = "idle"
    /\ stopper = "idle"
    /\ abandoned = {}

-----------------------------------------------------------------------------
(* Write: enqueueDrop looks at stopCh, and only then tries to send.        *)

WriteCheck(i) ==
    /\ write[i] = "idle"
    /\ write' = [write EXCEPT ![i] = IF StopChClosed THEN "refused"
                                                     ELSE "checked"]
    /\ UNCHANGED <<accepted, queue, hand, batch, exported, armed, mode, pc,
                   shutdown, stopper, abandoned>>

\* Variant: the channel is never closed for writers.
WriteAcceptWhenClosed(i) ==
    /\ write[i] = "checked"
    /\ Len(queue) < MaxQueueSize
    /\ queue' = Append(queue, i)
    /\ accepted' = Append(accepted, i)
    /\ write' = [write EXCEPT ![i] = "accepted"]
    /\ UNCHANGED <<hand, batch, exported, armed, mode, pc, shutdown, stopper,
                   abandoned>>

WriteAccept(i) ==
    /\ write[i] = "checked"
    /\ ~QueueClosed
    /\ Len(queue) < MaxQueueSize
    /\ queue' = Append(queue, i)
    /\ accepted' = Append(accepted, i)
    /\ write' = [write EXCEPT ![i] = "accepted"]
    /\ UNCHANGED <<hand, batch, exported, armed, mode, pc, shutdown, stopper,
                   abandoned>>

\* The channel is full (counted in dropped), or it was closed since the check:
\* the send panics and recoverSendOnClosedChan swallows the panic, uncounted.
WriteDrop(i) ==
    /\ write[i] = "checked"
    /\ \/ /\ QueueClosed
          /\ write' = [write EXCEPT ![i] = "refused"]
       \/ /\ ~QueueClosed
          /\ Len(queue) >= MaxQueueSize
          /\ write' = [write EXCEPT ![i] = "dropped"]
    /\ UNCHANGED <<accepted, queue, hand, batch, exported, armed, mode, pc,
                   shutdown, stopper, abandoned>>

-----------------------------------------------------------------------------
(* processQueue: the three branches of its select.                         *)

SelectTimer ==
    /\ pc[Worker] = "select"
    /\ armed
    /\ armed' = FALSE
    /\ Goto(Worker, "reset")
    /\ UNCHANGED <<write, accepted, queue, hand, batch, exported, mode,
                   shutdown, stopper, abandoned>>

\* Leaving processQueue runs its deferred timer.Stop.
SelectStop ==
    /\ pc[Worker] = "select"
    /\ StopChClosed
    /\ mode' = "drain"
    /\ armed' = FALSE
    /\ Goto(Worker, "drain")
    /\ UNCHANGED <<write, accepted, queue, hand, batch, exported, shutdown,
                   stopper, abandoned>>

\* Receiving from the channel, in processQueue and in drainQueue alike.
Receive ==
    /\ pc[Worker] \in {"select", "drain"}
    /\ queue # <<>>
    /\ hand' = <<Head(queue)>>
    /\ queue' = Tail(queue)
    /\ Goto(Worker, "append")
    /\ UNCHANGED <<write, accepted, batch, exported, armed, mode, shutdown,
                   stopper, abandoned>>

\* Variant: exports a batch one item too late.
ShouldExportLate(length) == length > MaxExportBatchSize

\* shouldExport compares with >= in processQueue and with == in drainQueue.
ShouldExport(length) ==
    IF mode = "process" THEN length >= MaxExportBatchSize
                        ELSE length = MaxExportBatchSize

AppendToBatch ==
    /\ pc[Worker] = "append"
    /\ MutexFree
    /\ batch' = batch \o hand
    /\ hand' = <<>>
    /\ Goto(Worker,
            CASE ~ShouldExport(Len(batch) + 1) /\ mode = "process" -> "select"
              [] ~ShouldExport(Len(batch) + 1) /\ mode # "process" -> "drain"
              [] ShouldExport(Len(batch) + 1) /\ mode = "process" -> "stopTimer"
              [] OTHER -> "reset")
    /\ UNCHANGED <<write, accepted, queue, exported, armed, mode, shutdown,
                   stopper, abandoned>>

\* if !timer.Stop() { <-timer.C }: either way an armed timer is consumed, and
\* without one the worker blocks here until another goroutine arms it.
StopTimer ==
    /\ pc[Worker] = "stopTimer"
    /\ armed
    /\ armed' = FALSE
    /\ Goto(Worker, "reset")
    /\ UNCHANGED <<write, accepted, queue, hand, batch, exported, mode,
                   shutdown, stopper, abandoned>>

-----------------------------------------------------------------------------
(* drainQueue: close the channel once it was found empty, and export what  *)
(* is left when a receive from the closed channel yields nil.              *)

\* The channel is empty, so the select takes its default.
DrainDefault ==
    /\ pc[Worker] = "drain"
    /\ mode = "drain"
    /\ queue = <<>>
    /\ Goto(Worker, "close")
    /\ UNCHANGED <<write, accepted, queue, hand, batch, exported, armed, mode,
                   shutdown, stopper, abandoned>>

\* close(bvp.queue): late writers may have filled the channel since, and what
\* they sent can still be received from the closed channel.
DrainClose ==
    /\ pc[Worker] = "close"
    /\ mode' = "closed"
    /\ Goto(Worker, "drain")
    /\ UNCHANGED <<write, accepted, queue, hand, batch, exported, armed,
                   shutdown, stopper, abandoned>>

\* Variants of the end of the drain: what late writers sent before the close is
\* not received; the nil of the closed channel is appended like an item; what is
\* left is not exported; the loop is not left.
DrainFinalLeavesLate ==
    /\ pc[Worker] = "drain"
    /\ mode = "closed"
    /\ mode' = "final"
    /\ Goto(Worker, "reset")
    /\ UNCHANGED <<write, accepted, queue, hand, batch, exported, armed,
                   shutdown, stopper, abandoned>>

DrainFinalAppendsNil ==
    /\ pc[Worker] = "drain"
    /\ mode = "closed"
    /\ queue = <<>>
    /\ hand' = <<"nil">>
    /\ Goto(Worker, "append")
    /\ UNCHANGED <<write, accepted, queue, batch, exported, armed, mode,
                   shutdown, stopper, abandoned>>

DrainFinalWithoutExport ==
    /\ pc[Worker] = "drain"
    /\ mode = "closed"
    /\ queue = <<>>
    /\ mode' = "final"
    /\ Goto(Worker, "done")
    /\ UNCHANGED <<write, accepted, queue, hand, batch, exported, armed,
                   shutdown, stopper, abandoned>>

DrainFinalWithoutReturn ==
    /\ pc[Worker] = "drain"
    /\ mode = "closed"
    /\ queue = <<>>
    /\ Goto(Worker, "reset")
    /\ UNCHANGED <<write, accepted, queue, hand, batch, exported, armed, mode,
                   shutdown, stopper, abandoned>>

DrainFinal ==
    /\ pc[Worker] = "drain"
    /\ mode = "closed"
    /\ queue = <<>>
    /\ mode' = "final"
    /\ Goto(Worker, "reset")
    /\ UNCHANGED <<write, accepted, queue, hand, batch, exported, armed,
                   shutdown, stopper, abandoned>>

-----------------------------------------------------------------------------
(* exportItems, called by the worker and by every ForceFlush.              *)

\* Variant: the timer is not reset.
ResetTimerForgotten(p) ==
    /\ pc[p] = "reset"
    /\ Goto(p, "lock")
    /\ UNCHANGED <<write, accepted, queue, hand, batch, exported, armed, mode,
                   shutdown, stopper, abandoned>>

ResetTimer(p) ==
    /\ pc[p] = "reset"
    /\ armed' = TRUE
    /\ Goto(p, "lock")
    /\ UNCHANGED <<write, accepted, queue, hand, batch, exported, mode,
                   shutdown, stopper, abandoned>>

\* The batch is empty: exportItems returns without calling the exporter.
SkipExport(p) ==
    /\ pc[p] = "lock"
    /\ MutexFree
    /\ batch = <<>>
    /\ Goto(p, AfterExport(p))
    /\ UNCHANGED <<write, accepted, queue, hand, batch, exported, armed, mode,
                   shutdown, stopper, abandoned>>

\* Variant: the exporter is called without the mutex.
CallExporterUnlocked(p) ==
    /\ pc[p] = "lock"
    /\ batch # <<>>
    /\ Goto(p, "export")
    /\ UNCHANGED <<write, accepted, queue, hand, batch, exported, armed, mode,
                   shutdown, stopper, abandoned>>

CallExporter(p) ==
    /\ pc[p] = "lock"
    /\ MutexFree
    /\ batch # <<>>
    /\ Goto(p, "export")
    /\ UNCHANGED <<write, accepted, queue, hand, batch, exported, armed, mode,
                   shutdown, stopper, abandoned>>

\* Variant: the batch is not emptied.
ExportReturnKeepsBatch(p) ==
    /\ pc[p] = "export"
    /\ exported' = exported \o batch
    /\ Goto(p, AfterExport(p))
    /\ UNCHANGED <<write, accepted, queue, hand, batch, armed, mode, shutdown,
                   stopper, abandoned>>

\* ExportItems returned, with an error or without: the batch starts afresh.
ExportReturn(p) ==
    /\ pc[p] = "export"
    /\ exported' = exported \o batch
    /\ batch' = <<>>
    /\ Goto(p, AfterExport(p))
    /\ UNCHANGED <<write, accepted, queue, hand, armed, mode, shutdown,
                   stopper, abandoned>>

-----------------------------------------------------------------------------
(* ForceFlush: a goroutine runs exportItems and sends the result on an     *)
(* unbuffered channel; the caller may leave first when its context ends.   *)

FlushStart(f) ==
    /\ pc[f] = "idle"
    /\ Goto(f, "reset")
    /\ UNCHANGED <<write, accepted, queue, hand, batch, exported, armed, mode,
                   shutdown, stopper, abandoned>>

FlushReturn(f) ==
    /\ pc[f] = "send"
    /\ f \notin abandoned
    /\ Goto(f, "done")
    /\ UNCHANGED <<write, accepted, queue, hand, batch, exported, armed, mode,
                   shutdown, stopper, abandoned>>

FlushCancel(f) ==
    /\ pc[f] \in {"reset", "lock", "export", "send"}
    /\ f \notin abandoned
    /\ abandoned' = abandoned \cup {f}
    /\ UNCHANGED <<write, accepted, queue, hand, batch, exported, armed, mode,
                   pc, shutdown, stopper>>

-----------------------------------------------------------------------------
(* Shutdown: stopOnce lets one call through, later calls do nothing.       *)

ShutdownStart ==
    /\ shutdown = "idle"
    /\ shutdown' = "running"
    /\ stopper' = "closing"
    /\ UNCHANGED <<write, accepted, queue, hand, batch, exported, armed, mode,
                   pc, abandoned>>

CloseStopCh ==
    /\ stopper = "closing"
    /\ stopper' = "waiting"
    /\ UNCHANGED <<write, accepted, queue, hand, batch, exported, armed, mode,
                   pc, shutdown, abandoned>>

\* stopWait.Wait returns, the exporter is shut down and wait is closed.
StopWaitDone ==
    /\ stopper = "waiting"
    /\ pc[Worker] = "done"
    /\ stopper' = "finished"
    /\ UNCHANGED <<write, accepted, queue, hand, batch, exported, armed, mode,
                   pc, shutdown, abandoned>>

ShutdownReturn ==
    /\ shutdown = "running"
    /\ stopper = "finished"
    /\ shutdown' = "flushed"
    /\ UNCHANGED <<write, accepted, queue, hand, batch, exported, armed, mode,
                   pc, stopper, abandoned>>

ShutdownCancel ==
    /\ shutdown = "running"
    /\ shutdown' = "cancelled"
    /\ UNCHANGED <<write, accepted, queue, hand, batch, exported, armed, mode,
                   pc, stopper, abandoned>>

-----------------------------------------------------------------------------
WriterNext  == \E i \in Items : WriteCheck(i) \/ WriteAccept(i) \/ WriteDrop(i)
WorkerNext  == SelectTimer \/ SelectStop \/ Receive \/ AppendToBatch
                 \/ StopTimer \/ DrainDefault \/ DrainClose \/ DrainFinal
ExportNext  == \E p \in Procs : ResetTimer(p) \/ SkipExport(p)
                                  \/ CallExporter(p) \/ ExportReturn(p)
FlushNext   == \E f \in Flushers : FlushStart(f) \/ FlushReturn(f)
                                     \/ FlushCancel(f)
StopNext    == ShutdownStart \/ CloseStopCh \/ StopWaitDone
                 \/ ShutdownReturn \/ ShutdownCancel

Next == WriterNext \/ WorkerNext \/ ExportNext \/ FlushNext \/ StopNext

Spec == Init /\ [][Next]_vars

(***************************************************************************)
(* Every goroutine that can run does run.  A branch of a select that is    *)
(* ready again and again is taken in the end (the choice is random), and a *)
(* mutex is granted in the end, hence the strong fairness.  ExportItems    *)
(* returns (it has a deadline).  Nothing forces a call of the API.         *)
(***************************************************************************)
Fairness ==
    /\ SF_vars(SelectTimer) /\ SF_vars(SelectStop) /\ SF_vars(Receive)
    /\ SF_vars(AppendToBatch)
    /\ WF_vars(StopTimer)
    /\ WF_vars(DrainDefault) /\ WF_vars(DrainClose) /\ WF_vars(DrainFinal)
    /\ \A p \in Procs : /\ WF_vars(ResetTimer(p))
                        /\ SF_vars(SkipExport(p) \/ CallExporter(p))
                        /\ WF_vars(ExportReturn(p))
    /\ WF_vars(CloseStopCh) /\ WF_vars(StopWaitDone) /\ WF_vars(ShutdownReturn)

FairSpec == Spec /\ Fairness

-----------------------------------------------------------------------------
(* Safety.                                                                 *)

\* Every item the channel took is in exactly one place on its way to the
\* exporter and none overtakes another, whatever the worker, the ForceFlush
\* goroutines, a shutdown and late writers do (enqueueDrop, processQueue,
\* drainQueue, exportItems).
ExactlyOnceInOrder == accepted = exported \o batch \o hand \o queue

\* A Shutdown that returns without an error has waited for every accepted item
\* to be exported, those a racing writer slipped in after stopCh was closed and
\* even between the last look at the empty channel and its close included, and
\* no write is accepted after it (Shutdown, drainQueue, enqueueDrop).
ShutdownFlushes == shutdown = "flushed" => exported = accepted

\* No batch handed to the exporter exceeds MaxExportBatchSize, although the
\* drain loop, which may take over a batch at any length, tests it with == and not
\* with >= (processQueue, drainQueue).
BatchBounded == Len(batch) <= MaxExportBatchSize

\* ExportItems is never called while another call of it runs, nor with an empty
\* batch: the exporter needs no locking of its own (exportItems).
ExporterCalledAlone ==
    \A p \in Procs : pc[p] = "export" =>
        /\ batch # <<>>
        /\ \A q \in Procs : pc[q] = "export" => q = p

\* The worker never waits on a timer that nobody will fire: whenever it is about
\* to stop the timer, the timer is armed (processQueue, exportItems).
TimerNeverBlocks == pc[Worker] = "stopTimer" => armed

-----------------------------------------------------------------------------
(* What the proofs need beyond the properties above.                       *)

\* Where the worker can be in each of its loops, and what it then knows.
WorkerInv ==
    /\ mode = "process" => pc[Worker] \in {"select", "append", "stopTimer",
                                            "reset", "lock", "export"}
    /\ mode = "drain" => pc[Worker] \in {"drain", "append", "close",
                                            "reset", "lock", "export"}
    /\ mode = "closed" => pc[Worker] \in {"drain", "append",
                                            "reset", "lock", "export"}
    /\ mode = "final" => pc[Worker] \in {"reset", "lock", "export", "done"}
    /\ hand # <<>> <=> pc[Worker] = "append"
    /\ Len(hand) <= 1
    /\ mode = "final" => queue = <<>>
    /\ pc[Worker] = "done" => batch = <<>>

\* Shutdown moves only forward: the drain follows stopCh, the end of the wait
\* follows the worker's end.
StopInv ==
    /\ shutdown = "idle" => stopper = "idle"
    /\ mode # "process" => StopChClosed
    /\ stopper = "finished" => pc[Worker] = "done"
    /\ shutdown = "flushed" => stopper = "finished"

\* Every receive leaves room for one more item in the batch.
RoomInv ==
    pc[Worker] \in {"select", "append", "drain", "close"} =>
        Len(batch) < MaxExportBatchSize

\* While the worker forms a batch the timer is armed: it takes the timer only on
\* its way into exportItems, which arms it first.
TimerInv == mode = "process" /\ pc[Worker] # "reset" => armed

FlusherInv == \A f \in Flushers : pc[f] \in FlusherStates

InductiveInv ==
    /\ TypeOK
    /\ ExactlyOnceInOrder
    /\ BatchBounded
    /\ ExporterCalledAlone
    /\ WorkerInv
    /\ StopInv
    /\ RoomInv
    /\ TimerInv
    /\ FlusherInv

-----------------------------------------------------------------------------
(* Liveness.                                                               *)

\* An accepted item is exported in the end, by a full batch, by the timer or by
\* the drain of a shutdown (processQueue, drainQueue).
AcceptedIsExported ==
    \A i \in Items :
        (write[i] = "accepted") ~> (\E k \in 1 .. Len(exported) : exported[k] = i)

\* A Shutdown call always comes back (Shutdown, drainQueue).
ShutdownTerminates == (shutdown = "running") ~> (shutdown # "running")

-----------------------------------------------------------------------------
(* The promise, and what the documentation says beyond it.                 *)

Buffer == INSTANCE ItemBuffer WITH MaxBatch <- MaxExportBatchSize,
                                   open <- ~QueueClosed

\* The processor is a first-in first-out buffer with bounded batches that hands
\* on everything it accepted (the whole of batch.go).
ImplementsBuffer == Buffer!BufferSpec
=============================================================================
