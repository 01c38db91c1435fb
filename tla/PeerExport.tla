----------------------------- MODULE PeerExport -----------------------------
(***************************************************************************)
(* The exporter of a P2P source peer (pkg/bridge/source/p2p/transaction.go)*)
(* on top of the batch processor.  ExportNormalTransactions and            *)
(* ExportBlobTransactions start a goroutine and return at once; the        *)
(* goroutine reads the batch later, through a slice that shares the        *)
(* backing array of bvp.batch, and asks the peer for the transactions with *)
(* the context that exportItems cancels when it returns.                   *)
(***************************************************************************)
EXTENDS BatchItemProcessor

CONSTANT None           \* a cell of the backing array never written

\* Nothing in the program calls ForceFlush on the processors of a peer.
ASSUME PeerExportAssumption == None \notin Items /\ Flushers = {}

VARIABLES cells,        \* the backing array of bvp.batch
          jobs          \* the goroutines started, in order

exportVars == <<vars, cells, jobs>>

Jobs == [given : Seq(Items),        \* history: the batch passed to ExportItems
         start : Nat,               \* history: items exported before it
         read  : Seq(Items \cup {None}),  \* what the goroutine has read
         live  : BOOLEAN,           \* its context is not cancelled
         phase : {"reading", "requested", "nothingNew"},
         requestLive : BOOLEAN]     \* history: live when it asked the peer

PeerTypeOK ==
    /\ cells \in [1 .. MaxExportBatchSize -> Items \cup {None}]
    /\ jobs \in Seq(Jobs)

PeerInit ==
    /\ Init
    /\ cells = [k \in 1 .. MaxExportBatchSize |-> None]
    /\ jobs = <<>>

-----------------------------------------------------------------------------
\* append never outgrows the array: its capacity is MaxExportBatchSize.
AppendCell ==
    /\ AppendToBatch
    /\ cells' = [cells EXCEPT ![Len(batch) + 1] = hand[1]]
    /\ UNCHANGED jobs

\* Variant: only the first item is handed over, whatever the batch size.
StartJobFirstOnly(p) ==
    /\ CallExporter(p)
    /\ jobs' = Append(jobs, [given |-> <<Head(batch)>>, start |-> Len(exported),
                             read |-> <<>>, live |-> TRUE, phase |-> "reading",
                             requestLive |-> FALSE])
    /\ UNCHANGED cells

\* ExportItems(ctx, bvp.batch): the slice, not a copy, goes to a new goroutine.
StartJob(p) ==
    /\ CallExporter(p)
    /\ jobs' = Append(jobs, [given |-> batch, start |-> Len(exported),
                             read |-> <<>>, live |-> TRUE, phase |-> "reading",
                             requestLive |-> FALSE])
    /\ UNCHANGED cells

\* exportItems returns: bvp.batch[:0] keeps the array, and the deferred cancel
\* ends the context the goroutine holds.
EndExport(p) ==
    /\ ExportReturn(p)
    /\ jobs' = [jobs EXCEPT ![Len(jobs)].live = FALSE]
    /\ UNCHANGED cells

\* Variant: the slice is read from its end.
JobReadBackwards(j) ==
    /\ jobs[j].phase = "reading"
    /\ Len(jobs[j].read) < Len(jobs[j].given)
    /\ jobs' = [jobs EXCEPT ![j].read =
                    Append(@, cells[Len(jobs[j].given) - Len(jobs[j].read)])]
    /\ UNCHANGED <<vars, cells>>

\* The goroutine copies the next hash out of the slice it was given.
JobRead(j) ==
    /\ jobs[j].phase = "reading"
    /\ Len(jobs[j].read) < Len(jobs[j].given)
    /\ jobs' = [jobs EXCEPT ![j].read =
                    Append(@, cells[Len(jobs[j].read) + 1])]
    /\ UNCHANGED <<vars, cells>>

\* It asks the peer for the hashes that the shared cache does not know, if any.
JobRequest(j) ==
    /\ jobs[j].phase = "reading"
    /\ Len(jobs[j].read) = Len(jobs[j].given)
    /\ \/ jobs' = [jobs EXCEPT ![j].phase = "requested",
                               ![j].requestLive = jobs[j].live]
       \/ jobs' = [jobs EXCEPT ![j].phase = "nothingNew"]
    /\ UNCHANGED <<vars, cells>>

-----------------------------------------------------------------------------
\* Everything else the processor does leaves the array and the goroutines alone.
ProcessorNext ==
    /\ \/ WriterNext \/ StopNext
       \/ SelectTimer \/ SelectStop \/ Receive \/ StopTimer
       \/ DrainDefault \/ DrainClose \/ DrainFinal
       \/ \E p \in Procs : ResetTimer(p) \/ SkipExport(p)
    /\ UNCHANGED <<cells, jobs>>

PeerNext ==
    \/ ProcessorNext
    \/ AppendCell
    \/ \E p \in Procs : StartJob(p) \/ EndExport(p)
    \/ \E j \in DOMAIN jobs : JobRead(j) \/ JobRequest(j)

PeerSpec == PeerInit /\ [][PeerNext]_exportVars

-----------------------------------------------------------------------------
(* What holds of the hand-over.                                            *)

\* Where the next batch starts, as far as the goroutines started so far tell.
HandedOver == IF jobs = <<>> THEN 0
              ELSE jobs[Len(jobs)].start + Len(jobs[Len(jobs)].given)

\* Every exported item was handed to exactly one goroutine, in order, and only
\* a batch whose ExportItems call still runs is handed over but not yet counted
\* as exported (exportItems with ExportNormalTransactions).
EveryExportHasAJob ==
    /\ \A j \in DOMAIN jobs : \A k \in DOMAIN jobs[j].given :
           jobs[j].given[k] = accepted[jobs[j].start + k]
    /\ \A j \in DOMAIN jobs :
           jobs[j].start = IF j = 1 THEN 0
                           ELSE jobs[j-1].start + Len(jobs[j-1].given)
    /\ HandedOver = Len(exported) + (IF MutexFree THEN 0 ELSE Len(batch))

\* The damage of sharing the array is bounded: in place of a hash it was given,
\* a goroutine can only read one accepted after its own batch, and only once the
\* worker has refilled that cell; it never reads an older hash or an empty cell.
WrongReadsAreNewer ==
    \A j \in DOMAIN jobs : \A k \in DOMAIN jobs[j].read :
        \/ jobs[j].read[k] = jobs[j].given[k]
        \/ \E q \in jobs[j].start + Len(jobs[j].given) + k
                      .. Len(exported) + Len(batch) :
               jobs[j].read[k] = accepted[q]

-----------------------------------------------------------------------------
(* What the exporter's contract says and the goroutines break.             *)

\* ExportItems "is called synchronously, so there is no concurrency safety
\* requirement": a goroutine asks for exactly the hashes of its batch.
JobReadsItsBatch ==
    \A j \in DOMAIN jobs : jobs[j].phase # "reading" =>
        jobs[j].read = jobs[j].given

\* "ExportTimeout specifies the maximum duration for exporting items": an export
\* that has not timed out is not cancelled, so the peer is asked under a live
\* context.
RequestsUnderLiveContext ==
    \A j \in DOMAIN jobs : jobs[j].phase = "requested" => jobs[j].requestLive

\* "Shutdown flushes the queue and waits until all items are processed": when it
\* returns without an error, no goroutine still has a batch to read and to ask the
\* peer for, whose connection is closed next.
ShutdownWaitsForItems ==
    shutdown = "flushed" => \A j \in DOMAIN jobs : jobs[j].phase # "reading"
=============================================================================
