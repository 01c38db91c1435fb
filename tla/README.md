# Verification of mempool-bridge

TLA+ models of [mempool-bridge](../src/README.md), model-checked with TLC, with
theorems about the core checked by TLAPS. The bridge copies transactions from
the mempools of *source* nodes to *target* nodes, in one of two modes: `p2p`
(devp2p connections) or `rpc` (polling `txpool_content`, sending with
`eth_sendRawTransaction`).

## 1. The system

| Part | Source (under `src/pkg/`) | State it keeps | Operations |
|---|---|---|---|
| Batch item processor | `processor/batch.go` | a bounded channel, the batch under formation with its mutex, a timer, `stopCh` | `Write`, worker (`processQueue`, `drainQueue`), `exportItems`, `ForceFlush`, `Shutdown` |
| P2P source | `bridge/source/p2p` | per peer two processors (normal, blob) and a client; one transaction cache for all peers | announcements and pushed transactions (client callbacks), export goroutines, reconnection loop |
| RPC source | `bridge/source/rpc/{coordinator,peer}.go` | per endpoint the map of seen hashes and `initialLoadComplete`; one `Sent` cache for all endpoints | poll, scan, first load, fetch, filter, forward, mark, clean-up, reconnection after a panic |
| Bridge | `bridge/bridge.go`, `source/cache/sent.go` | the sent cache (five minutes) | `broadcast`, start, stop |
| P2P target | `bridge/target/p2p` | map from node record to peer; per peer `ready` and the client | reconnection loop, client callbacks, `SendTransactionsToPeers` |
| RPC target | `bridge/target/rpc` | map from endpoint to peer | connection loop, `SendTransactionsToPeers`, jobs with a semaphore |
| Caches | `bridge/source/cache` | sets with expiry | get, set |
| Former polling peer | `source/rpc/polling_peer.go` | as the RPC source | used only by tests |
| Shell, configuration, metrics | `cmd`, `main.go`, `*/config.go`, `*/metrics.go` | none that matters | parsing, validation, counters |

How they interact:

```
 P2P source peer: callbacks -> Write -> processor -> export goroutine --\
                  pushed transactions ----------------------------------- > Bridge.broadcast
 RPC source peer: poll loop ---------------------------------------------/   (sent cache)
                                                                              |
                                       target coordinator.SendTransactionsToPeers
                                          | one goroutine per listed peer
                                       target peer.SendTransactions
```

Everything below the callbacks is called synchronously by the goroutine of the
source (an export goroutine, a callback of the client, or the poll loop), so
`broadcast` and `SendTransactionsToPeers` run concurrently with themselves.
Shared state: the caches, the map of target peers, the batch with its backing
array.

What is hard to test, and which property is about it, is the list `hazards` of
`PROJECT.json`. In short: writers racing a shutdown; a timer that is stopped and
reset by several goroutines; a batch whose array outlives the call it was passed
to; check-then-act on caches whose entries expire; a map ranged over while it is
written; peers that come and go during a send; requests that fail after the
state says they were made.

## 2. Modules

| Module | Models | Checked by |
|---|---|---|
| `ItemBuffer` | what a batch processor promises: a first-in first-out buffer, handed on in bounded batches, lossless when closed | property `ImplementsBuffer`, theorem `ImplementsBufferSafety` |
| `BatchItemProcessor` | `batch.go`, whole | `Batch.cfg`, `BatchItemProcessorProofs` |
| `PeerExport` | the exporter of a P2P source peer on top of `BatchItemProcessor` | `PeerExport*.cfg`, `PeerExportProofs` |
| `P2PSource` | P2P source: coordinator, peers with their callbacks, export goroutines and shared cache | `P2PSource*.cfg`, `P2PSourceProofs` |
| `Bridge` | `broadcast` and the sent cache | `Delivery.cfg`, `BridgeProofs` |
| `TargetP2P` | P2P target: coordinator and peers | `TargetP2P*.cfg`, `TargetP2PProofs` |
| `RPCSource` | RPC source: polling peers, shared `Sent` cache, coordinator | `RPCSource*.cfg`, `RPCSourceProofs` |
| `TargetRPC` | RPC target: coordinator and peers | `TargetRPC.cfg`, `TargetRPCProofs` |
| `Delivery` | `Bridge` and `RPCSource` composed: the handler of the source is `broadcast` | `Delivery.cfg`, `DeliveryProofs` |
| `MC...` | model values and symmetry of each module | |

The comment before an action names the code it stands for; `map` in
`PROJECT.json` gives the lines. Operators called "Variant" are plausible mistakes
in that code: each property of a passing run is violated when the definition
is exchanged for one of them (`mutants` in `PROJECT.json`).

### BatchItemProcessor

One process per `Write` call, the worker goroutine, one process per `ForceFlush`
call, and the goroutine of `Shutdown`. A step reaches from one synchronisation
point (channel, mutex, timer, `stopCh`, call of the exporter) to the next.

- `write[i]` separates the look at `stopCh` from the send, the window in
  which a shutdown can close the channel (`WriteDrop`, first disjunct: the
  recovered panic).
- `mode` is the loop the worker is in; in `drain` the channel is open, in `closed`
  it has been closed, in `final` its nil was received. That the drain finds the
  channel empty (`DrainDefault`) and that it closes it (`DrainClose`) are two steps:
  a late writer can send in between, and what it sent is received from the closed
  channel.
- `hand` is the item received and not yet appended: a flush can run in between.
- `armed` is the timer. With the timers of Go 1.23 (the module asks for 1.26)
  a timer that fired and was not received is still stopped by `Stop`, and only one
  that was received makes `Stop` return false; so the code
  `if !timer.Stop() { <-timer.C }` consumes an armed timer and blocks without one.
- The mutex is held over several steps only during `ExportItems`, so it is free when
  nobody is in `export`.
- `accepted` and `exported` are histories.

### PeerExport

`bvp.batch` is passed to the exporter as a slice, and `ExportNormalTransactions`
starts a goroutine that reads it later. `cells` is the backing array: it is never
reallocated, since its capacity is the batch size. A job (goroutine) has the batch
it was given, what it has read so far through the array, and whether its context is
still alive. `ForceFlush` has no caller in the program, so `Flushers = {}`.

### P2PSource

A process per node record, which is the loop of the coordinator with the `Peer` it
has at the time, and a pool of goroutines per record, each an export or the callback
of one message with transactions.

- `life` is where the loop of a record is, with a state for each wait of `Peer.Stop`:
  the normal processor, then the blob processor, then the client. `link` is the
  client's connection; `lost` lasts until the client is stopped, because the
  callback's send on `response` keeps the loss until the loop receives it.
- `queue[r]` holds the hashes in the two processors, channel and batch together: a
  processor is what `ItemBuffer` promises, which `BatchItemProcessor` is shown to
  implement. It still takes hashes while it is shut down, until it is found empty
  and closed (`Accepting`): a writer may have looked at `stopCh` before. What a
  goroutine reads through the shared batch array is the subject of `PeerExport` and
  left out here.
- A goroutine is at `normal` or `blob` while it looks its hashes up and asks the node,
  and at `process` and `set` while it goes through transactions: the look-up and the
  entry in the shared cache are two steps. The three loops of the code over received
  transactions (`OnTransactions` and the two exporters) are one here.
- An announced hash is looked up first (`Announce`) and written to its processor in a
  second step (`WriteHash`), which the queue or a shutdown may refuse (`WriteDropped`).
- The answer to a request is any set of what was asked for; none is also the failed
  request. It needs the connection the goroutine began with and the context it was
  given (`live`): `exportItems` cancels this context when it returns
  (`CancelContext`), which the code does as soon as the goroutine has started, so a request
  that succeeds has overtaken the cancel. The client is taken to honour its context.
  A processor exports nothing else before `exportItems` has returned (`Exporting`).
- An error of `client.Stop` is only logged. The record goes on to its next `Peer`, and
  pushed transactions may still come from the client that was not stopped
  (`lingering`); the hashes it announces go to closed processors.
- `fresh` and `passed` are histories; an entry that expires leaves both.

The status map (`life = "wait"`) and the type counters are left out.

### Bridge

`broadcast` loops over its transactions; the look-up and the mark are two steps,
as they are two calls of the cache. `SendReturn(c, D)` is the call of the target:
some target took the transactions `D`. An entry may expire at any time: its five
minutes run from the last look-up that found it, so in a model without
a clock any pause may be that long. `fresh`, `marks`, `forwarded`, `delivered` are
histories; `marks`, `forwarded` and `delivered` start afresh when an entry expires.

### RPCSource

A goroutine per endpoint; one step per transaction where the code visits the
shared cache per transaction. The answer of the endpoint is any set of
transactions, with or without a null in it (a null makes the loop panic: the
coordinator then makes a new peer). The fetches of one poll run concurrently in the
code but touch no shared state: their outcome is a set `F` of fetched
transactions. `filterTransaction` is `Passes`: a transaction with a recipient
outside `TransactionFilters.To` is dropped, a contract creation passes. (The `From`
list of the configuration is read nowhere.) Failed polls change nothing and have no
step. The status map of the coordinator says connected exactly when `pc # "down"`.

### Delivery

The goroutine of an endpoint is also the caller of `broadcast`, so `Callers` of
`Bridge` are `Peers` of `RPCSource`. `Delivery` extends `Bridge` and has an
instance of `RPCSource` with the variables that would clash renamed. The call of the
handler is a step of both, and so is its return: nil when all were duplicates,
otherwise whatever the targets reported; every other step belongs to one of them.
The two caches expire independently. `offered` is a history that no expiry resets.

### TargetP2P, TargetRPC

A goroutine per record or endpoint, and the calls of `SendTransactionsToPeers`.
The assignment of a map entry has a beginning and an end (the runtime marks the map
while it writes), so that a range loop can meet it: `RangeCrash`. In `TargetP2P`
two `Peer` objects per record are told apart, because a send may hold the
previous one. An error of `client.Stop` is only logged there too: `StopPeer` may leave
the connection as it is. In `TargetRPC` a listed peer is always ready and stays listed:
`ready` is cleared, and the disconnect channel served, only at the end of the root
context, which is `context.Background()`. A request of a job pushes its result
(`Answer`) while it still has its place in the semaphore, and gives the place back
afterwards (`Release`), which may be after its call has returned; the semaphore
is made by the job, so that nobody is left to notice.

## 3. What the runs check

Passing runs:

| Run | Bounds | Shows |
|---|---|---|
| `batch_processor` | 2 items, queue 1, batch 2, 1 flush | order and completeness, lossless shutdown, serial exports, timer; accepted items are exported, `Shutdown` returns, refinement of `ItemBuffer` |
| `peer_export_safety` | 4 items, queue 2, batch 2, symmetric | bounded batches; each export has one goroutine; a wrong read can only be a newer hash |
| `p2p_source_safety` | 1 record with 2 goroutines, 2 transactions (a normal one that passes the filter, a blob that does not), queue 2 | a transaction is handed on twice only by goroutines that overlap; the shared cache hides nothing nobody passed on |
| `p2p_source_liveness` | 1 record with 2 goroutines, 1 blob transaction, queue 1 | lost connections are replaced; what is announced is asked for again and again, until it has come |
| `delivery` | 2 endpoints, 1 transaction, clean-up above 0 hashes, symmetric | duplicates only from overlapping calls and bounded; every mark is forwarded; what the source takes for settled was offered to the targets |
| `target_p2p_safety` | 2 records, 1 sender, symmetric | steady peers are sent to; one connection per record |
| `target_p2p_liveness` | 1 record, 1 sender | lost peers are delisted, records reconnect, calls return |
| `rpc_source_safety` | 2 endpoints, 2 transactions, clean-up above 1 hash, symmetric | handed over once per map; recheck respected; marks have reasons |
| `rpc_source_liveness` | 1 endpoint, 3 transactions (passing, creation, filtered) | pooled transactions are settled |
| `target_rpc` | 2 endpoints, 2 transactions, 1 sender, concurrency 1 | results tell the truth; whole batch offered; calls return |

Why these bounds suffice for the interesting cases: with two items, a queue of one
and batches of two, the queue overflows, and a full batch, a timed-out one and
the rest of a drain occur; a flush contends with the worker at each step. Every
invariant of a passing run is also a theorem for every value of the constants
(section 5), so the runs can be small. With four items, in
`peer_export_safety`, the batch array is refilled while a goroutine reads it. Two
records, two endpoints and two of their transactions are what a steady and an
unsteady peer, or two peers that race, take. In the P2P source two goroutines are
what a race for the shared cache takes: the cache does not tell the goroutines of one peer
from those of two, and the theorems are about any number of records. Its queue of two
holds a batch of two; the queue of one of the liveness run is full as soon as something
waits in it. In `delivery` one transaction is what the two caches can
disagree about. The clean-up threshold is 0 or 1 instead of 10000 so that it is
passed. Named bounds in the modules: `Objects` in `TargetP2P` (a send ends before its
peer has been replaced twice), and `Goroutines` in `P2PSource` (exports and callbacks
under way at a time).

Deadlock is checked in `delivery` and in the runs of both sources. The processor
stops when it is shut down, the targets stop when the runtime ends the program:
those configurations say `CHECK_DEADLOCK FALSE`.

Violation runs, each of one statement the repository makes and its code does not keep
(quoted in `findings` of `PROJECT.json`): `peer_export_alias` (a late goroutine reads
the hashes of the next batch), `target_p2p_iteration` (the range over the map of
peers meets an assignment).

Further statements the code does not keep are written as properties and have no run
of their own. Put the property in place of those of the named configuration to get
the counterexample (`FailedPollIsRetried` as a `PROPERTY`, the others as `INVARIANT`):

| Property | Configuration | Where the statement is made | What the code does |
|---|---|---|---|
| `RequestsUnderLiveContext` | `PeerExportAlias` | `batch.go:66` | the context of an export is cancelled as soon as `ExportItems` returns, before its goroutine asks the peer |
| `ShutdownWaitsForItems` | `PeerExportAlias` | `batch.go:154` | `Shutdown` returns before the export goroutines have asked for their batches |
| `NoDuplicate` | `Delivery` | `bridge.go:53` | overlapping calls of `broadcast` both miss a transaction and both forward it |
| `MarkedIsDelivered` | `Delivery` | `sent.go:12` | the mark is set before the send and kept when the send fails |
| `ConnectedPeersAreSent` | `TargetP2PIteration` | `target/p2p/coordinator.go:193` | a connected peer without its status message is skipped, without an error |
| `OneBlobAtATime` | `P2PSourceLiveness` | `source/p2p/peer.go:80`, `:101` | the exporter returns when its goroutine has started, so the next blob is exported while the first is still asked for |
| `SeenOnceAcrossPeers` | `P2PSourceSafety` | `source/p2p/peer.go:141` | goroutines, of one peer or of two, that look a transaction up before either enters it both pass it on |
| `SkippedWasSent` | `RPCSourceSafety` | `source/rpc/peer.go:245` | the first load of one endpoint marks what another is just fetching, which then skips it as sent |
| `FailedPollIsRetried` | `RPCSourceLiveness` | `source/rpc/peer.go:138` | what the handler refused is in the seen map and is not offered again |
| `FirstPoolStaysHome` | `RPCSourceSafety` | `source/rpc/peer.go:364` | what the first poll finds marked is not entered in the seen map, and is forwarded once the mark has expired |

## 4. Fairness

Liveness is checked under `FairSpec`. Weak fairness: a goroutine that can run does
run. Strong fairness: a ready branch of a `select` is taken in the end (Go chooses at
random), and a mutex is granted in the end. Assumptions about the world, stated in
the comment before each `Fairness`: an exporter returns (it has a deadline; the real
ones return at once); a target or endpoint is reachable again and again
(`retry.Attempts(0)` retries for ever); a pool goes on listing a transaction; a
request ends. The last is *not* ensured by the code of the RPC target, whose
requests have no deadline. `P2PSource` assumes
that a node which stays connected announces what it has in its pool again and again,
and nothing about its answers: since `exportItems` cancels the context of a request as
soon as its goroutine has started, no request need ever succeed, and what is shown is
that the node is asked again. A processor that is being shut down and finds its queue
empty again and again closes it: only writers already past the check of `stopCh` can
still send, and they are few. For the calls of both targets one assumption is enough: while
some goroutine of the call can run, some goroutine of it does. No call of an interface, no disconnection, no status
message is ever forced.

## 5. Theorems

`BatchItemProcessorProofs` proves, for any set of items, any queue and batch size and
any `ForceFlush` calls, `TypeOK`, `ExactlyOnceInOrder`, `ShutdownFlushes`,
`BatchBounded`, `ExporterCalledAlone`, `TimerNeverBlocks`, and that every
step is one of `ItemBuffer` or a stutter. Assumption: `ProcessorAssumption` (positive
sizes, the worker is not a flush). The invariant is `InductiveInv`:

- `ShutdownFlushes` needs to know that the worker's end means an empty queue, hand
  and batch (`WorkerInv`: after the nil of the closed channel the queue is empty, not yet
  when the channel is closed), and that a flushed shutdown means the worker's end
  (`StopInv`).
- `BatchBounded` needs that the worker receives only with room in the batch
  (`RoomInv`): after an append that fills it the worker goes to export, and only an
  export, its own or a flush's, brings it back to a receive. This is where
  `==` in `drainQueue` turns out to be as good as `>=`.
- `TimerNeverBlocks` follows from `TimerInv`: while a batch is formed the timer is
  armed, because the worker takes it only on its way into `exportItems`.
- The order of items is a matter of four lemmas on sequences (`SendKeepsOrder`,
  `ReceiveKeepsOrder`, `BatchingKeepsOrder`, `ExportKeepsOrder`).

`PeerExportProofs` first proves `PeerSpec => Spec`: each step of the exporter on top
of the processor is a step of `BatchItemProcessor` or a stutter, so its invariant
holds here too. On it rest `PeerTypeOK`, `BatchBounded`, `EveryExportHasAJob` and
`WrongReadsAreNewer`, for any items, queue and batch size (assumption
`PeerExportAssumption`: no `ForceFlush`, and the empty cell is no item). What a
goroutine reads is not inductive by itself, since it depends on what lies in the array
when it comes to read; `PeerInv` adds

- `BatchInCells`: the present batch lies at the front of the array;
- `CellsAreNewer`: the n-th cell of a goroutine's slice holds its own n-th item, or
  one that was put there later, as the n-th item of a later batch or of the present
  one. An append writes at the end of the present batch, whose place in the order
  of acceptance is past every batch handed out before (`AppendCellInv`);
- `JobsInv`: batches handed out end where the exported items end, or at the end of the
  batch while its export runs.

Where the stages of the processor lie in the order of acceptance is the lemma `Stages`.

`BridgeProofs` proves, for any set of transactions and any finite set of callers,
`TypeOK`, `NoSequentialDuplicate`, `DuplicatesBounded` and
`MarkedIsForwarded`. The count of marks is not inductive by itself: `MarkInv` adds
the callers that have missed the transaction and not yet marked it; once it is
marked nobody misses it any more, so marks and such callers together never exceed
the callers there are.

`DeliveryProofs` proves that the composition implements each of its parts,
`DeliverySpec => Source!Spec` and `DeliverySpec => Spec`. Through the second the four
theorems of the bridge hold with the RPC source in front of it; through the first,
the composition has no behaviour that the theorems of `RPCSourceProofs` do not
cover. `SettledIsOffered` is about both, and so is its
invariant `JointInv`: the two program counters of a goroutine agree (`InStep`); a
transaction of a running call that is neither still to be looked up nor the one just
missed is on its way, collected by this call or skipped for a mark, and
a marked transaction is on its way by the bridge's `MarkedIsForwarded`
(`CallCovered`); a call offers what it has collected before it forgets it
(`CollectedInv`). Being on its way is stable (`StaysOnItsWay`), which is why an expiry in
either cache does no harm.

`P2PSourceProofs` proves `TypeOK`, `NoSequentialHandOver` and `KnownIsPassedOn`, for any records, goroutines, transactions, queue and batch sizes
(`P2PAssumption`: positive sizes, each goroutine belongs to a record).
`WorkInv` and `FreshInv` say what a goroutine holds at each of its places, and that what
it missed was not known when its loop began.

`RPCSourceProofs` proves `TypeOK`, `HandedOnce`, `KnownIsNotForwarded` and
`MarkHasReason`, for any endpoints, transactions, filter and size of the seen map.
`HandedOnce` needs that all a poll has in hand, from its scan to the
handler, is in the seen map, and so is all the handler ever got (`SeenInv`): what
a scan finds outside the map was therefore not handed over (`ScanInv`).
`MarkHasReason` needs that a peer in its marking loop has an answer of the handler for all
it still has to mark (`MarkInv`), and that a fate never goes back (`NoteMovesForward`).

`TargetP2PProofs` proves `TypeOK`, `SteadyPeersAreSent` and
`OneConnectionPerRecord`, for any records and senders, with the two objects per
record of the model. `ConnInv`
says, for each place of a record's goroutine, whether its peer is in the map and
what its connection can be; with `LinkInv` (the other object is not connected, a ready peer
has been connected) it gives `OneConnectionPerRecord`. `SteadyInv` ties a call to it: a
peer that stayed listed, connected and ready is one its goroutine waits on, and once the
call has passed it, a goroutine of the call holds exactly this object.

`TargetRPCProofs` proves `TypeOK`, `ErrorMeansNothingTaken` and `WholeBatchIsOffered`, for any endpoints and senders, any positive concurrency
and any finite set of transactions (`ConcurrencyAssumption`; a batch is a slice). The
heart is `JobOK`: a job has a request for each transaction of the batch, and its two
counters add up to the results it has received. From the counters, a job that has counted its whole batch has
collected every result (`DoneIsAllCollected`); `FailedInv` says that the group
has an error exactly when an ended job has had no success, while results of other
jobs still come in.

Each inductive invariant was checked by TLC on the instance of the corresponding
safety run before it was proved. Of the named bounds only `Objects` is in a theorem; the
bounds of the runs are not. No proof uses `SourceAssumption`: it says that the size of the
seen map is defined.

Only model-checked: all liveness properties, `ImplementsBuffer`'s fairness
included (TLAPS does not reach fairness or `ENABLED`), and every violation. That a
theorem of `RPCSourceProofs` holds of the composition is an inference from two
theorems and not a theorem itself: an instance of the proof module brings the
assumption of `RPCSource` along in a form that the provers do not discharge, so
`DeliveryProofs` proves again what it needs of the source's types
(`SourceTypePeer`).

## 6. Not modelled

- `polling_peer.go`: no caller but its tests.
- The shell, the configuration, metrics, status crons, log lines and the counters they
  print: nothing depends on them.
- `DuplicateCache`: started and stopped, never read.

- The order of the `Start` calls in `Bridge.Start`: what is broadcast before a
  target is listed is marked and lost, as after any send no target takes.
- The eviction of expired cache entries: a look-up checks the expiry itself. (The
  P2P coordinator never starts the eviction of its cache, which costs memory only.)
- Data races on plain fields (`ready` of a target peer): a read returns either value.

## 7. Plan

Done: the processor with its abstraction, the exporter, both sources, the
bridge, both targets, and the composition of the RPC source with the bridge; every
invariant the runs check is proved. Next, most important first:

1. The composition of `Bridge` with a target: which transactions a send that returned
   nil has delivered.
2. An abstract specification of a source (what it may hand over, and when) that both
   `P2PSource` and `RPCSource` implement.
