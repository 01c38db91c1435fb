------------------------------ MODULE P2PSource ------------------------------
(***************************************************************************)
(* pkg/bridge/source/p2p: a goroutine per node record connects a Peer and  *)
(* replaces it when it is lost.  Announced hashes go to one of the two     *)
(* batch processors of the Peer, whose exports run in goroutines that ask  *)
(* the node for the transactions; pushed transactions come with a message. *)
(* What is not in the cache all records share is entered there, filtered   *)
(* and passed to the handler (Bridge.broadcast).                           *)
(*                                                                         *)
(* A processor appears here as what ItemBuffer promises: a queue from      *)
(* which it takes batches in order, and which its Shutdown empties.  A     *)
(* goroutine reads the batch it was given: what it reads instead when the  *)
(* processor has gone on to write the same array is PeerExport's subject.  *)
(***************************************************************************)
EXTENDS Naturals, Sequences, FiniteSets

CONSTANTS
    Records,             \* node records of the configuration
    Txs,                 \* transactions, by hash
    Blobs,               \* those announced with type 0x03
    Recipient,           \* the address each is sent to
    NoAddress,           \* the recipient of a contract creation
    FilterTo,            \* TransactionFilters.To
    Goroutines,          \* bound: exports and message callbacks under way
    Owner,               \* the record each goroutine works for
    MaxQueueSize,        \* what a processor holds at most
    MaxExportBatchSize   \* largest batch of normal transactions

ASSUME P2PAssumption ==
    /\ Owner \in [Goroutines -> Records]
    /\ MaxQueueSize \in Nat \ {0}
    /\ MaxExportBatchSize \in Nat \ {0}

VARIABLES
    life,      \* where the goroutine of each record is
    link,      \* the connection of its present client
    lingering, \* records with a former client that could not be stopped
    queue,     \* the hashes in its two processors
    announced, \* hashes its callback did not find in the cache and has yet to write
    pc,        \* where each is; an export begins at the kind of its processor
    live,      \* exports whose request can be answered: the client is connected, and
               \* exportItems has not returned and cancelled their context
    todo,      \* what its present loop has still to visit
    missed,    \* the transaction it looked up and did not find, if any
    picked,    \* what its loop has kept (hashes, then newTxs)
    known,     \* the unexpired keys of sharedCache.Transaction
    fresh,     \* history: known when its last loop began, and not expired since
    passed     \* history: passed to the handler since it was last entered there

connVars == <<life, link, lingering>>
hashVars == <<queue, announced>>
workVars == <<pc, todo, missed, picked, fresh>>
vars == <<connVars, hashVars, workVars, live, known, passed>>

Kinds == {"normal", "blob"}
Kind(t) == IF t \in Blobs THEN "blob" ELSE "normal"

TypeOK ==
    /\ life \in [Records -> {"new", "starting", "wait", "stopNormal",
                             "stopBlob", "stopClient", "sleep"}]
    /\ link \in [Records -> {"off", "up", "lost"}]
    /\ lingering \in SUBSET Records
    /\ queue \in [Records -> [Kinds -> Seq(Txs)]]
    /\ announced \in [Records -> SUBSET Txs]
    /\ pc \in [Goroutines -> {"idle", "process", "set"} \cup Kinds]
    /\ live \in SUBSET Goroutines
    /\ todo \in [Goroutines -> SUBSET Txs]
    /\ missed \in [Goroutines -> SUBSET Txs]
    /\ picked \in [Goroutines -> SUBSET Txs]
    /\ known \in SUBSET Txs
    /\ fresh \in [Goroutines -> SUBSET Txs]
    /\ passed \in SUBSET Txs

Init ==
    /\ life = [r \in Records |-> "new"]
    /\ link = [r \in Records |-> "off"]
    /\ lingering = {}
    /\ queue = [r \in Records |-> [k \in Kinds |-> <<>>]]
    /\ announced = [r \in Records |-> {}]
    /\ pc = [g \in Goroutines |-> "idle"]
    /\ live = {}
    /\ todo = [g \in Goroutines |-> {}]
    /\ missed = [g \in Goroutines |-> {}]
    /\ picked = [g \in Goroutines |-> {}]
    /\ known = {}
    /\ fresh = [g \in Goroutines |-> {}]
    /\ passed = {}

Goto(g, l) == pc' = [pc EXCEPT ![g] = l]

Of(r) == {g \in Goroutines : Owner[g] = r}

\* exportItems of the processor waits for a call of the exporter; when the goroutine
\* that call started is done or can get no answer any more, nothing depends on
\* when exportItems returns, and it counts as returned.
Exporting(r, k) == \E g \in Of(r) \cap live : pc[g] = k

\* filterTransaction: only a recipient outside the list rejects.
Passes(t) == FilterTo = {} \/ Recipient[t] \in FilterTo \cup {NoAddress}

-----------------------------------------------------------------------------
(* The goroutine of a record (Coordinator.Start) and its client.           *)

Step(r, from, to) ==
    /\ life[r] = from
    /\ life' = [life EXCEPT ![r] = to]
    /\ UNCHANGED <<workVars, known, passed>>

\* NewPeer fails on a record it cannot use: there is nothing to stop.
NewPeerFails(r) ==
    /\ Step(r, "new", "sleep")
    /\ UNCHANGED <<link, lingering, hashVars, live>>

\* NewPeer, and Peer.Start up to client.Start: two new processors, the callbacks.
\* What callbacks of the former Peer still write goes to its closed processors.
NewPeer(r) ==
    /\ Step(r, "new", "starting")
    /\ queue' = [queue EXCEPT ![r] = [k \in Kinds |-> <<>>]]
    /\ announced' = [announced EXCEPT ![r] = {}]
    /\ UNCHANGED <<link, lingering, live>>

LinkUp(r) ==
    /\ life[r] = "starting"
    /\ link[r] = "off"
    /\ link' = [link EXCEPT ![r] = "up"]
    /\ UNCHANGED <<life, lingering, hashVars, workVars, live, known, passed>>

\* OnDisconnect: its send on response waits for the goroutine of the record.
OnDisconnect(r) ==
    /\ link[r] = "up"
    /\ link' = [link EXCEPT ![r] = "lost"]
    /\ live' = live \ Of(r)
    /\ UNCHANGED <<life, lingering, hashVars, workVars, known, passed>>

\* The deferred function begins with Peer.Stop: the normal processor is closed.
\* (If a connection was made and lost before, its callback waits for ever.)
StartFails(r) ==
    /\ link[r] # "up"
    /\ Step(r, "starting", "stopNormal")
    /\ UNCHANGED <<link, lingering, hashVars, live>>

StartReturns(r) ==
    /\ link[r] # "off"
    /\ Step(r, "starting", "wait")
    /\ UNCHANGED <<link, lingering, hashVars, live>>

ReceiveDisconnect(r) ==
    /\ link[r] = "lost"
    /\ Step(r, "wait", "stopNormal")
    /\ UNCHANGED <<link, lingering, hashVars, live>>

\* Shutdown of the normal processor returns; then that of the blob processor begins.
StopNormal(r) ==
    /\ ~Exporting(r, "normal")
    /\ queue[r]["normal"] = <<>>
    /\ Step(r, "stopNormal", "stopBlob")
    /\ UNCHANGED <<link, lingering, hashVars, live>>

StopBlob(r) ==
    /\ ~Exporting(r, "blob")
    /\ queue[r]["blob"] = <<>>
    /\ Step(r, "stopBlob", "stopClient")
    /\ UNCHANGED <<link, lingering, hashVars, live>>

\* client.Stop.  Its error is only logged, and the record goes on to a new Peer
\* while callbacks of the former client may still come.
StopClient(r) ==
    /\ Step(r, "stopClient", "sleep")
    /\ link' = [link EXCEPT ![r] = "off"]
    /\ live' = live \ Of(r)
    /\ \/ UNCHANGED lingering
       \/ lingering' = lingering \cup {r}
    /\ UNCHANGED hashVars

\* Variant: the goroutine ends instead of retrying.
RetryGivesUp(r) ==
    /\ Step(r, "sleep", "ended")
    /\ UNCHANGED <<link, lingering, hashVars, live>>

\* RetryInterval is over.
Retry(r) ==
    /\ Step(r, "sleep", "new")
    /\ UNCHANGED <<link, lingering, hashVars, live>>

-----------------------------------------------------------------------------
(* Announcements, and the exports of the processors.                       *)

\* A processor takes hashes until its Shutdown has found the queue empty: a writer
\* may have passed its check before stopCh was closed.
Accepting(r, k) ==
    life[r] \in {"starting", "wait", "stopNormal"} \cup
                (IF k = "blob" THEN {"stopBlob"} ELSE {})

\* processTransaction looks an announced hash up; if it is known there is nothing to
\* do.  The callback of a message may still run after the connection is lost.
Announce(r, t) ==
    /\ link[r] # "off"
    /\ t \notin known
    /\ announced' = [announced EXCEPT ![r] = @ \cup {t}]
    /\ UNCHANGED <<connVars, queue, workVars, live, known, passed>>

\* Variant: the hash is entered in the cache when it is queued.
WriteHashRemembered(r, t) ==
    /\ t \in announced[r]
    /\ announced' = [announced EXCEPT ![r] = @ \ {t}]
    /\ Accepting(r, Kind(t))
    /\ Len(queue[r][Kind(t)]) < MaxQueueSize
    /\ queue' = [queue EXCEPT ![r][Kind(t)] = Append(@, t)]
    /\ known' = known \cup {t}
    /\ UNCHANGED <<connVars, workVars, live, passed>>

\* Then it writes the hash to the processor of its kind, in the cache or not by now.
WriteHash(r, t) ==
    /\ t \in announced[r]
    /\ announced' = [announced EXCEPT ![r] = @ \ {t}]
    /\ Accepting(r, Kind(t))
    /\ Len(queue[r][Kind(t)]) < MaxQueueSize
    /\ queue' = [queue EXCEPT ![r][Kind(t)] = Append(@, t)]
    /\ UNCHANGED <<connVars, workVars, live, known, passed>>

\* The processor does not take the hash: its queue is full, or it is closed, or it
\* is being shut down and the writer looks at stopCh too late.
WriteDropped(r, t) ==
    /\ t \in announced[r]
    /\ announced' = [announced EXCEPT ![r] = @ \ {t}]
    /\ \/ ~Accepting(r, Kind(t))
       \/ Len(queue[r][Kind(t)]) >= MaxQueueSize
       \/ life[r] = (IF Kind(t) = "blob" THEN "stopBlob" ELSE "stopNormal")
    /\ UNCHANGED <<connVars, queue, workVars, live, known, passed>>

BatchLimit(k) == IF k = "blob" THEN 1 ELSE MaxExportBatchSize

\* A processor exports, one batch at a time: ExportNormalTransactions or
\* ExportBlobTransactions starts a goroutine with the batch and the context that
\* exportItems has made for this call.
Export(g, k, n) ==
    LET r == Owner[g] IN
      /\ pc[g] = "idle"
      /\ ~Exporting(r, k)
      /\ n <= Len(queue[r][k])
      /\ Goto(g, k)
      /\ todo' = [todo EXCEPT ![g] = {queue[r][k][i] : i \in 1 .. n}]
      /\ queue' = [queue EXCEPT ![r][k] = SubSeq(@, n + 1, Len(@))]
      /\ live' = IF link[r] = "up" THEN live \cup {g} ELSE live
      /\ UNCHANGED <<connVars, announced, missed, picked, known, fresh, passed>>

\* exportItems returns, and its deferred cancel ends the context of the goroutine.
CancelContext(g) ==
    /\ g \in live
    /\ live' = live \ {g}
    /\ UNCHANGED <<connVars, hashVars, workVars, known, passed>>

\* The goroutine leaves out the hashes that have become known.
CheckHash(g, t) ==
    /\ pc[g] \in Kinds
    /\ t \in todo[g]
    /\ todo' = [todo EXCEPT ![g] = @ \ {t}]
    /\ picked' = IF t \in known THEN picked
                 ELSE [picked EXCEPT ![g] = @ \cup {t}]
    /\ UNCHANGED <<connVars, hashVars, pc, live, missed, known, fresh,
                   passed>>

Finish(g) ==
    /\ Goto(g, "idle")
    /\ todo' = [todo EXCEPT ![g] = {}]
    /\ picked' = [picked EXCEPT ![g] = {}]
    /\ fresh' = [fresh EXCEPT ![g] = {}]
    /\ live' = live \ {g}

\* GetPooledTransactions brought R, while the client was connected and the context
\* not cancelled; or nothing was left to ask for, it failed, or the answer was empty.
Answer(g, R) ==
    /\ pc[g] \in Kinds
    /\ todo[g] = {}
    /\ IF R = {}
       THEN Finish(g)
       ELSE /\ g \in live
            /\ Goto(g, "process")
            /\ todo' = [todo EXCEPT ![g] = R]
            /\ picked' = [picked EXCEPT ![g] = {}]
            /\ fresh' = [fresh EXCEPT ![g] = known]
            /\ live' = live \ {g}
    /\ UNCHANGED <<connVars, hashVars, missed, known, passed>>

-----------------------------------------------------------------------------
(* What an answer and a message with transactions have in common.          *)

\* OnTransactions.
Push(g, txs) ==
    /\ pc[g] = "idle"
    /\ link[Owner[g]] # "off" \/ Owner[g] \in lingering
    /\ txs # {}
    /\ Goto(g, "process")
    /\ todo' = [todo EXCEPT ![g] = txs]
    /\ fresh' = [fresh EXCEPT ![g] = known]
    /\ UNCHANGED <<connVars, hashVars, live, missed, picked, known, passed>>

LookHit(g, t) ==
    /\ pc[g] = "process"
    /\ t \in todo[g]
    /\ t \in known
    /\ todo' = [todo EXCEPT ![g] = @ \ {t}]
    /\ UNCHANGED <<connVars, hashVars, pc, live, missed, picked, known,
                   fresh, passed>>

\* Variant: the cache is not looked up again.
LookMissUnchecked(g, t) ==
    /\ pc[g] = "process"
    /\ t \in todo[g]
    /\ Goto(g, "set")
    /\ todo' = [todo EXCEPT ![g] = @ \ {t}]
    /\ missed' = [missed EXCEPT ![g] = {t}]
    /\ UNCHANGED <<connVars, hashVars, live, picked, known, fresh, passed>>

LookMiss(g, t) ==
    /\ pc[g] = "process"
    /\ t \in todo[g]
    /\ t \notin known
    /\ Goto(g, "set")
    /\ todo' = [todo EXCEPT ![g] = @ \ {t}]
    /\ missed' = [missed EXCEPT ![g] = {t}]
    /\ UNCHANGED <<connVars, hashVars, live, picked, known, fresh, passed>>

\* Variant: the entry is made under an empty hash.
SetEmptyHash(g, t) ==
    /\ pc[g] = "set"
    /\ t \in missed[g]
    /\ Goto(g, "process")
    /\ missed' = [missed EXCEPT ![g] = {}]
    /\ known' = known \cup {""}
    /\ picked' = IF ~Passes(t) THEN picked
                 ELSE [picked EXCEPT ![g] = @ \cup {t}]
    /\ passed' = IF t \in known THEN passed ELSE passed \ {t}
    /\ UNCHANGED <<connVars, hashVars, live, todo, fresh>>

\* sharedCache.Transaction.Set, then the filter.
Set(g, t) ==
    /\ pc[g] = "set"
    /\ t \in missed[g]
    /\ Goto(g, "process")
    /\ missed' = [missed EXCEPT ![g] = {}]
    /\ known' = known \cup {t}
    /\ picked' = IF ~Passes(t) THEN picked
                 ELSE [picked EXCEPT ![g] = @ \cup {t}]
    /\ passed' = IF t \in known THEN passed ELSE passed \ {t}
    /\ UNCHANGED <<connVars, hashVars, live, todo, fresh>>

\* The handler is called if anything is left; its error is logged, not returned.
Handle(g) ==
    /\ pc[g] = "process"
    /\ todo[g] = {}
    /\ passed' = passed \cup picked[g]
    /\ Finish(g)
    /\ UNCHANGED <<connVars, hashVars, missed, known>>

\* Five minutes after it was set or last found, an entry is found no more.
Expire(t) ==
    /\ t \in known
    /\ known' = known \ {t}
    /\ fresh' = [g \in Goroutines |-> fresh[g] \ {t}]
    /\ passed' = passed \ {t}
    /\ UNCHANGED <<connVars, hashVars, pc, live, todo, missed, picked>>

-----------------------------------------------------------------------------
ConnNext(r) ==
    \/ NewPeerFails(r) \/ NewPeer(r) \/ LinkUp(r) \/ OnDisconnect(r)
    \/ StartFails(r) \/ StartReturns(r) \/ ReceiveDisconnect(r)
    \/ StopNormal(r) \/ StopBlob(r) \/ StopClient(r) \/ Retry(r)

WriteNext(r, t) == WriteHash(r, t) \/ WriteDropped(r, t)

ExportNext(g) == \E k \in Kinds : \E n \in 1 .. BatchLimit(k) : Export(g, k, n)

\* A step of an export or a callback that is under way.
WorkNext(g) ==
    \/ \E t \in Txs : CheckHash(g, t) \/ LookHit(g, t) \/ LookMiss(g, t) \/ Set(g, t)
    \/ \E R \in SUBSET picked[g] : Answer(g, R)
    \/ CancelContext(g)
    \/ Handle(g)

Next ==
    \/ \E r \in Records :
          ConnNext(r) \/ \E t \in Txs : Announce(r, t) \/ WriteNext(r, t)
    \/ \E g \in Goroutines :
          ExportNext(g) \/ WorkNext(g) \/ \E txs \in SUBSET Txs : Push(g, txs)
    \/ \E t \in Txs : Expire(t)

Spec == Init /\ [][Next]_vars

-----------------------------------------------------------------------------
\* A goroutine does not pass on what was in the cache when its answer or its
\* message came, unless the entry expired meanwhile: records hand a transaction on
\* twice only when they overlap (OnTransactions, ExportNormalTransactions,
\* ExportBlobTransactions).
NoSequentialHandOver == \A g \in Goroutines : picked[g] \cap fresh[g] = {}

\* The cache never hides a transaction nobody passed on: it was passed to the
\* handler, the filter rejects it, or a goroutine that runs still has it, whatever
\* becomes of the connection it came from (Set before the handler is called).
KnownIsPassedOn ==
    \A t \in known :
        \/ t \in passed \/ ~Passes(t)
        \/ \E g \in Goroutines : pc[g] \in {"process", "set"} /\ t \in picked[g]

-----------------------------------------------------------------------------
(***************************************************************************)
(* The goroutines run.  A processor with items exports, and one that is    *)
(* shut down and finds its queue empty again and again closes it: late     *)
(* writers are few.  A node that stays connected goes on announcing what   *)
(* it has in its pool; no record is unusable for ever.  Nothing forces a   *)
(* connection, its loss, a message or an expiry, and no request need ever  *)
(* succeed.                                                                *)
(***************************************************************************)
Fairness ==
    /\ \A r \in Records :
          /\ SF_vars(NewPeer(r)) /\ SF_vars(StopNormal(r)) /\ SF_vars(StopBlob(r))
          /\ WF_vars(StartFails(r) \/ StartReturns(r) \/ ReceiveDisconnect(r)
                       \/ StopClient(r) \/ Retry(r))
          /\ \A k \in Kinds :
                SF_vars(\E g \in Of(r) : \E n \in 1 .. BatchLimit(k) : Export(g, k, n))
          /\ \A t \in Txs : /\ SF_vars(link[r] = "up" /\ Announce(r, t))
                             /\ WF_vars(WriteNext(r, t))
    /\ \A g \in Goroutines : WF_vars(WorkNext(g))

FairSpec == Spec /\ Fairness

\* A connection that is lost is replaced: both processors come to their end and
\* the next Peer is started, however late the loss is noticed (Coordinator.Start,
\* Peer.Stop).
LostIsReplaced ==
    \A r \in Records : (link[r] = "lost") ~> (link[r] = "off" /\ life[r] = "starting")

\* A goroutine of the record is about to ask the node for it.
AskedFor(r, t) ==
    \E g \in Of(r) : pc[g] \in Kinds /\ todo[g] = {} /\ t \in picked[g]


-----------------------------------------------------------------------------
\* "blob transactions are processed one at a time" by each peer.
OneBlobAtATime ==
    \A r \in Records :
        Cardinality({g \in Of(r) : pc[g] = "blob"}) <= 1

\* "only process transactions we haven't seen before across all peers": no two
\* goroutines carry the same transaction to the handler.
SeenOnceAcrossPeers ==
    \A g, h \in Goroutines : g # h => picked[g] \cap picked[h] \cap known = {}
=============================================================================
