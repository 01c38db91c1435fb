----------------------------- MODULE RPCSource -----------------------------
(***************************************************************************)
(* pkg/bridge/source/rpc: one goroutine per endpoint polls txpool_content, *)
(* keeps a map of the hashes it has seen, fetches the new ones, passes     *)
(* them to the handler (Bridge.broadcast) and marks them in the Sent cache *)
(* all endpoints share.  The first poll of a connection only marks.  A     *)
(* panic ends the connection; the coordinator then makes a new Peer.       *)
(***************************************************************************)
EXTENDS Naturals, FiniteSets

CONSTANTS Peers,       \* the endpoints, with their goroutines
          Txs,         \* transactions, by hash
          Recipient,   \* the address each is sent to
          NoAddress,   \* the recipient of a contract creation
          FilterTo,    \* TransactionFilters.To
          MaxSeen      \* hashes kept in the map of a peer (10000)

ASSUME SourceAssumption == MaxSeen \in Nat /\ IsFiniteSet(Txs)

VARIABLES
    pc,          \* where the goroutine of each endpoint is
    todo,        \* what its present loop has still to visit
    picked,      \* what that loop has kept (allTxHashes, then newTxs)
    seen,        \* seenTxHashes
    loaded,      \* initialLoadComplete
    sent,        \* the unexpired keys of sharedCache.Sent
    handed,      \* history: passed to the handler since seen was last emptied
    known,       \* history: in the Sent cache since before the present checks
    firstPool,   \* history: the pool this connection found first
    fate         \* history: the furthest each transaction has come

histVars == <<handed, known, firstPool, fate>>
vars == <<pc, todo, picked, seen, loaded, sent, histVars>>

\* From the least to the furthest.
Fates == <<"none", "dropped", "refused", "populated", "forwarded">>
Rank(word) == CHOOSE n \in 1 .. 5 : Fates[n] = word

TypeOK ==
    /\ pc \in [Peers -> {"down", "poll", "scan", "scanNull", "populate",
                         "fetch", "filter", "handler", "mark"}]
    /\ todo \in [Peers -> SUBSET Txs]
    /\ picked \in [Peers -> SUBSET Txs]
    /\ seen \in [Peers -> SUBSET Txs]
    /\ loaded \in [Peers -> BOOLEAN]
    /\ sent \in SUBSET Txs
    /\ handed \in [Peers -> SUBSET Txs]
    /\ known \in [Peers -> SUBSET Txs]
    /\ firstPool \in [Peers -> SUBSET Txs]
    /\ fate \in [Txs -> {Fates[n] : n \in 1 .. 5}]

Init ==
    /\ pc = [p \in Peers |-> "down"]
    /\ todo = [p \in Peers |-> {}]
    /\ picked = [p \in Peers |-> {}]
    /\ seen = [p \in Peers |-> {}]
    /\ loaded = [p \in Peers |-> FALSE]
    /\ sent = {}
    /\ handed = [p \in Peers |-> {}]
    /\ known = [p \in Peers |-> {}]
    /\ firstPool = [p \in Peers |-> {}]
    /\ fate = [t \in Txs |-> "none"]

Goto(p, l) == pc' = [pc EXCEPT ![p] = l]

\* pollTxPool returns to pollLoop, and what it collected is gone.
Return(p) ==
    /\ Goto(p, "poll")
    /\ todo' = [todo EXCEPT ![p] = {}]
    /\ picked' = [picked EXCEPT ![p] = {}]
    /\ known' = [known EXCEPT ![p] = {}]

\* filterTransaction: only a recipient outside the list rejects.
Passes(t) == FilterTo = {} \/ Recipient[t] \in FilterTo \cup {NoAddress}

Note(T, word) ==
    fate' = [t \in Txs |-> IF t \in T /\ Rank(fate[t]) < Rank(word)
                           THEN word ELSE fate[t]]

-----------------------------------------------------------------------------
(* The connection.                                                         *)

\* NewPeer and Start, at first and after each RetryInterval.
Connect(p) ==
    /\ pc[p] = "down"
    /\ Goto(p, "poll")
    /\ seen' = [seen EXCEPT ![p] = {}]
    /\ loaded' = [loaded EXCEPT ![p] = FALSE]
    /\ handed' = [handed EXCEPT ![p] = {}]
    /\ firstPool' = [firstPool EXCEPT ![p] = {}]
    /\ UNCHANGED <<todo, picked, sent, known, fate>>

\* The loop meets the null: tx.Hash() panics, Start recovers and reports it, and
\* the coordinator stops the peer.
Panic(p) ==
    /\ pc[p] = "scanNull"
    /\ Goto(p, "down")
    /\ todo' = [todo EXCEPT ![p] = {}]
    /\ picked' = [picked EXCEPT ![p] = {}]
    /\ UNCHANGED <<seen, loaded, sent, histVars>>

-----------------------------------------------------------------------------
(* pollTxPool.                                                             *)

\* The endpoint answers with its pool, or with one in which a transaction is null.
\* (If it fails, nothing changes.)
Poll(p, pool, answer) ==
    /\ pc[p] = "poll"
    /\ Goto(p, answer)
    /\ todo' = [todo EXCEPT ![p] = pool]
    /\ picked' = [picked EXCEPT ![p] = {}]
    /\ firstPool' = IF loaded[p] THEN firstPool
                                 ELSE [firstPool EXCEPT ![p] = pool]
    /\ UNCHANGED <<seen, loaded, sent, handed, known, fate>>

\* Variant: the map is not looked up.
IsNewToCache(p, t) == t \notin sent

IsNew(p, t) == t \notin sent /\ t \notin seen[p]

\* isNewTransaction: what is in the Sent cache is not entered in the map.
Scan(p, t) ==
    /\ pc[p] \in {"scan", "scanNull"}
    /\ t \in todo[p]
    /\ todo' = [todo EXCEPT ![p] = @ \ {t}]
    /\ IF IsNew(p, t)
       THEN /\ seen' = [seen EXCEPT ![p] = @ \cup {t}]
            /\ picked' = [picked EXCEPT ![p] = @ \cup {t}]
       ELSE UNCHANGED <<seen, picked>>
    /\ UNCHANGED <<pc, loaded, sent, histVars>>

\* Variant: the first poll returns without populating the cache.
ScanEndIgnoresFirst(p) ==
    /\ pc[p] = "scan"
    /\ todo[p] = {}
    /\ loaded' = [loaded EXCEPT ![p] = TRUE]
    /\ IF picked[p] = {} \/ ~loaded[p]
       THEN Return(p)
       ELSE /\ Goto(p, "fetch")
            /\ todo' = [todo EXCEPT ![p] = picked[p]]
            /\ UNCHANGED <<picked, known>>
    /\ UNCHANGED <<seen, sent, handed, firstPool, fate>>

\* The first poll that is answered only populates the cache.
ScanEnd(p) ==
    /\ pc[p] = "scan"
    /\ todo[p] = {}
    /\ loaded' = [loaded EXCEPT ![p] = TRUE]
    /\ IF picked[p] = {}
       THEN Return(p)
       ELSE /\ Goto(p, IF loaded[p] THEN "fetch" ELSE "populate")
            /\ todo' = [todo EXCEPT ![p] = picked[p]]
            /\ UNCHANGED <<picked, known>>
    /\ UNCHANGED <<seen, sent, handed, firstPool, fate>>

Populate(p, t) ==
    /\ pc[p] = "populate"
    /\ t \in todo[p]
    /\ sent' = sent \cup {t}
    /\ todo' = [todo EXCEPT ![p] = @ \ {t}]
    /\ Note({t}, "populated")
    /\ UNCHANGED <<pc, picked, seen, loaded, handed, known, firstPool>>

PopulateEnd(p) ==
    /\ pc[p] = "populate"
    /\ todo[p] = {}
    /\ Return(p)
    /\ UNCHANGED <<seen, loaded, sent, handed, firstPool, fate>>

\* eth_getTransactionByHash succeeded for F; the others failed, or are pending
\* no more.  None of these requests touches the state of the peer.
Fetch(p, F) ==
    /\ pc[p] = "fetch"
    /\ IF F = {}
       THEN Return(p)
       ELSE /\ Goto(p, "filter")
            /\ todo' = [todo EXCEPT ![p] = F]
            /\ picked' = [picked EXCEPT ![p] = {}]
            /\ known' = [known EXCEPT ![p] = sent]
    /\ Note(picked[p] \ F, "dropped")
    /\ UNCHANGED <<seen, loaded, sent, handed, firstPool>>

-----------------------------------------------------------------------------
(* processNewTransactions.                                                 *)

\* Variant: the Sent cache is not looked up again.
FilterUnchecked(p, t) ==
    /\ pc[p] = "filter"
    /\ t \in todo[p]
    /\ todo' = [todo EXCEPT ![p] = @ \ {t}]
    /\ picked' = IF ~Passes(t) THEN picked
                 ELSE [picked EXCEPT ![p] = @ \cup {t}]
    /\ UNCHANGED <<pc, seen, loaded, sent, histVars>>

Filter(p, t) ==
    /\ pc[p] = "filter"
    /\ t \in todo[p]
    /\ todo' = [todo EXCEPT ![p] = @ \ {t}]
    /\ picked' = IF t \in sent \/ ~Passes(t) THEN picked
                 ELSE [picked EXCEPT ![p] = @ \cup {t}]
    /\ UNCHANGED <<pc, seen, loaded, sent, handed, known, firstPool, fate>>

\* cleanupSeenHashes, the last act of processNewTransactions.
CleanUp(p) ==
    LET full == Cardinality(seen[p]) > MaxSeen IN
      /\ seen' = IF full THEN [seen EXCEPT ![p] = {}] ELSE seen
      /\ handed' = IF full THEN [handed EXCEPT ![p] = {}] ELSE handed
      /\ Return(p)

FilterEnd(p) ==
    /\ pc[p] = "filter"
    /\ todo[p] = {}
    /\ picked[p] = {}
    /\ CleanUp(p)
    /\ UNCHANGED <<loaded, sent, firstPool, fate>>

CallHandler(p) ==
    /\ pc[p] = "filter"
    /\ todo[p] = {}
    /\ picked[p] # {}
    /\ Goto(p, "handler")
    /\ handed' = [handed EXCEPT ![p] = @ \cup picked[p]]
    /\ UNCHANGED <<todo, picked, seen, loaded, sent, known, firstPool, fate>>

HandlerOk(p) ==
    /\ pc[p] = "handler"
    /\ Goto(p, "mark")
    /\ todo' = [todo EXCEPT ![p] = picked[p]]
    /\ Note(picked[p], "forwarded")
    /\ UNCHANGED <<picked, seen, loaded, sent, handed, known, firstPool>>

\* Variant: the error is ignored, and the transactions are marked.
HandlerErrorIgnored(p) ==
    /\ pc[p] = "handler"
    /\ Goto(p, "mark")
    /\ todo' = [todo EXCEPT ![p] = picked[p]]
    /\ Note(picked[p], "refused")
    /\ UNCHANGED <<picked, seen, loaded, sent, handed, known, firstPool>>

\* The error is returned to pollLoop: no mark and no clean-up.
HandlerError(p) ==
    /\ pc[p] = "handler"
    /\ Return(p)
    /\ Note(picked[p], "refused")
    /\ UNCHANGED <<seen, loaded, sent, handed, firstPool>>

\* Variant: the entry is made under an empty hash.
MarkEmptyHash(p, t) ==
    /\ pc[p] = "mark"
    /\ t \in todo[p]
    /\ sent' = sent \cup {""}
    /\ todo' = [todo EXCEPT ![p] = @ \ {t}]
    /\ UNCHANGED <<pc, picked, seen, loaded, histVars>>

Mark(p, t) ==
    /\ pc[p] = "mark"
    /\ t \in todo[p]
    /\ sent' = sent \cup {t}
    /\ todo' = [todo EXCEPT ![p] = @ \ {t}]
    /\ UNCHANGED <<pc, picked, seen, loaded, histVars>>

MarkEnd(p) ==
    /\ pc[p] = "mark"
    /\ todo[p] = {}
    /\ CleanUp(p)
    /\ UNCHANGED <<loaded, sent, firstPool, fate>>

\* Five minutes after it was set or last found, an entry of the Sent cache is gone.
Expire(t) ==
    /\ t \in sent
    /\ sent' = sent \ {t}
    /\ known' = [p \in Peers |-> known[p] \ {t}]
    /\ UNCHANGED <<pc, todo, picked, seen, loaded, handed, firstPool, fate>>

-----------------------------------------------------------------------------
PeerNext(p) ==
    \/ Connect(p) \/ Panic(p) \/ ScanEnd(p) \/ PopulateEnd(p)
    \/ FilterEnd(p) \/ CallHandler(p) \/ HandlerOk(p) \/ HandlerError(p)
    \/ MarkEnd(p)
    \/ \E pool \in SUBSET Txs, answer \in {"scan", "scanNull"} :
          Poll(p, pool, answer)
    \/ \E F \in SUBSET picked[p] : Fetch(p, F)
    \/ \E t \in Txs : Scan(p, t) \/ Populate(p, t) \/ Filter(p, t) \/ Mark(p, t)

Next == (\E p \in Peers : PeerNext(p)) \/ (\E t \in Txs : Expire(t))

Spec == Init /\ [][Next]_vars

(***************************************************************************)
(* The goroutines run, and the world around them is good again and again:  *)
(* every pool lists every transaction in an answer without nulls, and not  *)
(* every request or call of the handler fails.                             *)
(***************************************************************************)
Fairness ==
    \A p \in Peers :
        /\ WF_vars(Connect(p)) /\ WF_vars(Panic(p) \/ ScanEnd(p)) /\ WF_vars(PopulateEnd(p))
        /\ WF_vars(FilterEnd(p)) /\ WF_vars(CallHandler(p)) /\ WF_vars(MarkEnd(p))
        /\ WF_vars(HandlerOk(p) \/ HandlerError(p)) /\ SF_vars(HandlerOk(p))
        /\ \A t \in Txs :
              /\ SF_vars(\E pool \in SUBSET Txs : t \in pool /\ Poll(p, pool, "scan"))
              /\ WF_vars(Scan(p, t))
              /\ WF_vars(Populate(p, t)) /\ WF_vars(Filter(p, t))
              /\ WF_vars(Mark(p, t))
              /\ SF_vars(\E F \in SUBSET picked[p] : t \in F /\ Fetch(p, F))
        /\ WF_vars(\E F \in SUBSET picked[p] : Fetch(p, F))

FairSpec == Spec /\ Fairness

-----------------------------------------------------------------------------
\* Until its map is emptied a peer passes a transaction to the handler at most
\* once, although the Sent entry expires and failed calls leave no mark: what it
\* is about to pass it has not passed before (isNewTransaction).
HandedOnce ==
    \A p \in Peers : pc[p] \in {"fetch", "filter"} =>
        (todo[p] \cup picked[p]) \cap handed[p] = {}

\* A peer does not forward what the others marked before its checks began, unless
\* the mark expired: peers duplicate each other only when they overlap
\* (processNewTransactions).
KnownIsNotForwarded ==
    \A p \in Peers : pc[p] \in {"filter", "handler"} => picked[p] \cap known[p] = {}

\* A mark in the Sent cache was set for a reason: the handler took the transaction
\* or it lay in the first pool of some connection, never because a fetch or a
\* call of the handler failed (populateCacheOnly, processNewTransactions).
MarkHasReason ==
    \A t \in sent : fate[t] \in {"populated", "forwarded"}

\* A transaction that pools keep listing is dealt with in the end: forwarded,
\* marked by a first poll, or tried and failed, or kept out by the filter; it
\* does not get stuck between the seen map and the Sent cache, through panics,
\* expiries and clean-ups (pollTxPool, isNewTransaction).
PooledIsSettled == \A t \in Txs : <>(fate[t] # "none" \/ ~Passes(t))

-----------------------------------------------------------------------------
\* "poll failed, will retry": what the handler refused is offered to it again, as
\* long as the pool lists it, until it is sent.
FailedPollIsRetried ==
    \A t \in Txs : (fate[t] = "refused") ~> (fate[t] \in {"populated", "forwarded"})

\* "transaction already sent to targets, skipping": what the check of
\* processNewTransactions is about to skip, the handler has taken before.
SkippedWasSent ==
    \A p \in Peers : pc[p] = "filter" =>
        \A t \in todo[p] \cap sent : fate[t] = "forwarded"

\* "initial pool load - marked hashes as seen, NOT sending to targets": as long as
\* a connection lasts, what it found in its first pool is not forwarded.
FirstPoolStaysHome ==
    \A p \in Peers : handed[p] \cap firstPool[p] = {}
=============================================================================
