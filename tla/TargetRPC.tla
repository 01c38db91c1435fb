----------------------------- MODULE TargetRPC -----------------------------
(***************************************************************************)
(* pkg/bridge/target/rpc: a goroutine per endpoint connects once and lists *)
(* the peer; SendTransactionsToPeers ranges over the listed peers and      *)
(* starts one job per peer, which starts one request per transaction, at   *)
(* most SendConcurrency of them at a time, and collects their results.     *)
(*                                                                         *)
(* The context of the program is never cancelled (cmd/root.go), so the     *)
(* goroutine that waits for its end never runs: a listed peer stays listed *)
(* and ready.                                                              *)
(***************************************************************************)
EXTENDS Naturals, FiniteSets

CONSTANTS Endpoints,        \* RPC endpoints of the configuration
          Txs,              \* transactions
          Senders,          \* goroutines in SendTransactionsToPeers
          SendConcurrency   \* requests a job may have under way

\* A batch is a slice, so what it can hold is finite.
ASSUME ConcurrencyAssumption == SendConcurrency \in Nat \ {0} /\ IsFiniteSet(Txs)

VARIABLES
    conn,      \* where the goroutine of each endpoint is
    listed,    \* the endpoints with a peer in the map
    writing,   \* the endpoints whose map entry is being assigned
    alive,     \* the endpoints that answer
    pc,        \* where each sender is
    batch,     \* the transactions of its call
    todo,      \* the endpoints its range loop has still to visit
    started,   \* the endpoints it started a job for
    request,   \* the request of each of its jobs for each transaction
    held,      \* the requests with a place in the semaphore of their job
    success,   \* successCount of each of its jobs
    failure,   \* errorCount of each of its jobs
    failed,    \* some job of its errgroup has returned an error
    steady,    \* history: the endpoints listed when its call began
    crashed    \* the Go runtime stopped the program

connVars == <<conn, listed, writing>>
jobVars  == <<request, held, success, failure>>
sendVars == <<pc, batch, todo, started, failed, steady>>
vars == <<connVars, alive, sendVars, jobVars, crashed>>

Counts == [Senders -> [Endpoints -> Nat]]

TypeOK ==
    /\ conn \in [Endpoints -> {"dial", "store", "stored", "wait", "clear",
                               "cleared", "sleep"}]
    /\ listed \in SUBSET Endpoints
    /\ writing \in SUBSET Endpoints
    /\ alive \in SUBSET Endpoints
    /\ pc \in [Senders -> {"idle", "range", "join", "returned"}]
    /\ batch \in [Senders -> SUBSET Txs]
    /\ todo \in [Senders -> SUBSET Endpoints]
    /\ started \in [Senders -> SUBSET Endpoints]
    /\ request \in [Senders -> [Endpoints -> [Txs ->
           {"none", "waiting", "sending", "taken", "refused", "collected"}]]]
    /\ held \in [Senders -> [Endpoints -> SUBSET Txs]]
    /\ success \in Counts
    /\ failure \in Counts
    /\ failed \in [Senders -> BOOLEAN]
    /\ steady \in [Senders -> SUBSET Endpoints]
    /\ crashed \in BOOLEAN

Init ==
    /\ conn = [e \in Endpoints |-> "dial"]
    /\ listed = {}
    /\ writing = {}
    /\ alive = Endpoints
    /\ pc = [s \in Senders |-> "idle"]
    /\ batch = [s \in Senders |-> {}]
    /\ todo = [s \in Senders |-> {}]
    /\ started = [s \in Senders |-> {}]
    /\ request = [s \in Senders |-> [e \in Endpoints |-> [t \in Txs |-> "none"]]]
    /\ held = [s \in Senders |-> [e \in Endpoints |-> {}]]
    /\ success = [s \in Senders |-> [e \in Endpoints |-> 0]]
    /\ failure = [s \in Senders |-> [e \in Endpoints |-> 0]]
    /\ failed = [s \in Senders |-> FALSE]
    /\ steady = [s \in Senders |-> {}]
    /\ crashed = FALSE

\* The program runs, and this step does not end it.
Running == ~crashed /\ UNCHANGED crashed

Step(e, from, to) ==
    /\ Running
    /\ conn[e] = from
    /\ conn' = [conn EXCEPT ![e] = to]
    /\ UNCHANGED <<alive, sendVars, jobVars>>

MutexFree == writing = {}

-----------------------------------------------------------------------------
(* The goroutine of an endpoint.                                           *)

\* DialContext and ChainID.
StartReturns(e) ==
    /\ Step(e, "dial", "store")
    /\ e \in alive
    /\ UNCHANGED <<listed, writing>>

StartFails(e) ==
    /\ Step(e, "dial", "clear")
    /\ UNCHANGED <<listed, writing>>

BeginStore(e) ==
    /\ MutexFree
    /\ Step(e, "store", "stored")
    /\ writing' = {e}
    /\ UNCHANGED listed

EndStore(e) ==
    /\ Step(e, "stored", "wait")
    /\ listed' = listed \cup {e}
    /\ writing' = {}

BeginClear(e) ==
    /\ MutexFree
    /\ Step(e, "clear", "cleared")
    /\ writing' = {e}
    /\ UNCHANGED listed

\* The entry is nil again, the client closed, and RetryInterval begins.
EndClear(e) ==
    /\ Step(e, "cleared", "sleep")
    /\ listed' = listed \ {e}
    /\ writing' = {}

\* Variant: the goroutine ends instead of retrying.
RetryGivesUp(e) ==
    /\ Step(e, "sleep", "ended")
    /\ UNCHANGED <<listed, writing>>

Retry(e) ==
    /\ Step(e, "sleep", "dial")
    /\ UNCHANGED <<listed, writing>>

\* The endpoint itself stops answering, or answers again.
Outage(e) ==
    /\ Running
    /\ alive' = IF e \in alive THEN alive \ {e} ELSE alive \cup {e}
    /\ UNCHANGED <<connVars, sendVars, jobVars>>

-----------------------------------------------------------------------------
(* SendTransactionsToPeers.                                                *)

SendCall(s, txs) ==
    /\ Running
    /\ pc[s] = "idle"
    /\ txs # {}
    /\ MutexFree
    /\ pc' = [pc EXCEPT ![s] = "range"]
    /\ batch' = [batch EXCEPT ![s] = txs]
    /\ todo' = [todo EXCEPT ![s] = Endpoints]
    /\ steady' = [steady EXCEPT ![s] = listed]
    /\ UNCHANGED <<connVars, alive, started, failed, jobVars>>

\* A listed peer gets a job, which starts its requests at once.
RangeNext(s, e) ==
    /\ Running
    /\ pc[s] = "range"
    /\ e \in todo[s]
    /\ writing = {}
    /\ todo' = [todo EXCEPT ![s] = @ \ {e}]
    /\ IF e \in listed
       THEN /\ started' = [started EXCEPT ![s] = @ \cup {e}]
            /\ request' = [request EXCEPT ![s][e] =
                   [t \in Txs |-> IF t \in batch[s] THEN "waiting" ELSE "none"]]
       ELSE UNCHANGED <<started, request>>
    /\ UNCHANGED <<connVars, alive, pc, batch, failed, steady, held, success, failure>>

\* fatal error: concurrent map iteration and map write.
RangeCrash(s) ==
    /\ ~crashed
    /\ pc[s] = "range"
    /\ writing # {}
    /\ crashed' = TRUE
    /\ UNCHANGED <<connVars, alive, sendVars, jobVars>>

\* Variant: the loop is left before its end.
RangeEndEarly(s) ==
    /\ Running
    /\ pc[s] = "range"
    /\ pc' = [pc EXCEPT ![s] = "join"]
    /\ UNCHANGED <<connVars, alive, batch, todo, started, failed, steady, jobVars>>

RangeEnd(s) ==
    /\ Running
    /\ pc[s] = "range"
    /\ todo[s] = {}
    /\ pc' = [pc EXCEPT ![s] = "join"]
    /\ UNCHANGED <<connVars, alive, batch, todo, started, failed, steady, jobVars>>

-----------------------------------------------------------------------------
(* Peer.SendTransactions.                                                  *)

\* sem <- struct{}{} and the call of eth_sendRawTransaction.
Acquire(s, e, t) ==
    /\ Running
    /\ request[s][e][t] = "waiting"
    /\ Cardinality(held[s][e]) < SendConcurrency
    /\ held' = [held EXCEPT ![s][e] = @ \cup {t}]
    /\ request' = [request EXCEPT ![s][e][t] = "sending"]
    /\ UNCHANGED <<connVars, alive, sendVars, success, failure>>

\* Variant: a request that fails pushes no result.
AnswerOnlySuccess(s, e, t) ==
    /\ Running
    /\ request[s][e][t] = "sending"
    /\ \/ /\ e \in alive
          /\ request' = [request EXCEPT ![s][e][t] = "taken"]
       \/ request' = [request EXCEPT ![s][e][t] = "none"]
    /\ UNCHANGED <<connVars, alive, sendVars, held, success, failure>>

\* The endpoint takes the transaction, or knew it already; or it rejects it, or
\* the request fails.  The result is pushed; the request still has its place.
Answer(s, e, t) ==
    /\ Running
    /\ request[s][e][t] = "sending"
    /\ \/ /\ e \in alive
          /\ request' = [request EXCEPT ![s][e][t] = "taken"]
       \/ request' = [request EXCEPT ![s][e][t] = "refused"]
    /\ UNCHANGED <<connVars, alive, sendVars, held, success, failure>>

\* The deferred release, when the goroutine of the request ends: its result may
\* have been received before, and the call may even have returned.
Release(s, e, t) ==
    /\ Running
    /\ t \in held[s][e]
    /\ request[s][e][t] # "sending"
    /\ held' = [held EXCEPT ![s][e] = @ \ {t}]
    /\ UNCHANGED <<connVars, alive, sendVars, request, success, failure>>

\* Variant: one failure is enough.
JobErrorAny(successes, failures) == failures > 0

\* The error of a job: all of its transactions failed.
JobError(successes, failures) == failures > 0 /\ successes = 0

\* A result is received and counted; the last one ends the job, and the errgroup
\* keeps its error.
Collect(s, e, t) ==
    /\ Running
    /\ request[s][e][t] \in {"taken", "refused"}
    /\ LET took       == IF request[s][e][t] = "taken" THEN 1 ELSE 0
           successes  == success[s][e] + took
           failures   == failure[s][e] + 1 - took
           last       == successes + failures = Cardinality(batch[s])
       IN /\ success' = [success EXCEPT ![s][e] = successes]
          /\ failure' = [failure EXCEPT ![s][e] = failures]
          /\ failed' = [failed EXCEPT ![s] =
                            @ \/ (last /\ JobError(successes, failures))]
    /\ request' = [request EXCEPT ![s][e][t] = "collected"]
    /\ UNCHANGED <<connVars, alive, pc, batch, todo, started, steady, held>>

JobDone(s, e) == success[s][e] + failure[s][e] = Cardinality(batch[s])

\* errg.Wait: every job has ended.
SendReturn(s) ==
    /\ Running
    /\ pc[s] = "join"
    /\ \A e \in started[s] : JobDone(s, e)
    /\ pc' = [pc EXCEPT ![s] = "returned"]
    /\ UNCHANGED <<connVars, alive, batch, todo, started, failed, steady, jobVars>>

\* The caller has the result, and the locals of the call are gone, the semaphores
\* of its jobs too: a release that comes later is of no consequence.
Forget(s) ==
    /\ Running
    /\ pc[s] = "returned"
    /\ pc' = [pc EXCEPT ![s] = "idle"]
    /\ batch' = [batch EXCEPT ![s] = {}]
    /\ started' = [started EXCEPT ![s] = {}]
    /\ failed' = [failed EXCEPT ![s] = FALSE]
    /\ steady' = [steady EXCEPT ![s] = {}]
    /\ request' = [request EXCEPT ![s] =
                       [e \in Endpoints |-> [t \in Txs |-> "none"]]]
    /\ held' = [held EXCEPT ![s] = [e \in Endpoints |-> {}]]
    /\ success' = [success EXCEPT ![s] = [e \in Endpoints |-> 0]]
    /\ failure' = [failure EXCEPT ![s] = [e \in Endpoints |-> 0]]
    /\ UNCHANGED <<connVars, alive, todo>>

-----------------------------------------------------------------------------
ConnNext(e) ==
    \/ StartReturns(e) \/ StartFails(e) \/ BeginStore(e) \/ EndStore(e)
    \/ BeginClear(e) \/ EndClear(e) \/ Retry(e) \/ Outage(e)

\* A step of one of the goroutines of a call that has begun.
CallStep(s) ==
    \/ RangeEnd(s) \/ SendReturn(s) \/ Forget(s)
    \/ \E e \in Endpoints :
          \/ RangeNext(s, e)
          \/ \E t \in Txs : \/ Acquire(s, e, t) \/ Answer(s, e, t)
                            \/ Release(s, e, t) \/ Collect(s, e, t)

SendNext(s) ==
    \/ \E txs \in SUBSET Txs : SendCall(s, txs)
    \/ RangeCrash(s)
    \/ CallStep(s)

Next == (\E e \in Endpoints : ConnNext(e)) \/ (\E s \in Senders : SendNext(s))

Spec == Init /\ [][Next]_vars

(***************************************************************************)
(* A write to the map ends, and a call goes on while one of its goroutines *)
(* can run; this asks that every request ends, which the code itself does  *)
(* not ensure: its context has no deadline.  Nothing is assumed about the  *)
(* endpoints or about the order in which the goroutines of a call run.     *)
(***************************************************************************)
Fairness ==
    /\ \A e \in Endpoints : WF_vars(EndStore(e) \/ EndClear(e))
    /\ \A s \in Senders : SF_vars(CallStep(s))

FairSpec == Spec /\ Fairness

-----------------------------------------------------------------------------
\* What a call returns is true of every endpoint at once: an error means that some
\* endpoint it tried took no transaction of the batch, and nil that each took at
\* least one, in whatever order the requests of all jobs end
\* (SendTransactionsToPeers, SendTransactions).
ErrorMeansNothingTaken ==
    \A s \in Senders : pc[s] = "returned" =>
        (failed[s] <=> \E e \in started[s] : success[s][e] = 0)

\* A call offers its whole batch to every endpoint that was listed when it began:
\* when it returns, each of these requests was made and its result collected
\* (SendTransactionsToPeers, SendTransactions).
WholeBatchIsOffered ==
    \A s \in Senders : pc[s] = "returned" =>
        \A e \in steady[s], t \in batch[s] : request[s][e][t] = "collected"

\* A call comes back, however many of its requests fail, if each of them ends: the
\* places in the semaphore come back, and the results of a job, failures included,
\* add up to its batch (SendTransactions).
CallsReturn ==
    \A s \in Senders : (pc[s] # "idle") ~> (pc[s] = "idle" \/ crashed)

=============================================================================
