----------------------------- MODULE TargetP2P -----------------------------
(***************************************************************************)
(* pkg/bridge/target/p2p: the coordinator keeps one goroutine per node     *)
(* record that connects, lists the peer in the map peers, waits for its    *)
(* disconnection, delists and stops it, and retries.  Concurrently,        *)
(* SendTransactionsToPeers ranges over that map and starts one goroutine   *)
(* per listed peer.  The mutex mu protects the writes of the map and the   *)
(* copy of its reference, not the iteration.                               *)
(***************************************************************************)
EXTENDS Naturals, FiniteSets

CONSTANTS Records,     \* node records of the configuration
          Senders      \* goroutines in SendTransactionsToPeers

\* Two Peer objects per record are told apart: the current one and the one
\* before, which a send may still hold.  BOUND: a send ends before its peer has
\* been replaced twice.
Objects == {"a", "b"}
Other(o) == CHOOSE x \in Objects : x # o
Nil == "nil"

VARIABLES
    conn,      \* where the goroutine of each record is
    object,    \* the Peer object it uses
    slot,      \* the map: the listed Peer object, or nil
    writing,   \* the records whose map entry is being assigned
    link,      \* the client of each Peer object (mimicry)
    ready,     \* Peer.ready
    callback,  \* the OnDisconnect callback waits to send on response
    pc,        \* where each sender is
    todo,      \* records its range loop has still to visit
    task,      \* the goroutine it started for a record, if any
    holds,     \* the Peer object that goroutine holds
    steady,    \* history: records listed, connected and ready since the call
    crashed    \* the Go runtime stopped the program

connVars == <<conn, object, slot, writing, link, ready, callback>>
sendVars == <<pc, todo, task, holds>>
vars == <<connVars, sendVars, steady, crashed>>

TypeOK ==
    /\ conn \in [Records -> {"new", "starting", "store", "stored", "wait",
                             "clear", "cleared", "stop", "sleep"}]
    /\ object \in [Records -> Objects]
    /\ slot \in [Records -> Objects \cup {Nil}]
    /\ writing \in SUBSET Records
    /\ link \in [Records -> [Objects -> {"off", "up", "lost", "stopped"}]]
    /\ ready \in [Records -> [Objects -> BOOLEAN]]
    /\ callback \in [Records -> [Objects -> BOOLEAN]]
    /\ pc \in [Senders -> {"idle", "range", "join"}]
    /\ todo \in [Senders -> SUBSET Records]
    /\ task \in [Senders -> [Records -> {"none", "started", "sending", "skipped",
                                         "ok", "failed"}]]
    /\ holds \in [Senders -> [Records -> Objects]]
    /\ steady \in [Senders -> SUBSET Records]
    /\ crashed \in BOOLEAN

\* Start has put nil under every record before a source can call in.
Init ==
    /\ conn = [r \in Records |-> "new"]
    /\ object = [r \in Records |-> "a"]
    /\ slot = [r \in Records |-> Nil]
    /\ writing = {}
    /\ link = [r \in Records |-> [o \in Objects |-> "stopped"]]
    /\ ready = [r \in Records |-> [o \in Objects |-> FALSE]]
    /\ callback = [r \in Records |-> [o \in Objects |-> FALSE]]
    /\ pc = [s \in Senders |-> "idle"]
    /\ todo = [s \in Senders |-> {}]
    /\ task = [s \in Senders |-> [r \in Records |-> "none"]]
    /\ holds = [s \in Senders |-> [r \in Records |-> "a"]]
    /\ steady = [s \in Senders |-> {}]
    /\ crashed = FALSE

\* The program runs, and this step does not end it.
Running == ~crashed /\ UNCHANGED crashed

Step(r, from, to) ==
    /\ Running
    /\ conn[r] = from
    /\ conn' = [conn EXCEPT ![r] = to]

MutexFree == writing = {}

-----------------------------------------------------------------------------
(* The goroutine of a record.                                              *)

\* NewPeer fails on a record it cannot use: nothing is deferred yet.
NewPeerFails(r) ==
    /\ Step(r, "new", "sleep")
    /\ UNCHANGED <<object, slot, writing, link, ready, callback, sendVars, steady>>

\* NewPeer, the two callbacks registered, client.Start called.
NewPeer(r) ==
    /\ Step(r, "new", "starting")
    /\ LET o == Other(object[r]) IN
         /\ \A s \in Senders : task[s][r] # "none" => holds[s][r] # o
         /\ object' = [object EXCEPT ![r] = o]
         /\ link' = [link EXCEPT ![r][o] = "off"]
         /\ ready' = [ready EXCEPT ![r][o] = FALSE]
         /\ callback' = [callback EXCEPT ![r][o] = FALSE]
    /\ UNCHANGED <<slot, writing, sendVars, steady>>

StartFails(r) ==
    /\ Step(r, "starting", "clear")
    /\ link[r][object[r]] # "up"
    /\ UNCHANGED <<object, slot, writing, link, ready, callback, sendVars, steady>>

StartReturns(r) ==
    /\ Step(r, "starting", "store")
    /\ link[r][object[r]] # "off"
    /\ UNCHANGED <<object, slot, writing, link, ready, callback, sendVars, steady>>

\* (*peers)[record] = peer under mu; the runtime flags the map while it assigns.
BeginStore(r) ==
    /\ MutexFree
    /\ Step(r, "store", "stored")
    /\ writing' = {r}
    /\ UNCHANGED <<object, slot, link, ready, callback, sendVars, steady>>

EndStore(r) ==
    /\ Step(r, "stored", "wait")
    /\ slot' = [slot EXCEPT ![r] = object[r]]
    /\ writing' = {}
    /\ UNCHANGED <<object, link, ready, callback, sendVars, steady>>

\* Variant: the wait ends without a callback.
ReceiveDisconnectSpurious(r) ==
    /\ Step(r, "wait", "clear")
    /\ callback' = [callback EXCEPT ![r][object[r]] = FALSE]
    /\ UNCHANGED <<object, slot, writing, link, ready, sendVars, steady>>

\* response := <-disconnect meets the callback, which then returns.
ReceiveDisconnect(r) ==
    /\ Step(r, "wait", "clear")
    /\ callback[r][object[r]]
    /\ callback' = [callback EXCEPT ![r][object[r]] = FALSE]
    /\ UNCHANGED <<object, slot, writing, link, ready, sendVars, steady>>

\* The deferred function: delist the peer, then stop it.
BeginClear(r) ==
    /\ MutexFree
    /\ Step(r, "clear", "cleared")
    /\ writing' = {r}
    /\ UNCHANGED <<object, slot, link, ready, callback, sendVars, steady>>

EndClear(r) ==
    /\ Step(r, "cleared", "stop")
    /\ slot' = [slot EXCEPT ![r] = Nil]
    /\ writing' = {}
    /\ UNCHANGED <<object, link, ready, callback, sendVars, steady>>

\* Variant: the goroutine ends instead of retrying.
StopPeerForGood(r) ==
    /\ Step(r, "stop", "ended")
    /\ link' = [link EXCEPT ![r][object[r]] = "stopped"]
    /\ UNCHANGED <<object, slot, writing, ready, callback, sendVars, steady>>

\* client.Stop may fail: the error is logged, the client left as it is.
StopPeer(r) ==
    /\ Step(r, "stop", "sleep")
    /\ \/ link' = [link EXCEPT ![r][object[r]] = "stopped"]
       \/ UNCHANGED link
    /\ UNCHANGED <<object, slot, writing, ready, callback, sendVars, steady>>

\* RetryInterval is over.
Retry(r) ==
    /\ Step(r, "sleep", "new")
    /\ UNCHANGED <<object, slot, writing, link, ready, callback, sendVars, steady>>

-----------------------------------------------------------------------------
(* The mimicry client of the current Peer object, and its callbacks.       *)

LinkUp(r) ==
    /\ Running
    /\ conn[r] = "starting"
    /\ link[r][object[r]] = "off"
    /\ link' = [link EXCEPT ![r][object[r]] = "up"]
    /\ UNCHANGED <<conn, object, slot, writing, ready, callback, sendVars, steady>>

OnStatus(r) ==
    /\ Running
    /\ link[r][object[r]] = "up"
    /\ ~ready[r][object[r]]
    /\ ready' = [ready EXCEPT ![r][object[r]] = TRUE]
    /\ UNCHANGED <<conn, object, slot, writing, link, callback, sendVars, steady>>

\* Variant: the callback sends nothing on response.
OnDisconnectSilent(r) ==
    /\ Running
    /\ link[r][object[r]] = "up"
    /\ link' = [link EXCEPT ![r][object[r]] = "lost"]
    /\ ready' = [ready EXCEPT ![r][object[r]] = FALSE]
    /\ steady' = [s \in Senders |-> steady[s] \ {r}]
    /\ UNCHANGED <<conn, object, slot, writing, callback, sendVars>>

\* ready is cleared at once; the send on the unbuffered channel waits.
OnDisconnect(r) ==
    /\ Running
    /\ link[r][object[r]] = "up"
    /\ link' = [link EXCEPT ![r][object[r]] = "lost"]
    /\ ready' = [ready EXCEPT ![r][object[r]] = FALSE]
    /\ callback' = [callback EXCEPT ![r][object[r]] = TRUE]
    /\ steady' = [s \in Senders |-> steady[s] \ {r}]
    /\ UNCHANGED <<conn, object, slot, writing, sendVars>>

-----------------------------------------------------------------------------
(* SendTransactionsToPeers and the goroutines of its errgroup.             *)

\* peers := *c.peers copies the reference of the map, not its entries.
SendCall(s) ==
    /\ Running
    /\ pc[s] = "idle"
    /\ MutexFree
    /\ pc' = [pc EXCEPT ![s] = "range"]
    /\ todo' = [todo EXCEPT ![s] = Records]
    /\ steady' = [steady EXCEPT ![s] =
                     {r \in Records : slot[r] # Nil /\ ready[r][slot[r]]}]
    /\ UNCHANGED <<connVars, task, holds>>

RangeNext(s, r) ==
    /\ Running
    /\ pc[s] = "range"
    /\ r \in todo[s]
    /\ writing = {}
    /\ todo' = [todo EXCEPT ![s] = @ \ {r}]
    /\ IF slot[r] = Nil
       THEN UNCHANGED <<task, holds>>
       ELSE /\ task' = [task EXCEPT ![s][r] = "started"]
            /\ holds' = [holds EXCEPT ![s][r] = slot[r]]
    /\ UNCHANGED <<connVars, pc, steady>>

\* fatal error: concurrent map iteration and map write.
RangeCrash(s) ==
    /\ ~crashed
    /\ pc[s] = "range"
    /\ writing # {}
    /\ crashed' = TRUE
    /\ UNCHANGED <<connVars, sendVars, steady>>

\* Variant: the loop is left before its end.
RangeEndEarly(s) ==
    /\ Running
    /\ pc[s] = "range"
    /\ pc' = [pc EXCEPT ![s] = "join"]
    /\ UNCHANGED <<connVars, todo, task, holds, steady>>

RangeEnd(s) ==
    /\ Running
    /\ pc[s] = "range"
    /\ todo[s] = {}
    /\ pc' = [pc EXCEPT ![s] = "join"]
    /\ UNCHANGED <<connVars, todo, task, holds, steady>>

\* Variant: the goroutine waits until the peer is ready.
CheckReadyWaits(s, r) ==
    /\ Running
    /\ task[s][r] = "started"
    /\ ready[r][holds[s][r]]
    /\ task' = [task EXCEPT ![s][r] = "sending"]
    /\ UNCHANGED <<connVars, pc, todo, holds, steady>>

\* Peer.SendTransactions: a peer that is not ready gets nothing, without error.
CheckReady(s, r) ==
    /\ Running
    /\ task[s][r] = "started"
    /\ task' = [task EXCEPT ![s][r] =
                   IF ready[r][holds[s][r]] THEN "sending" ELSE "skipped"]
    /\ UNCHANGED <<connVars, pc, todo, holds, steady>>

Transmit(s, r) ==
    /\ Running
    /\ task[s][r] = "sending"
    /\ \/ /\ link[r][holds[s][r]] = "up"
          /\ task' = [task EXCEPT ![s][r] = "ok"]
       \/ task' = [task EXCEPT ![s][r] = "failed"]
    /\ UNCHANGED <<connVars, pc, todo, holds, steady>>

Finished(s) ==
    \A r \in Records : task[s][r] \in {"none", "skipped", "ok", "failed"}

\* errg.Wait returns the first error of a goroutine, once all have ended.
SendReturn(s) ==
    /\ Running
    /\ pc[s] = "join"
    /\ Finished(s)
    /\ pc' = [pc EXCEPT ![s] = "idle"]
    /\ task' = [task EXCEPT ![s] = [r \in Records |-> "none"]]
    /\ steady' = [steady EXCEPT ![s] = {}]
    /\ UNCHANGED <<connVars, todo, holds>>

-----------------------------------------------------------------------------
ConnNext(r) ==
    \/ NewPeerFails(r) \/ NewPeer(r) \/ StartFails(r) \/ StartReturns(r)
    \/ BeginStore(r) \/ EndStore(r) \/ ReceiveDisconnect(r)
    \/ BeginClear(r) \/ EndClear(r) \/ StopPeer(r) \/ Retry(r)

ClientNext(r) == LinkUp(r) \/ OnStatus(r) \/ OnDisconnect(r)

\* A step of one of the goroutines of a call that has begun.
CallStep(s) ==
    \/ RangeEnd(s) \/ SendReturn(s)
    \/ \E r \in Records : RangeNext(s, r) \/ CheckReady(s, r) \/ Transmit(s, r)

SendNext(s) == SendCall(s) \/ RangeCrash(s) \/ CallStep(s)

Next == \/ \E r \in Records : ConnNext(r) \/ ClientNext(r)
        \/ \E s \in Senders : SendNext(s)

Spec == Init /\ [][Next]_vars

(***************************************************************************)
(* Every goroutine runs, the mutex is granted in the end, a stopped        *)
(* connection attempt is repeated until one succeeds (retry.Attempts(0)    *)
(* and a target that is reachable again and again), and a call goes on     *)
(* while one of its goroutines can run.  Nothing forces a disconnection, a *)
(* status or a call.                                                       *)
(***************************************************************************)
Fairness ==
    /\ \A r \in Records :
          /\ SF_vars(NewPeer(r)) /\ SF_vars(LinkUp(r)) /\ SF_vars(StartReturns(r))
          /\ SF_vars(BeginStore(r)) /\ SF_vars(BeginClear(r))
          /\ WF_vars(EndStore(r) \/ ReceiveDisconnect(r) \/ EndClear(r)
                       \/ StopPeer(r) \/ Retry(r))
    /\ \A s \in Senders : SF_vars(CallStep(s))

FairSpec == Spec /\ Fairness

-----------------------------------------------------------------------------
\* A call reaches every peer that stayed listed, connected and ready from its
\* start: when the calls of its goroutines are in, each was sent to, whatever
\* the other peers did meanwhile and whichever of them failed
\* (SendTransactionsToPeers).
SteadyPeersAreSent ==
    \A s \in Senders : pc[s] = "join" /\ Finished(s) =>
        \A r \in steady[s] : task[s][r] \in {"ok", "failed"}

\* The map lists nothing but the present peer of a record, from its connection on
\* and never stopped, and no former peer of the record is still connected, although
\* an error of client.Stop is only logged: the goroutine makes the next peer after a
\* failed start or a loss alone (Coordinator.Start, Peer.Stop).
OneConnectionPerRecord ==
    \A r \in Records :
        /\ slot[r] # Nil => slot[r] = object[r] /\ link[r][slot[r]] \in {"up", "lost"}
        /\ link[r][Other(object[r])] # "up"

\* A peer whose connection is lost is delisted in the end, as long as the program
\* runs: the callback's send and the coordinator's receive always meet, even when
\* the loss comes before the peer is listed (Coordinator.Start, Peer.Start).
LostIsDelisted ==
    \A r \in Records :
        (slot[r] # Nil /\ link[r][object[r]] = "lost") ~> (slot[r] = Nil \/ crashed)

\* A record without a peer gets one again, after whatever failed
\* (Coordinator.Start).
DelistedIsRelisted ==
    \A r \in Records : (slot[r] = Nil) ~> (slot[r] # Nil \/ crashed)

\* Every call comes back, although peers come and go while it runs.
SendsReturn ==
    \A s \in Senders : (pc[s] # "idle") ~> (pc[s] = "idle" \/ crashed)

-----------------------------------------------------------------------------
\* "to avoid race conditions": the loop over the peers runs safely beside the
\* goroutines that assign the map's entries.
IterationIsSafe == ~crashed

\* "SendTransactionsToPeers sends transactions to all connected P2P target
\* peers": none that is connected is skipped.
ConnectedPeersAreSent ==
    \A s \in Senders, r \in Records :
        task[s][r] = "skipped" => link[r][holds[s][r]] # "up"
=============================================================================
