------------------------------- MODULE Delivery -------------------------------
(***************************************************************************)
(* The RPC source and the bridge together.  The handler of an endpoint is  *)
(* Bridge.broadcast: the goroutine of the endpoint is the caller, and what *)
(* broadcast returns decides whether the source marks.  The bridge marks   *)
(* in sentCache before the targets are tried, the source in its own Sent   *)
(* cache after the call, and the entries expire independently.             *)
(*                                                                         *)
(* Variables of Bridge keep their names; those of RPCSource that would     *)
(* clash with them have the prefix src.                                    *)
(***************************************************************************)
EXTENDS Bridge

CONSTANTS Recipient, NoAddress, FilterTo, MaxSeen   \* see RPCSource

VARIABLES srcPc, srcTodo, srcPicked, seen, loaded, srcSent,
          handed, known, firstPool, fate,           \* see RPCSource
          offered        \* history: passed to SendTransactionsToPeers

Source == INSTANCE RPCSource WITH
    Peers <- Callers, pc <- srcPc, todo <- srcTodo, picked <- srcPicked,
    sent <- srcSent

srcVars == <<srcPc, srcTodo, srcPicked, seen, loaded, srcSent, handed, known,
             firstPool, fate>>
deliveryVars == <<vars, srcVars, offered>>

DeliveryInit == Init /\ Source!Init /\ offered = {}

-----------------------------------------------------------------------------
\* Steps of the source outside of its handler.
SourceOnly(c) ==
    /\ \/ Source!Connect(c) \/ Source!Panic(c) \/ Source!ScanEnd(c)
       \/ Source!PopulateEnd(c) \/ Source!FilterEnd(c) \/ Source!MarkEnd(c)
       \/ \E pool \in SUBSET Txs, answer \in {"scan", "scanNull"} :
             Source!Poll(c, pool, answer)
       \/ \E F \in SUBSET srcPicked[c] : Source!Fetch(c, F)
       \/ \E t \in Txs : \/ Source!Scan(c, t) \/ Source!Populate(c, t)
                         \/ Source!Filter(c, t) \/ Source!Mark(c, t)
    /\ UNCHANGED <<vars, offered>>

\* processNewTransactions calls the handler with the transactions it has picked.
Call(c) ==
    /\ Source!CallHandler(c)
    /\ Broadcast(c, srcPicked[c])
    /\ UNCHANGED offered

\* Steps of broadcast that neither begin nor end the call.
Dedupe(c) ==
    /\ \E t \in Txs : SkipSent(c, t) \/ MissSent(c, t) \/ MarkSent(c, t)
    /\ UNCHANGED <<srcVars, offered>>

Offer(c) ==
    /\ Forward(c)
    /\ offered' = offered \cup filtered[c]
    /\ UNCHANGED srcVars

\* broadcast returns nil when everything was a duplicate.
ReturnDuplicates(c) ==
    AllDuplicates(c) /\ Source!HandlerOk(c) /\ UNCHANGED offered

\* Otherwise it returns what SendTransactionsToPeers returns.
ReturnOk(c, D) == SendReturn(c, D) /\ Source!HandlerOk(c) /\ UNCHANGED offered

ReturnError(c, D) ==
    SendReturn(c, D) /\ Source!HandlerError(c) /\ UNCHANGED offered

ExpireEntry(t) ==
    \/ Expire(t) /\ UNCHANGED <<srcVars, offered>>
    \/ Source!Expire(t) /\ UNCHANGED <<vars, offered>>

DeliveryNext ==
    \/ \E c \in Callers :
          \/ SourceOnly(c) \/ Call(c) \/ Dedupe(c) \/ Offer(c)
          \/ ReturnDuplicates(c)
          \/ \E D \in SUBSET filtered[c] : ReturnOk(c, D) \/ ReturnError(c, D)
    \/ \E t \in Txs : ExpireEntry(t)

DeliverySpec == DeliveryInit /\ [][DeliveryNext]_deliveryVars

-----------------------------------------------------------------------------
\* What a call of the handler was answered for, with or without an error, was
\* passed to the targets, or another endpoint's call has marked it and is about to
\* pass it on: no transaction is settled in the source by a mark of the bridge
\* that nobody redeems, although both caches forget (broadcast,
\* processNewTransactions).
SettledIsOffered ==
    \A t \in Txs : fate[t] \in {"refused", "forwarded"} =>
        t \in offered \/ \E c \in Callers : t \in filtered[c]
=============================================================================
