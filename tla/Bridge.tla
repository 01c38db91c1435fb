------------------------------- MODULE Bridge -------------------------------
(***************************************************************************)
(* pkg/bridge/bridge.go: broadcast, called concurrently by the goroutines  *)
(* of all source peers, drops the transactions found in the sent cache     *)
(* (source/cache/sent.go), marks the others and hands them to the target   *)
(* coordinator.  The look-up and the mark are separate cache calls.        *)
(***************************************************************************)
EXTENDS Naturals, FiniteSets

CONSTANTS Txs,       \* transaction hashes
          Callers    \* goroutines of source peers that call broadcast

ASSUME CallersAssumption == IsFiniteSet(Callers)

VARIABLES
    sent,        \* the unexpired keys of sentCache
    pc,          \* where each caller is in broadcast
    todo,        \* transactions of its call still to look up
    missed,      \* the transaction it looked up and did not find, if any
    filtered,    \* filteredTxs of its call
    fresh,       \* history: marked when its call began, and not expired since
    marks,       \* history: how often each was marked since it last expired
    forwarded,   \* history: passed to SendTransactionsToPeers since it was marked
    delivered    \* history: accepted by some target since then

vars == <<sent, pc, todo, missed, filtered, fresh, marks, forwarded, delivered>>

TypeOK ==
    /\ sent \in SUBSET Txs
    /\ pc \in [Callers -> {"idle", "filter", "mark", "send"}]
    /\ todo \in [Callers -> SUBSET Txs]
    /\ missed \in [Callers -> SUBSET Txs]
    /\ filtered \in [Callers -> SUBSET Txs]
    /\ fresh \in [Callers -> SUBSET Txs]
    /\ marks \in [Txs -> Nat]
    /\ forwarded \in SUBSET Txs
    /\ delivered \in SUBSET Txs

Init ==
    /\ sent = {}
    /\ pc = [c \in Callers |-> "idle"]
    /\ todo = [c \in Callers |-> {}]
    /\ missed = [c \in Callers |-> {}]
    /\ filtered = [c \in Callers |-> {}]
    /\ fresh = [c \in Callers |-> {}]
    /\ marks = [t \in Txs |-> 0]
    /\ forwarded = {}
    /\ delivered = {}

Goto(c, l) == pc' = [pc EXCEPT ![c] = l]

-----------------------------------------------------------------------------
\* A call with nil or no transactions returns at once and changes nothing.
Broadcast(c, txs) ==
    /\ pc[c] = "idle"
    /\ txs # {}
    /\ Goto(c, "filter")
    /\ todo' = [todo EXCEPT ![c] = txs]
    /\ filtered' = [filtered EXCEPT ![c] = {}]
    /\ fresh' = [fresh EXCEPT ![c] = sent]
    /\ UNCHANGED <<sent, missed, marks, forwarded, delivered>>

SkipSent(c, t) ==
    /\ pc[c] = "filter"
    /\ t \in todo[c]
    /\ t \in sent
    /\ todo' = [todo EXCEPT ![c] = @ \ {t}]
    /\ UNCHANGED <<sent, pc, missed, filtered, fresh, marks, forwarded,
                   delivered>>

\* Variant: the cache is not looked up.
MissSentUnchecked(c, t) ==
    /\ pc[c] = "filter"
    /\ t \in todo[c]
    /\ Goto(c, "mark")
    /\ todo' = [todo EXCEPT ![c] = @ \ {t}]
    /\ missed' = [missed EXCEPT ![c] = {t}]
    /\ UNCHANGED <<sent, filtered, fresh, marks, forwarded, delivered>>

MissSent(c, t) ==
    /\ pc[c] = "filter"
    /\ t \in todo[c]
    /\ t \notin sent
    /\ Goto(c, "mark")
    /\ todo' = [todo EXCEPT ![c] = @ \ {t}]
    /\ missed' = [missed EXCEPT ![c] = {t}]
    /\ UNCHANGED <<sent, filtered, fresh, marks, forwarded, delivered>>

\* The histories begin again with the first of overlapping marks.
StartAfresh(t) ==
    /\ forwarded' = IF t \in sent THEN forwarded ELSE forwarded \ {t}
    /\ delivered' = IF t \in sent THEN delivered ELSE delivered \ {t}

\* Variants: the entry is made under an empty hash, or not at all.
MarkSentEmptyHash(c, t) ==
    /\ pc[c] = "mark"
    /\ t \in missed[c]
    /\ sent' = sent \cup {""}
    /\ marks' = [marks EXCEPT ![t] = @ + 1]
    /\ filtered' = [filtered EXCEPT ![c] = @ \cup {t}]
    /\ missed' = [missed EXCEPT ![c] = {}]
    /\ Goto(c, "filter")
    /\ StartAfresh(t)
    /\ UNCHANGED <<todo, fresh>>

MarkSentForgotten(c, t) ==
    /\ pc[c] = "mark"
    /\ t \in missed[c]
    /\ marks' = [marks EXCEPT ![t] = @ + 1]
    /\ filtered' = [filtered EXCEPT ![c] = @ \cup {t}]
    /\ missed' = [missed EXCEPT ![c] = {}]
    /\ Goto(c, "filter")
    /\ UNCHANGED <<sent, todo, fresh, forwarded, delivered>>

MarkSent(c, t) ==
    /\ pc[c] = "mark"
    /\ t \in missed[c]
    /\ sent' = sent \cup {t}
    /\ marks' = [marks EXCEPT ![t] = @ + 1]
    /\ filtered' = [filtered EXCEPT ![c] = @ \cup {t}]
    /\ missed' = [missed EXCEPT ![c] = {}]
    /\ Goto(c, "filter")
    /\ StartAfresh(t)
    /\ UNCHANGED <<todo, fresh>>

\* Variant: the call returns although it has something to forward.
AllDuplicatesWrongly(c) ==
    /\ pc[c] = "filter"
    /\ todo[c] = {}
    /\ Goto(c, "idle")
    /\ UNCHANGED <<sent, todo, missed, filtered, fresh, marks, forwarded,
                   delivered>>

\* Everything was a duplicate: nothing to forward.
AllDuplicates(c) ==
    /\ pc[c] = "filter"
    /\ todo[c] = {}
    /\ filtered[c] = {}
    /\ Goto(c, "idle")
    /\ UNCHANGED <<sent, todo, missed, filtered, fresh, marks, forwarded,
                   delivered>>

Forward(c) ==
    /\ pc[c] = "filter"
    /\ todo[c] = {}
    /\ filtered[c] # {}
    /\ forwarded' = forwarded \cup filtered[c]
    /\ Goto(c, "send")
    /\ UNCHANGED <<sent, todo, missed, filtered, fresh, marks, delivered>>

\* SendTransactionsToPeers returned, with an error or without.  Some target took
\* each transaction of D; the mark stays on all of them.
SendReturn(c, D) ==
    /\ pc[c] = "send"
    /\ delivered' = delivered \cup D
    /\ filtered' = [filtered EXCEPT ![c] = {}]
    /\ Goto(c, "idle")
    /\ UNCHANGED <<sent, todo, missed, fresh, marks, forwarded>>

\* Five minutes after it was set or last found, an entry is found no more.
Expire(t) ==
    /\ t \in sent
    /\ sent' = sent \ {t}
    /\ marks' = [marks EXCEPT ![t] = 0]
    /\ fresh' = [c \in Callers |-> fresh[c] \ {t}]
    /\ forwarded' = forwarded \ {t}
    /\ delivered' = delivered \ {t}
    /\ UNCHANGED <<pc, todo, missed, filtered>>

Next ==
    \/ \E c \in Callers :
          \/ \E txs \in SUBSET Txs : Broadcast(c, txs)
          \/ \E t \in Txs : SkipSent(c, t) \/ MissSent(c, t) \/ MarkSent(c, t)
          \/ AllDuplicates(c)
          \/ Forward(c)
          \/ \E D \in SUBSET filtered[c] : SendReturn(c, D)
    \/ \E t \in Txs : Expire(t)

Spec == Init /\ [][Next]_vars

-----------------------------------------------------------------------------
\* A call does not forward what was marked before it began, unless the mark
\* expired meanwhile: duplicates can come only from calls that overlap
\* (broadcast).
NoSequentialDuplicate == \A c \in Callers : filtered[c] \cap fresh[c] = {}

\* The check and the mark are not atomic, but the damage is bounded: between two
\* expiries a transaction is forwarded at most once per source goroutine.
DuplicatesBounded == \A t \in Txs : marks[t] <= Cardinality(Callers)

\* A mark never appears without a hand-over: since its mark, a transaction was
\* passed to the target coordinator, or a running call of broadcast still has to
\* pass it on.
MarkedIsForwarded ==
    \A t \in sent :
        \/ t \in forwarded
        \/ \E c \in Callers : t \in filtered[c] /\ pc[c] \in {"filter", "mark"}

-----------------------------------------------------------------------------
(* What the proofs need beyond the properties above.                       *)

\* The callers that looked t up, did not find it and have yet to mark it.
AboutToMark(t) == {c \in Callers : t \in missed[c]}

\* A caller holds what it missed exactly between the look-up and the mark, and
\* has collected transactions only while its call runs.
CallerInv ==
    \A c \in Callers : /\ missed[c] # {} <=> pc[c] = "mark"
                       /\ \A t, u \in missed[c] : t = u
                       /\ missed[c] \cap fresh[c] = {}
                       /\ fresh[c] \subseteq sent

\* Once t is marked nobody misses it: the callers that missed it before are the
\* only ones that can mark it again.
MarkInv ==
    \A t \in Txs :
        IF t \in sent
        THEN marks[t] + Cardinality(AboutToMark(t)) <= Cardinality(Callers)
        ELSE marks[t] = 0

InductiveInv == TypeOK /\ CallerInv /\ MarkInv /\ NoSequentialDuplicate
                  /\ MarkedIsForwarded

-----------------------------------------------------------------------------
\* "sentCache tracks transactions already sent to targets to prevent
\* duplicates": between two expiries a transaction is forwarded once.
NoDuplicate == \A t \in Txs : marks[t] <= 1

\* "SentCache tracks transactions that have been successfully sent to targets":
\* what is marked was delivered, once the call that marked it has returned.
MarkedIsDelivered ==
    \A t \in sent : t \in delivered
                      \/ \E c \in Callers : t \in filtered[c]
=============================================================================
