--------------------------- MODULE RPCSourceProofs ---------------------------
(***************************************************************************)
(* RPCSource for every set of endpoints, finite set of transactions,       *)
(* filter and size of the seen map.                                        *)
(***************************************************************************)
EXTENDS RPCSource, TLAPS

\* From the end of its scan until it calls the handler, a poll works on what it
\* has entered in the seen map.
Working == {"scan", "scanNull", "populate", "fetch", "filter", "handler"}

\* Between polls nothing is left of the poll before; what a poll has kept it has
\* entered in the seen map, and so was everything the handler got.
SeenInv ==
    \A p \in Peers :
        /\ pc[p] \in {"down", "poll"} => picked[p] = {}
        /\ pc[p] \in Working => picked[p] \subseteq seen[p]
        /\ pc[p] \in {"fetch", "filter"} => todo[p] \subseteq seen[p]
        /\ handed[p] \subseteq seen[p]

\* What a scan keeps has not been passed to the handler yet.
ScanInv ==
    \A p \in Peers :
        pc[p] \in {"scan", "scanNull"} => picked[p] \cap handed[p] = {}

\* What was marked when the checks began is marked still, unless it expired.
KnownInv == \A p \in Peers : known[p] \subseteq sent

\* A peer marks what the handler took.
MarkInv ==
    \A p \in Peers : pc[p] = "mark" =>
        \A t \in todo[p] : fate[t] = "forwarded"

InductiveInv == TypeOK /\ SeenInv /\ ScanInv /\ KnownInv /\ MarkInv
                  /\ HandedOnce /\ KnownIsNotForwarded /\ MarkHasReason

-----------------------------------------------------------------------------
\* The ranks of the words for a transaction's fate.
LEMMA RankOf ==
    /\ Rank("none") = 1 /\ Rank("dropped") = 2 /\ Rank("refused") = 3
    /\ Rank("populated") = 4 /\ Rank("forwarded") = 5
<1>1. \A n \in 1 .. 5 : Rank(Fates[n]) = n
  <2> SUFFICES ASSUME NEW n \in 1 .. 5 PROVE Rank(Fates[n]) = n
    OBVIOUS
  <2>1. \A m \in 1 .. 5 : Fates[m] = Fates[n] <=> m = n
    BY DEF Fates
  <2> QED BY <2>1 DEF Rank
<1>2. /\ Fates[1] = "none" /\ Fates[2] = "dropped" /\ Fates[3] = "refused"
      /\ Fates[4] = "populated" /\ Fates[5] = "forwarded"
  BY DEF Fates
<1> QED BY <1>1, <1>2

\* The words themselves.
LEMMA FateWords ==
    {Fates[n] : n \in 1 .. 5} = {"none", "dropped", "refused", "populated", "forwarded"}
  BY DEF Fates

\* A note never sets a transaction back, and takes its own as far as it says.
LEMMA NoteMovesForward ==
    ASSUME TypeOK, NEW T, NEW w \in {"dropped", "refused", "populated", "forwarded"},
           Note(T, w)
    PROVE  /\ fate' \in [Txs -> {Fates[n] : n \in 1 .. 5}]
           /\ \A t \in Txs :
                 /\ fate[t] \in {"populated", "forwarded"}
                        => fate'[t] \in {"populated", "forwarded"}
                 /\ fate[t] = "forwarded" => fate'[t] = "forwarded"
                 /\ t \in T /\ w = "populated" => fate'[t] \in {"populated", "forwarded"}
                 /\ t \in T /\ w = "forwarded" => fate'[t] = "forwarded"
                 /\ t \notin T => fate'[t] = fate[t]
  BY RankOf, FateWords, SMTT(30) DEF Note, TypeOK

\* The first state satisfies the inductive invariant.
LEMMA InitInv == Init => InductiveInv
  BY FateWords DEF Init, InductiveInv, TypeOK, SeenInv, ScanInv, KnownInv, MarkInv,
         HandedOnce, KnownIsNotForwarded, MarkHasReason, Working

\* Every step of an endpoint's goroutine preserves it.
LEMMA PeerStep ==
    ASSUME InductiveInv, NEW p \in Peers, PeerNext(p)
    PROVE  InductiveInv'
<1> USE DEF InductiveInv, TypeOK, SeenInv, ScanInv, KnownInv, MarkInv, HandedOnce,
            KnownIsNotForwarded, MarkHasReason, Working, Goto, Return, histVars
<1>1. CASE Connect(p)
  BY <1>1 DEF Connect
<1>2. CASE Panic(p)
  BY <1>2, SMTT(30) DEF Panic
<1>3. CASE ScanEnd(p)
  BY <1>3 DEF ScanEnd
<1>4. CASE PopulateEnd(p)
  BY <1>4 DEF PopulateEnd
<1>5. CASE FilterEnd(p)
  BY <1>5 DEF FilterEnd, CleanUp
<1>6. CASE CallHandler(p)
  BY <1>6 DEF CallHandler
<1>7. CASE HandlerOk(p)
  <2>1. Note(picked[p], "forwarded")
    BY <1>7 DEF HandlerOk
  <2> QED BY <1>7, <2>1, NoteMovesForward DEF HandlerOk
<1>8. CASE HandlerError(p)
  <2>1. Note(picked[p], "refused")
    BY <1>8 DEF HandlerError
  <2> QED BY <1>8, <2>1, NoteMovesForward DEF HandlerError
<1>9. CASE MarkEnd(p)
  BY <1>9 DEF MarkEnd, CleanUp
<1>10. ASSUME NEW pool \in SUBSET Txs, NEW answer \in {"scan", "scanNull"},
             Poll(p, pool, answer)
      PROVE  InductiveInv'
  BY <1>10 DEF Poll
<1>11. ASSUME NEW F \in SUBSET picked[p], Fetch(p, F)
      PROVE  InductiveInv'
  <2>1. Note(picked[p] \ F, "dropped")
    BY <1>11 DEF Fetch
  <2> QED BY <1>11, <2>1, NoteMovesForward, SMTT(30) DEF Fetch
<1>12. ASSUME NEW t \in Txs, Scan(p, t)
      PROVE  InductiveInv'
  BY <1>12 DEF Scan, IsNew
<1>13. ASSUME NEW t \in Txs, Populate(p, t)
      PROVE  InductiveInv'
  <2>1. Note({t}, "populated")
    BY <1>13 DEF Populate
  <2> QED BY <1>13, <2>1, NoteMovesForward DEF Populate
<1>14. ASSUME NEW t \in Txs, Filter(p, t)
      PROVE  InductiveInv'
  BY <1>14 DEF Filter
<1>15. ASSUME NEW t \in Txs, Mark(p, t)
      PROVE  InductiveInv'
  BY <1>15 DEF Mark
<1> QED BY <1>1, <1>2, <1>3, <1>4, <1>5, <1>6, <1>7, <1>8, <1>9, <1>10, <1>11,
           <1>12, <1>13, <1>14, <1>15
        DEF PeerNext

\* So does an expiry, and the inductive invariant holds of every state.
THEOREM InvariantHolds == Spec => []InductiveInv
<1>1. ASSUME InductiveInv, NEW t \in Txs, Expire(t)
      PROVE  InductiveInv'
  BY <1>1 DEF Expire, InductiveInv, TypeOK, SeenInv, ScanInv, KnownInv, MarkInv,
              HandedOnce, KnownIsNotForwarded, MarkHasReason, Working
<1>2. ASSUME InductiveInv, UNCHANGED vars
      PROVE  InductiveInv'
  BY <1>2 DEF vars, histVars, InductiveInv, TypeOK, SeenInv, ScanInv, KnownInv,
              MarkInv, HandedOnce, KnownIsNotForwarded, MarkHasReason, Working
<1>3. InductiveInv /\ [Next]_vars => InductiveInv'
  BY <1>1, <1>2, PeerStep DEF Next
<1> QED BY <1>3, InitInv, PTL DEF Spec

-----------------------------------------------------------------------------
\* Type correctness of the RPC source's state.
THEOREM TypeCorrect == Spec => []TypeOK
<1>1. InductiveInv => TypeOK
  BY DEF InductiveInv
<1> QED BY <1>1, InvariantHolds, PTL

\* Until the seen map is emptied a peer never passes a transaction to the handler
\* twice: it keeps in the map everything it passes on, failed calls included.
THEOREM PeerHandsOnce == Spec => []HandedOnce
<1>1. InductiveInv => HandedOnce
  BY DEF InductiveInv
<1> QED BY <1>1, InvariantHolds, PTL

\* Endpoints repeat each other's transactions only when their polls overlap.
THEOREM KnownStaysBehind == Spec => []KnownIsNotForwarded
<1>1. InductiveInv => KnownIsNotForwarded
  BY DEF InductiveInv
<1> QED BY <1>1, InvariantHolds, PTL

\* No failed request and no failed call of the handler leaves a mark in the Sent
\* cache that would keep the other endpoints from trying.
THEOREM FailureLeavesNoMark == Spec => []MarkHasReason
<1>1. InductiveInv => MarkHasReason
  BY DEF InductiveInv
<1> QED BY <1>1, InvariantHolds, PTL
=============================================================================
