---------------------------- MODULE MCRPCSource ----------------------------
(***************************************************************************)
(* RPCSource with model values, for TLC.                                   *)
(***************************************************************************)
EXTENDS RPCSource, TLC

CONSTANTS p1, p2, t1, t2, t3, alice, bob, nobody

MCOnePeer   == {p1}
MCTwoPeers  == {p1, p2}
MCTxs       == {t1, t2}
MCThreeTxs  == {t1, t2, t3}
MCFilterTo  == {alice}

\* A transfer the filter lets through, a contract creation, and, where there are
\* three, a transfer the filter rejects.
MCRecipient == [t \in {t1, t2, t3} |-> CASE t = t1 -> alice
                                         [] t = t2 -> nobody
                                         [] t = t3 -> bob]

\* Without a filter the transactions are interchangeable.
MCAnyone    == {}
MCNobody    == [t \in {t1, t2, t3} |-> nobody]
MCSymmetry  == Permutations(MCTwoPeers) \cup Permutations(MCTxs)
=============================================================================
