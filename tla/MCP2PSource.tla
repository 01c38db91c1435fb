---------------------------- MODULE MCP2PSource ----------------------------
(***************************************************************************)
(* P2PSource with model values, for TLC.                                   *)
(***************************************************************************)
EXTENDS P2PSource, TLC

CONSTANTS r1, t1, t2, g1, g2, alice, bob, nobody

MCRecords    == {r1}
MCTxs        == {t1, t2}
MCOneTx      == {t1}
MCBlobs      == {t2}
MCGoroutines == {g1, g2}
MCOwner      == (g1 :> r1) @@ (g2 :> r1)

MCFilterTo   == {alice}
MCRecipient  == [t \in {t1, t2} |-> IF t = t1 THEN alice ELSE bob]
=============================================================================
