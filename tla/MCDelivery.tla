----------------------------- MODULE MCDelivery -----------------------------
(***************************************************************************)
(* Delivery with model values, for TLC.                                    *)
(***************************************************************************)
EXTENDS Delivery, TLC

CONSTANTS t1, c1, c2, nobody

MCOneTx      == {t1}
MCTwoCallers == {c1, c2}
MCAnyone     == {}
MCNobody     == [t \in {t1} |-> nobody]
MCSymmetry   == Permutations(MCTwoCallers)
=============================================================================
