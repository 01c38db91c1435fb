---------------------------- MODULE MCTargetRPC ----------------------------
(***************************************************************************)
(* TargetRPC with model values, for TLC.                                   *)
(***************************************************************************)
EXTENDS TargetRPC

CONSTANTS e1, e2, t1, t2, s1

MCEndpoints   == {e1, e2}
MCTxs         == {t1, t2}
MCSenders     == {s1}
=============================================================================
