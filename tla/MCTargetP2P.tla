---------------------------- MODULE MCTargetP2P ----------------------------
(***************************************************************************)
(* TargetP2P with model values, for TLC.                                   *)
(***************************************************************************)
EXTENDS TargetP2P, TLC

CONSTANTS r1, r2, s1, s2

MCRecords    == {r1, r2}
MCOneRecord  == {r1}
MCSenders    == {s1, s2}
MCOneSender  == {s1}
MCSymmetry   == Permutations(MCRecords) \cup Permutations(MCSenders)
=============================================================================
