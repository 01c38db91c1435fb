---------------------------- MODULE MCPeerExport ----------------------------
(***************************************************************************)
(* PeerExport with model values, for TLC.                                  *)
(***************************************************************************)
EXTENDS PeerExport, TLC

CONSTANTS i1, i2, i3, i4, w, none

MCItems    == {i1, i2, i3, i4}
MCFlushers == {}
MCSymmetry == Permutations(MCItems)
=============================================================================
