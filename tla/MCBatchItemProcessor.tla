------------------------ MODULE MCBatchItemProcessor ------------------------
(***************************************************************************)
(* BatchItemProcessor with model values, for TLC.                          *)
(***************************************************************************)
EXTENDS BatchItemProcessor, TLC

CONSTANTS i1, i2, w, f1

MCItems    == {i1, i2}
MCFlushers == {f1}
=============================================================================
