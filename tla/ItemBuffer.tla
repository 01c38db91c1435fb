----------------------------- MODULE ItemBuffer -----------------------------
(***************************************************************************)
(* What a batch processor promises its caller, without its threads: a      *)
(* first-in first-out buffer that accepts items while it is open, hands    *)
(* each accepted item on exactly once, in order, in batches of bounded     *)
(* size, and loses nothing when it is closed.                              *)
(***************************************************************************)
EXTENDS Naturals, Sequences

CONSTANTS Items,       \* the items a caller may write
          MaxBatch     \* the largest batch handed on at once

VARIABLES accepted,    \* every item taken in, in order
          exported,    \* the items handed on, in order
          open         \* TRUE until the buffer takes no more items

bufferVars == <<accepted, exported, open>>

BufferInit ==
    /\ accepted = <<>>
    /\ exported = <<>>
    /\ open = TRUE

Accept ==
    /\ open
    /\ \E i \in Items : accepted' = Append(accepted, i)
    /\ UNCHANGED <<exported, open>>

Export ==
    /\ \E n \in 1 .. MaxBatch :
          /\ Len(exported) + n <= Len(accepted)
          /\ exported' = SubSeq(accepted, 1, Len(exported) + n)
    /\ UNCHANGED <<accepted, open>>

Close ==
    /\ open
    /\ open' = FALSE
    /\ UNCHANGED <<accepted, exported>>

BufferNext == Accept \/ Export \/ Close

BufferSafety == BufferInit /\ [][BufferNext]_bufferVars

\* Whatever is waiting is handed on in the end.
BufferSpec == BufferSafety /\ WF_bufferVars(Export)
=============================================================================
