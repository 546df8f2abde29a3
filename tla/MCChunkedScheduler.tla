------------------------- MODULE MCChunkedScheduler -------------------------
(***************************************************************************)
(* Small instances of ChunkedScheduler.                                    *)
(***************************************************************************)
EXTENDS ChunkedScheduler
=============================================================================
