-------------------------- MODULE MCSemiAsyncQueue --------------------------
(***************************************************************************)
(* SemiAsyncQueue with the constants of a .cfg: batches of one or two jobs *)
(* (a job of work 2 fills a batch alone), more batches than there are threads.    *)
(***************************************************************************)
EXTENDS SemiAsyncQueue
=============================================================================
