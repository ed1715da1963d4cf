-------------------------- MODULE MCChunkedUpload --------------------------
(***************************************************************************)
(* Small instances of ChunkedUpload.                                       *)
(***************************************************************************)
EXTENDS ChunkedUpload, TLC

\* Threads differ in nothing but what they do.
MCThreads == Permutations(Thread)
=============================================================================
