------------------------- MODULE MCMultipartUpload -------------------------
(***************************************************************************)
(* Small instances of MultipartUpload.                                     *)
(***************************************************************************)
EXTENDS MultipartUpload, TLC

\* Threads differ in nothing but what they do.
MCThreads == Permutations(Thread)
=============================================================================
