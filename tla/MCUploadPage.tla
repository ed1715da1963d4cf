---------------------------- MODULE MCUploadPage ----------------------------
(* A dump of three parts, and then one of a single part, by two part workers. *)
EXTENDS UploadPage

MCWorker == {1, 2}
MCPartCount == <<3, 1>>
=============================================================================
