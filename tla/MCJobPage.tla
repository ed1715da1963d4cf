------------------------------- MODULE MCJobPage -------------------------------
(***************************************************************************)
(* Two reviews that differ in both columns, one with a note.               *)
(***************************************************************************)
EXTENDS JobPage

MCForm == {[review_status |-> "investigating", verdict |-> "benign", note |-> TRUE],
           [review_status |-> "reviewed", verdict |-> "unset", note |-> FALSE]}
=============================================================================
