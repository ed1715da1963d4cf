--------------------------- MODULE MCAnalysisJob ---------------------------
(***************************************************************************)
(* Small instances of AnalysisJob.                                         *)
(***************************************************************************)
EXTENDS AnalysisJob

\* Two plugins, each requested once, as in every built-in profile.
MCTwoPlugins == [j \in Job |-> <<"pslist", "netscan">>]
MCOnePlugin  == [j \in Job |-> <<"pslist">>]
=============================================================================
