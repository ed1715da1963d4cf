---------------------------- MODULE JobLifecycle ----------------------------
(***************************************************************************)
(* What a client of the API may rely on about an analysis job, whatever    *)
(* happens inside: the status column, whether the one analysis the job     *)
(* gets is still to come, under way or over, and the outcomes of the       *)
(* plugins run so far.                                                     *)
(*                                                                         *)
(*  - A job is analysed at most once and outcomes only appear meanwhile.   *)
(*  - A job reads as completed only when all its plugins have an outcome   *)
(*    and one of them succeeded.                                           *)
(*  - Only the analysis completes a job; a rejected dispatch may mark it   *)
(*    failed at any time and does not stop the analysis.                   *)
(***************************************************************************)
EXTENDS Naturals, Sequences

CONSTANTS Job, Size   \* Size[j]: the number of plugins of job j

VARIABLES status, analysis, outcomes

vars == <<status, analysis, outcomes>>

PluginOutcome == {"completed", "failed", "skipped"}

Init ==
  /\ status   = [j \in Job |-> "none"]
  /\ analysis = [j \in Job |-> "to come"]
  /\ outcomes = [j \in Job |-> <<>>]

Submit(j) ==
  /\ status[j] = "none"
  /\ status' = [status EXCEPT ![j] = "queued"]
  /\ UNCHANGED <<analysis, outcomes>>

\* The claim of a queued job; the worker may be lost in the same step.
Start(j) ==
  /\ status[j] = "queued"
  /\ analysis[j] = "to come"
  /\ status' = [status EXCEPT ![j] = "running"]
  /\ \E a \in {"under way", "over"} : analysis' = [analysis EXCEPT ![j] = a]
  /\ UNCHANGED outcomes

RecordOutcome(j) ==
  /\ analysis[j] = "under way"
  /\ Len(outcomes[j]) < Size[j]
  /\ \E o \in PluginOutcome : outcomes' = [outcomes EXCEPT ![j] = Append(@, o)]
  /\ UNCHANGED <<status, analysis>>

Complete(j) ==
  /\ analysis[j] = "under way"
  /\ Len(outcomes[j]) = Size[j]
  /\ \E i \in 1..Size[j] : outcomes[j][i] = "completed"
  /\ status' = [status EXCEPT ![j] = "completed"]
  /\ UNCHANGED <<analysis, outcomes>>

\* The analysis stops, with the job marked failed by it or not.
Stop(j) ==
  /\ analysis[j] = "under way"
  /\ analysis' = [analysis EXCEPT ![j] = "over"]
  /\ \E s \in {status[j], "failed"} : status' = [status EXCEPT ![j] = s]
  /\ UNCHANGED outcomes

MarkFailed(j) ==
  /\ analysis[j] = "under way"
  /\ status' = [status EXCEPT ![j] = "failed"]
  /\ UNCHANGED <<analysis, outcomes>>

Reject(j) ==
  /\ status[j] # "none"
  /\ status' = [status EXCEPT ![j] = "failed"]
  /\ UNCHANGED <<analysis, outcomes>>

Next ==
  \E j \in Job :
    Submit(j) \/ Start(j) \/ RecordOutcome(j) \/ Complete(j) \/ Stop(j)
    \/ MarkFailed(j) \/ Reject(j)

Spec == Init /\ [][Next]_vars
=============================================================================
