------------------------------ MODULE JobResults ------------------------------
(***************************************************************************)
(* What a reader of a job's tables may rely on about its results: in which *)
(* order status and results appear while the worker is at work.            *)
(*                                                                         *)
(*  - Results only appear, and only after the job was seen as running.     *)
(*  - When the worker writes completed, the artifacts, findings and IOCs   *)
(*    it will ever store are there; only the report comes after it.        *)
(*  - A rejected dispatch may write failed over any status, and then       *)
(*    results may follow a terminal status.                                *)
(***************************************************************************)
EXTENDS Naturals

CONSTANTS Job, Result   \* Result: the kinds of rows stored before completion

VARIABLES
  status,   \* analysis_jobs.status
  phase,    \* how far the worker is: before the claim, storing,
            \* reporting, failing, over
  stored    \* the kinds of results with rows in the tables

vars == <<status, phase, stored>>

Init ==
  /\ status = [j \in Job |-> "none"]
  /\ phase  = [j \in Job |-> "to come"]
  /\ stored = [j \in Job |-> {}]

Submit(j) ==
  /\ status[j] = "none"
  /\ status' = [status EXCEPT ![j] = "queued"]
  /\ UNCHANGED <<phase, stored>>

\* The claim of a queued job; the worker may be lost in the same step.
Start(j) ==
  /\ status[j] = "queued" /\ phase[j] = "to come"
  /\ status' = [status EXCEPT ![j] = "running"]
  /\ \E p \in {"storing", "over"} : phase' = [phase EXCEPT ![j] = p]
  /\ UNCHANGED stored

Store(j, kind) ==
  /\ phase[j] = "storing"
  /\ stored' = [stored EXCEPT ![j] = @ \cup {kind}]
  /\ \E p \in {"storing", "failing"} : phase' = [phase EXCEPT ![j] = p]
  /\ UNCHANGED status

\* completed is written; the worker learns that it was, or not.
Complete(j) ==
  /\ phase[j] = "storing"
  /\ status' = [status EXCEPT ![j] = "completed"]
  /\ \E p \in {"reporting", "failing"} : phase' = [phase EXCEPT ![j] = p]
  /\ UNCHANGED stored

StoreReport(j) ==
  /\ phase[j] = "reporting"
  /\ stored' = [stored EXCEPT ![j] = @ \cup {"report"}]
  /\ phase'  = [phase EXCEPT ![j] = "over"]
  /\ UNCHANGED status

\* The worker fails, or ends.  Before the report it may mark the job failed.
End(j) ==
  /\ \/ /\ phase[j] = "storing"
        /\ \E p \in {"failing", "over"} : phase' = [phase EXCEPT ![j] = p]
     \/ /\ phase[j] \in {"failing", "reporting"}
        /\ phase' = [phase EXCEPT ![j] = "over"]
  /\ \/ UNCHANGED status
     \/ /\ phase[j] # "reporting"
        /\ status' = [status EXCEPT ![j] = "failed"]
  /\ UNCHANGED stored

Reject(j) ==
  /\ status[j] # "none"
  /\ status' = [status EXCEPT ![j] = "failed"]
  /\ UNCHANGED <<phase, stored>>

Next ==
  \E j \in Job :
    \/ Submit(j) \/ Start(j) \/ Complete(j) \/ StoreReport(j) \/ End(j) \/ Reject(j)
    \/ \E kind \in Result : Store(j, kind)

Spec == Init /\ [][Next]_vars
=============================================================================
