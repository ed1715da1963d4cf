------------------------- MODULE AnalysisJobProofs -------------------------
(***************************************************************************)
(* Theorems about AnalysisJob, what it leaves in the tables and the        *)
(* buckets, and the two abstract specifications it implements, for every   *)
(* set of jobs, workers and plugins, every plan, any number of message     *)
(* copies and any kinds of faults.                                         *)
(***************************************************************************)
EXTENDS AnalysisJob, SequenceTheorems, TLAPS

USE DEF Claimable, Noop, MorePlugins, AfterIocs, AfterDispatchError, AfterFailedUpload,
        Request, Status, ErrorKind, RunStatus, TaskStep, Export, Positions,
        Outcome, Applied, Raised, Succeeds, Terminal

\* Completing the last row of a sequence of rows keeps it one of rows.
LEMMA RowUpdate ==
  ASSUME NEW s \in Seq(Row), NEW i \in Nat
  PROVE  /\ [s EXCEPT ![i] = ParsedRow(@)] \in Seq(Row)
         /\ [s EXCEPT ![i] = UnparsedRow(@)] \in Seq(Row)
<1>1. Len(s) \in Nat /\ s \in [1..Len(s) -> Row]
  BY LenProperties
<1>2. \A r \in Row : ParsedRow(r) \in Row /\ UnparsedRow(r) \in Row
  BY DEF Row, ParsedRow, UnparsedRow
<1>3. [s EXCEPT ![i] = ParsedRow(@)] \in [1..Len(s) -> Row]
  BY <1>1, <1>2
<1>4. [s EXCEPT ![i] = UnparsedRow(@)] \in [1..Len(s) -> Row]
  BY <1>1, <1>2
<1> QED
  BY <1>1, <1>3, <1>4, SeqDef

LEMMA PlanLength == \A j \in Job : Plan[j] \in Seq(Plugin) /\ Len(Plan[j]) \in Nat \ {0}
<1>1. \A j \in Job : Plan[j] \in Seq(Plugin) /\ Len(Plan[j]) > 0
  BY PlanAssumption
<1> QED
  BY <1>1, LenProperties

LEMMA PlanElement ==
  ASSUME NEW j \in Job, NEW i \in Positions(j)
  PROVE  Plan[j][i] \in Plugin
  BY PlanLength, LenProperties

LEMMA NoRunOK == NoRun \in PluginRun
  BY DEF NoRun, PluginRun

\* The three ways a step moves its task keep the task's locals well formed.
LEMMA EndTaskOK ==
  ASSUME TaskOK, NEW w \in Worker, EndTask(w)
  PROVE  TaskOK'
  BY PlanLength, NoRunOK DEF TaskOK, EndTask, Goto, Active

LEMMA ProceedOK ==
  ASSUME TaskOK, NEW w \in Worker, NEW next \in TaskStep, Proceed(w, next),
         Active(w) \/ step[w] = 1,
         next \in {"idle", "received", "claim"} => step[w] = 1
  PROVE  TaskOK'
  BY DEF TaskOK, Proceed, Goto, Active

LEMMA NextPluginOK ==
  ASSUME TaskOK, NEW w \in Worker, NEW counted \in BOOLEAN, NextPlugin(w, counted),
         Active(w)
  PROVE  TaskOK'
<1>1. succeeded' \in [Worker -> BOOLEAN]
  BY DEF TaskOK, NextPlugin
<1>2. CASE step[w] < Len(Plan[cur[w]])
  <2>1. /\ pc' = [pc EXCEPT ![w] = "run"]
        /\ step' = [step EXCEPT ![w] = step[w] + 1]
        /\ UNCHANGED <<cur, run>>
    BY <1>2 DEF NextPlugin, Goto
  <2> QED BY <1>1, <1>2, <2>1, PlanLength DEF TaskOK, Active
<1>3. CASE ~(step[w] < Len(Plan[cur[w]]))
  <2>1. pc' = [pc EXCEPT ![w] = IF succeeded[w] \/ counted THEN "detect"
                                                          ELSE "mark_failed"]
    BY <1>3 DEF NextPlugin, Goto
  <2>2. UNCHANGED <<step, cur, run>>
    BY <1>3 DEF NextPlugin
  <2> QED BY <1>1, <2>1, <2>2 DEF TaskOK, Active
<1> QED
  BY <1>2, <1>3

LEMMA TypeInit == Init => TypeOK
<1> SUFFICES ASSUME Init PROVE TypeOK
  OBVIOUS
<1>1. (CHOOSE j \in Job : TRUE) \in Job
  BY JobAssumption
<1>2. <<>> \in Seq(Row)
  OBVIOUS
<1>3. NoReport \in Snapshot
  BY <1>2 DEF NoReport, Snapshot
<1>4. TaskOK
  BY <1>1, PlanLength, NoRunOK DEF Init, TaskOK, Active
<1> QED
  BY <1>2, <1>3, <1>4 DEF Init, TypeOK, BrokerOK, JobOK, ResultOK, ObjectOK, HistoryOK








LEMMA TypeStep == TypeOK /\ [Next]_vars => TypeOK'
<1> SUFFICES ASSUME TypeOK, [Next]_vars PROVE TypeOK'
  OBVIOUS
<1> USE DEF TypeOK, vars, requestVars, brokerVars, taskVars, jobVars, resultVars,
            objectVars, historyVars
<1>1. ASSUME NEW j \in Job, CreateJob(j) PROVE TypeOK'
  <2>1. request' \in [Job -> Request]
    BY <1>1 DEF CreateJob
  <2>2. JobOK'
    BY <1>1 DEF CreateJob, JobOK, SetStatus
  <2>3. HistoryOK'
    BY <1>1 DEF CreateJob, HistoryOK, Doubt
  <2> QED BY <1>1, <2>1, <2>2, <2>3 DEF CreateJob, BrokerOK, TaskOK, Active, ResultOK, ObjectOK
<1>2. ASSUME NEW j \in Job, Dispatch(j) PROVE TypeOK'
  <2>1. request' \in [Job -> Request]
    BY <1>2 DEF Dispatch
  <2>2. BrokerOK'
    BY <1>2 DEF Dispatch, BrokerOK
  <2> QED BY <1>2, <2>1, <2>2 DEF Dispatch, TaskOK, Active, JobOK, ResultOK, ObjectOK, HistoryOK
<1>3. ASSUME NEW j \in Job, DispatchError(j) PROVE TypeOK'
  <2>1. request' \in [Job -> Request]
    BY <1>3 DEF DispatchError
  <2>2. BrokerOK'
    BY <1>3 DEF DispatchError, BrokerOK
  <2> QED BY <1>3, <2>1, <2>2 DEF DispatchError, TaskOK, Active, JobOK, ResultOK, ObjectOK, HistoryOK
<1>4. ASSUME NEW j \in Job, MarkDispatchFailed(j) PROVE TypeOK'
  <2>1. request' \in [Job -> Request]
    BY <1>4 DEF MarkDispatchFailed
  <2>2. JobOK'
    BY <1>4 DEF MarkDispatchFailed, JobOK, SetStatus
  <2>3. HistoryOK'
    BY <1>4 DEF MarkDispatchFailed, HistoryOK, Doubt
  <2> QED BY <1>4, <2>1, <2>2, <2>3 DEF MarkDispatchFailed, BrokerOK, TaskOK, Active, ResultOK, ObjectOK
<1>5. ASSUME NEW j \in Job, RequestDies(j) PROVE TypeOK'
  <2>1. request' \in [Job -> Request]
    BY <1>5 DEF RequestDies
  <2>2. HistoryOK'
    BY <1>5 DEF RequestDies, HistoryOK, Doubt
  <2> QED BY <1>5, <2>1, <2>2 DEF RequestDies, BrokerOK, TaskOK, Active, JobOK, ResultOK, ObjectOK
<1>6. ASSUME NEW w \in Worker, Receive(w) PROVE TypeOK'
  <2>1. BrokerOK'
    BY <1>6 DEF Receive, TaskOK, BrokerOK
  <2>2. TaskOK'
    <3>1. PICK j \in Job : cur' = [cur EXCEPT ![w] = j]
      BY <1>6 DEF Receive
    <3> QED BY <1>6, <3>1, PlanLength DEF Receive, TaskOK, Goto, Active
  <2> QED BY <1>6, <2>1, <2>2 DEF Receive, JobOK, ResultOK, ObjectOK, HistoryOK
<1>7. ASSUME NEW w \in Worker, StartTask(w) PROVE TypeOK'
  <2>1. BrokerOK'
    <3>1. cur[w] \in Job
      BY DEF TaskOK
    <3>2. CASE UNCHANGED brokerVars
      BY <3>2 DEF BrokerOK
    <3>3. CASE /\ queue'  = [queue EXCEPT ![cur[w]] = @ + 1]
               /\ copies' = [copies EXCEPT ![cur[w]] = @ + 1]
      BY <3>1, <3>3 DEF BrokerOK
    <3> QED BY <1>7, <3>2, <3>3 DEF StartTask
  <2>2. TaskOK'
    BY ProceedOK, <1>7 DEF StartTask, TaskOK, Active
  <2> QED BY <1>7, <2>1, <2>2 DEF StartTask, JobOK, ResultOK, ObjectOK, HistoryOK
<1>8. ASSUME NEW w \in Worker, Claim(w) PROVE TypeOK'
  <2>1. TaskOK'
    BY ProceedOK, EndTaskOK, <1>8 DEF Claim, TaskOK, Active
  <2>2. JobOK'
    BY <1>8 DEF Claim, TaskOK, JobOK, SetStatus
  <2>3. HistoryOK'
    <3>1. cur[w] \in Job
      BY DEF TaskOK
    <3>2. claims' \in {claims, [claims EXCEPT ![cur[w]] = @ + 1]}
      BY <1>8 DEF Claim
    <3>3. abandoned' \in {abandoned, abandoned \cup {cur[w]}}
      BY <1>8 DEF Claim
    <3>4. inDoubt' \in {inDoubt, inDoubt \cup {cur[w]}}
      BY <1>8 DEF Claim, Doubt
    <3> QED BY <3>1, <3>2, <3>3, <3>4 DEF HistoryOK
  <2> QED BY <1>8, <2>1, <2>2, <2>3 DEF Claim, BrokerOK, ResultOK, ObjectOK
<1>9. ASSUME NEW w \in Worker, Prepare(w) PROVE TypeOK'
  <2>1. TaskOK'
    BY ProceedOK, <1>9 DEF Prepare, TaskOK, Active
  <2> QED BY <1>9, <2>1 DEF Prepare, BrokerOK, JobOK, ResultOK, ObjectOK, HistoryOK
<1>10. ASSUME NEW w \in Worker, RunPlugin(w) PROVE TypeOK'
  <2>1. TaskOK'
    <3>1. run' \in [Worker -> PluginRun]
      <4>1. \/ UNCHANGED run
            \/ \E s \in RunStatus : run' = [run EXCEPT ![w] = [status |-> s, raw |-> FALSE]]
        BY <1>10 DEF RunPlugin
      <4>2. \A s \in RunStatus : [status |-> s, raw |-> FALSE] \in PluginRun
        BY DEF PluginRun
      <4> QED BY <4>1, <4>2 DEF TaskOK
    <3>2. pc' = [pc EXCEPT ![w] = "upload_raw"] \/ pc' = [pc EXCEPT ![w] = "handler"]
      BY <1>10 DEF RunPlugin, Goto
    <3> QED BY <1>10, <3>1, <3>2 DEF RunPlugin, TaskOK, Active
  <2> QED BY <1>10, <2>1 DEF RunPlugin, BrokerOK, JobOK, ResultOK, ObjectOK, HistoryOK
<1>11. ASSUME NEW w \in Worker, UploadRaw(w) PROVE TypeOK'
  <2>1. TaskOK'
    <3>1. run' \in [Worker -> PluginRun]
      <4>1. run[w].status \in RunStatus
        BY DEF TaskOK, PluginRun
      <4>2. run' \in {[run EXCEPT ![w] = [status |-> run[w].status, raw |-> TRUE]],
                     [run EXCEPT ![w] = [status |-> "failed", raw |-> FALSE]]}
        BY <1>11 DEF UploadRaw
      <4>3. /\ [status |-> run[w].status, raw |-> TRUE] \in PluginRun
            /\ [status |-> "failed", raw |-> FALSE] \in PluginRun
        BY <4>1 DEF PluginRun
      <4> QED BY <4>2, <4>3 DEF TaskOK
    <3>2. pc' = [pc EXCEPT ![w] = "insert"]
      BY <1>11 DEF UploadRaw, Goto
    <3> QED BY <1>11, <3>1, <3>2 DEF UploadRaw, TaskOK, Active
  <2>2. ObjectOK'
    <3> DEFINE j == cur[w]
               p == Plan[j][step[w]]
    <3>1. j \in Job /\ step[w] \in Nat /\ rawObject \in [Job -> [Plugin -> Nat]]
      BY DEF TaskOK, ObjectOK
    <3>2. [rawObject EXCEPT ![j][p] = step[w]] \in [Job -> [Plugin -> Nat]]
      BY <3>1
    <3>3. rawObject' \in {[rawObject EXCEPT ![j][p] = step[w]], rawObject}
      BY <1>11 DEF UploadRaw
    <3> QED BY <1>11, <3>1, <3>2, <3>3 DEF UploadRaw, ObjectOK
  <2> QED BY <1>11, <2>1, <2>2 DEF UploadRaw, BrokerOK, JobOK, ResultOK, HistoryOK
<1>12. ASSUME NEW w \in Worker, InsertPluginResult(w) PROVE TypeOK'
  <2>1. TaskOK'
    BY ProceedOK, NextPluginOK, <1>12 DEF InsertPluginResult, TaskOK, Active
  <2>2. ResultOK'
    BY <1>12 DEF InsertPluginResult, Row, PluginRun, TaskOK, ResultOK, FindingKind
  <2>3. HistoryOK'
    BY <1>12 DEF InsertPluginResult, TaskOK, HistoryOK, Doubt
  <2> QED BY <1>12, <2>1, <2>2, <2>3 DEF InsertPluginResult, BrokerOK, JobOK, ObjectOK
<1>13. ASSUME NEW w \in Worker, ParseOutput(w) PROVE TypeOK'
  <2>1. TaskOK'
    BY ProceedOK, <1>13 DEF ParseOutput, TaskOK, Active
  <2>2. ObjectOK'
    <3>1. cur[w] \in Job /\ Plan[cur[w]][step[w]] \in Plugin
      BY PlanElement DEF TaskOK
    <3>2. parsedObject' \in {[parsedObject EXCEPT ![cur[w]] = @ \cup {Plan[cur[w]][step[w]]}],
                            parsedObject}
      BY <1>13 DEF ParseOutput
    <3>3. parsedObject' \in [Job -> SUBSET Plugin]
      BY <3>1, <3>2 DEF ObjectOK
    <3> QED BY <1>13, <3>3 DEF ParseOutput, ObjectOK
  <2> QED BY <1>13, <2>1, <2>2 DEF ParseOutput, BrokerOK, JobOK, ResultOK, HistoryOK
<1>14. ASSUME NEW w \in Worker, StoreArtifacts(w) PROVE TypeOK'
  <2>1. TaskOK'
    BY ProceedOK, NextPluginOK, <1>14 DEF StoreArtifacts, TaskOK, Active
  <2>2. ResultOK'
    BY RowUpdate, LenProperties, <1>14 DEF StoreArtifacts, TaskOK, ResultOK, FindingKind
  <2>3. HistoryOK'
    BY <1>14 DEF StoreArtifacts, TaskOK, HistoryOK, Doubt
  <2> QED BY <1>14, <2>1, <2>2, <2>3 DEF StoreArtifacts, BrokerOK, JobOK, ObjectOK
<1>15. ASSUME NEW w \in Worker, RecordParseError(w) PROVE TypeOK'
  <2>1. TaskOK'
    BY ProceedOK, NextPluginOK, <1>15 DEF RecordParseError, TaskOK, Active
  <2>2. ResultOK'
    BY RowUpdate, LenProperties, <1>15 DEF RecordParseError, TaskOK, ResultOK, FindingKind
  <2>3. HistoryOK'
    BY <1>15 DEF RecordParseError, TaskOK, HistoryOK, Doubt
  <2> QED BY <1>15, <2>1, <2>2, <2>3 DEF RecordParseError, BrokerOK, JobOK, ObjectOK
<1>16. ASSUME NEW w \in Worker, Detect(w) PROVE TypeOK'
  <2>1. TaskOK'
    BY ProceedOK, <1>16 DEF Detect, TaskOK, Active
  <2>2. ResultOK'
    <3>1. cur[w] \in Job
      BY DEF TaskOK
    <3>2. findings \in [Job -> SUBSET FindingKind] /\ "rules" \in FindingKind
      BY DEF ResultOK, FindingKind
    <3>3. [findings EXCEPT ![cur[w]] = @ \cup {"rules"}] \in [Job -> SUBSET FindingKind]
      BY <3>1, <3>2
    <3>4. findings' \in {findings, [findings EXCEPT ![cur[w]] = @ \cup {"rules"}]}
      BY <1>16 DEF Detect
    <3>5. findings' \in [Job -> SUBSET FindingKind]
      BY <3>2, <3>3, <3>4
    <3> QED BY <1>16, <3>5 DEF Detect, ResultOK
  <2>3. HistoryOK'
    BY <1>16 DEF Detect, TaskOK, HistoryOK, Doubt
  <2> QED BY <1>16, <2>1, <2>2, <2>3 DEF Detect, BrokerOK, JobOK, ObjectOK
<1>17. ASSUME NEW w \in Worker, RecordDetectionError(w) PROVE TypeOK'
  <2>1. TaskOK'
    BY ProceedOK, <1>17 DEF RecordDetectionError, TaskOK, Active
  <2>2. ResultOK'
    BY <1>17 DEF RecordDetectionError, TaskOK, ResultOK, FindingKind
  <2>3. HistoryOK'
    BY <1>17 DEF RecordDetectionError, TaskOK, HistoryOK, Doubt
  <2> QED BY <1>17, <2>1, <2>2, <2>3 DEF RecordDetectionError, BrokerOK, JobOK, ObjectOK
<1>18. ASSUME NEW w \in Worker, ExportIocs(w) PROVE TypeOK'
  <2>1. TaskOK'
    BY ProceedOK, <1>18 DEF ExportIocs, TaskOK, Active
  <2>2. ObjectOK'
    <3>1. cur[w] \in Job
      BY DEF TaskOK
    <3>2. CASE UNCHANGED iocObjects
      BY <1>18, <3>2 DEF ExportIocs, ObjectOK
    <3>3. CASE \E done \in {{}, {"json"}, Export} :
                 iocObjects' = [iocObjects EXCEPT ![cur[w]] = @ \cup done]
      <4>1. iocObjects' \in [Job -> SUBSET Export]
        BY <3>1, <3>3 DEF ObjectOK
      <4> QED BY <1>18, <4>1 DEF ExportIocs, ObjectOK
    <3> QED BY <1>18, <3>2, <3>3 DEF ExportIocs
  <2> QED BY <1>18, <2>1, <2>2 DEF ExportIocs, BrokerOK, JobOK, ResultOK, HistoryOK
<1>19. ASSUME NEW w \in Worker, CommitIocs(w) PROVE TypeOK'
  <2>1. TaskOK'
    BY ProceedOK, <1>19 DEF CommitIocs, TaskOK, Active
  <2>2. ResultOK'
    BY <1>19 DEF CommitIocs, TaskOK, ResultOK, FindingKind
  <2>3. HistoryOK'
    BY <1>19 DEF CommitIocs, TaskOK, HistoryOK, Doubt
  <2> QED BY <1>19, <2>1, <2>2, <2>3 DEF CommitIocs, BrokerOK, JobOK, ObjectOK
<1>20. ASSUME NEW w \in Worker, MarkCompleted(w) PROVE TypeOK'
  <2>1. TaskOK'
    BY ProceedOK, <1>20 DEF MarkCompleted, TaskOK, Active
  <2>2. JobOK'
    BY <1>20 DEF MarkCompleted, TaskOK, JobOK, SetStatus
  <2>3. HistoryOK'
    BY <1>20 DEF MarkCompleted, TaskOK, HistoryOK, Doubt
  <2> QED BY <1>20, <2>1, <2>2, <2>3 DEF MarkCompleted, BrokerOK, ResultOK, ObjectOK
<1>21. ASSUME NEW w \in Worker, UploadReport(w) PROVE TypeOK'
  <2>1. TaskOK'
    BY ProceedOK, EndTaskOK, <1>21 DEF UploadReport, TaskOK, Active
  <2>2. ObjectOK'
    <3> DEFINE j == cur[w]
               rendered == [status |-> jobStatus[j], rows |-> pluginRows[j],
                            findings |-> findings[j], iocs |-> iocRows[j]]
    <3>1. j \in Job
      BY DEF TaskOK
    <3>2. rendered \in Snapshot
      BY <3>1 DEF Snapshot, JobOK, ResultOK
    <3>3. reportObject' \in {[reportObject EXCEPT ![j] = rendered], reportObject}
      BY <1>21 DEF UploadReport
    <3>4. reportObject' \in [Job -> Snapshot]
      BY <3>1, <3>2, <3>3 DEF ObjectOK
    <3> QED BY <1>21, <3>4 DEF UploadReport, ObjectOK
  <2> QED BY <1>21, <2>1, <2>2 DEF UploadReport, BrokerOK, JobOK, ResultOK, HistoryOK
<1>22. ASSUME NEW w \in Worker, CommitReport(w) PROVE TypeOK'
  <2>1. TaskOK'
    BY ProceedOK, EndTaskOK, <1>22 DEF CommitReport, TaskOK, Active
  <2>2. ResultOK'
    BY <1>22 DEF CommitReport, TaskOK, ResultOK, FindingKind
  <2>3. HistoryOK'
    BY <1>22 DEF CommitReport, TaskOK, HistoryOK, Doubt
  <2> QED BY <1>22, <2>1, <2>2, <2>3 DEF CommitReport, BrokerOK, JobOK, ObjectOK
<1>23. ASSUME NEW w \in Worker, MarkAllFailed(w) PROVE TypeOK'
  <2>1. TaskOK'
    BY ProceedOK, EndTaskOK, <1>23 DEF MarkAllFailed, TaskOK, Active
  <2>2. JobOK'
    BY <1>23 DEF MarkAllFailed, TaskOK, JobOK, SetStatus
  <2>3. HistoryOK'
    BY <1>23 DEF MarkAllFailed, TaskOK, HistoryOK, Doubt
  <2> QED BY <1>23, <2>1, <2>2, <2>3 DEF MarkAllFailed, BrokerOK, ResultOK, ObjectOK
<1>24. ASSUME NEW w \in Worker, HandleTaskError(w) PROVE TypeOK'
  <2>1. TaskOK'
    BY ProceedOK, EndTaskOK, <1>24 DEF HandleTaskError, TaskOK, Active
  <2>2. JobOK'
    BY <1>24 DEF HandleTaskError, TaskOK, JobOK, SetStatus
  <2>3. HistoryOK'
    BY <1>24 DEF HandleTaskError, TaskOK, HistoryOK, Doubt
  <2> QED BY <1>24, <2>1, <2>2, <2>3 DEF HandleTaskError, BrokerOK, ResultOK, ObjectOK
<1>25. ASSUME NEW w \in Worker, Crash(w) PROVE TypeOK'
  <2>1. BrokerOK'
    BY <1>25 DEF Crash, TaskOK, BrokerOK
  <2>2. TaskOK'
    BY ProceedOK, EndTaskOK, <1>25 DEF Crash, TaskOK, Active
  <2>3. HistoryOK'
    BY <1>25 DEF Crash, TaskOK, HistoryOK, Doubt
  <2> QED BY <1>25, <2>1, <2>2, <2>3 DEF Crash, JobOK, ResultOK, ObjectOK
<1>26. CASE UNCHANGED vars
  BY <1>26 DEF BrokerOK, TaskOK, Active, JobOK, ResultOK, ObjectOK, HistoryOK
<1> QED
  BY <1>1, <1>2, <1>3, <1>4, <1>5, <1>6, <1>7, <1>8, <1>9, <1>10, <1>11, <1>12, <1>13, <1>14, <1>15, <1>16, <1>17, <1>18, <1>19, <1>20, <1>21, <1>22, <1>23, <1>24, <1>25, <1>26
     DEF Next, RequestStep, WorkerStep, Pipeline

\* The analysis type theorem: the model's variables keep their shapes.
THEOREM TypeCorrect == Spec => []TypeOK
<1>1. Init => TypeOK
  BY TypeInit
<1>2. TypeOK /\ [Next]_vars => TypeOK'
  BY TypeStep
<1> QED
  BY <1>1, <1>2, PTL DEF Spec

\* What a step inside the pipeline may do to the control state: move on with
\* the status as it is, write a terminal status, or end the task where the
\* status is terminal already or the job is given up.
PipelineEffect(w) ==
  /\ Active(w)
  /\ UNCHANGED <<request, queue, copies, cur, claims>>
  /\ abandoned \subseteq abandoned'
  /\ \E n \in TaskStep \ {"received", "claim"} :
       /\ pc' = [pc EXCEPT ![w] = n]
       /\ \/ /\ UNCHANGED jobStatus
             /\ n # "idle"
             /\ n \in {"report", "report_commit"} => pc[w] = "report"
          \/ \E s \in Terminal : jobStatus' = [jobStatus EXCEPT ![cur[w]] = s]
          \/ /\ UNCHANGED jobStatus
             /\ n = "idle"
             /\ pc[w] \in {"report", "report_commit"} \/ cur[w] \in abandoned'

LEMMA PipelineStep ==
  ASSUME NEW w \in Worker, Pipeline(w)
  PROVE  PipelineEffect(w)
<1> USE DEF PipelineEffect, Active, requestVars, brokerVars, taskVars, jobVars, resultVars,
            objectVars, historyVars, Goto, Proceed, EndTask, NextPlugin, SetStatus
<1>1. CASE Prepare(w)
  BY <1>1 DEF Prepare
<1>2. CASE RunPlugin(w)
  BY <1>2 DEF RunPlugin
<1>3. CASE UploadRaw(w)
  <2>1. \E n \in {"insert"} : pc' = [pc EXCEPT ![w] = n]
    BY <1>3 DEF UploadRaw
  <2>2. /\ pc[w] = "upload_raw"
        /\ UNCHANGED <<request, queue, copies, cur, claims, jobStatus, abandoned>>
    BY <1>3 DEF UploadRaw
  <2> QED BY <2>1, <2>2
<1>4. CASE InsertPluginResult(w)
  BY <1>4 DEF InsertPluginResult
<1>5. CASE ParseOutput(w)
  BY <1>5 DEF ParseOutput
<1>6. CASE StoreArtifacts(w)
  <2>1. \E n \in {"parse_error", "run", "detect", "mark_failed"} : pc' = [pc EXCEPT ![w] = n]
    BY <1>6 DEF StoreArtifacts
  <2>2. /\ pc[w] = "store"
        /\ UNCHANGED <<request, queue, copies, cur, claims, jobStatus, abandoned>>
    BY <1>6 DEF StoreArtifacts
  <2> QED BY <2>1, <2>2
<1>7. CASE RecordParseError(w)
  <2>1. \E n \in {"handler", "run", "detect", "mark_failed"} : pc' = [pc EXCEPT ![w] = n]
    BY <1>7 DEF RecordParseError
  <2>2. /\ pc[w] = "parse_error"
        /\ UNCHANGED <<request, queue, copies, cur, claims, jobStatus, abandoned>>
    BY <1>7 DEF RecordParseError
  <2> QED BY <2>1, <2>2
<1>8. CASE Detect(w)
  BY <1>8 DEF Detect
<1>9. CASE RecordDetectionError(w)
  <2>1. \E n \in {"handler", "ioc"} : pc' = [pc EXCEPT ![w] = n]
    BY <1>9 DEF RecordDetectionError
  <2>2. /\ pc[w] = "detect_error"
        /\ UNCHANGED <<request, queue, copies, cur, claims, jobStatus, abandoned>>
    BY <1>9 DEF RecordDetectionError
  <2> QED BY <2>1, <2>2
<1>10. CASE ExportIocs(w)
  BY <1>10 DEF ExportIocs
<1>11. CASE CommitIocs(w)
  <2>1. \E n \in {"complete"} : pc' = [pc EXCEPT ![w] = n]
    BY <1>11 DEF CommitIocs
  <2>2. /\ pc[w] = "ioc_commit"
        /\ UNCHANGED <<request, queue, copies, cur, claims, jobStatus, abandoned>>
    BY <1>11 DEF CommitIocs
  <2> QED BY <2>1, <2>2
<1>12. CASE MarkCompleted(w)
  BY <1>12 DEF MarkCompleted
<1>13. CASE UploadReport(w)
  BY <1>13 DEF UploadReport
<1>14. CASE CommitReport(w)
  BY <1>14 DEF CommitReport
<1>15. CASE MarkAllFailed(w)
  BY <1>15 DEF MarkAllFailed
<1>16. CASE HandleTaskError(w)
  BY <1>16 DEF HandleTaskError
<1> QED
  BY <1>1, <1>2, <1>3, <1>4, <1>5, <1>6, <1>7, <1>8, <1>9, <1>10, <1>11, <1>12, <1>13, <1>14, <1>15, <1>16 DEF Pipeline

LEMMA ClaimInit == Init => ClaimInv
  BY DEF Init, ClaimInv, Active

LEMMA ClaimStep == TypeOK /\ ClaimInv /\ [Next]_vars => ClaimInv'
<1> SUFFICES ASSUME TypeOK, ClaimInv, [Next]_vars PROVE ClaimInv'
  OBVIOUS
<1>0. /\ request \in [Job -> Request] /\ pc \in [Worker -> TaskStep]
      /\ cur \in [Worker -> Job] /\ jobStatus \in [Job -> Status]
      /\ claims \in [Job -> Nat]
  BY DEF TypeOK, TaskOK, JobOK, HistoryOK
<1> USE <1>0 DEF ClaimInv, Active, vars, requestVars, brokerVars, taskVars, jobVars,
                 historyVars
<1>1. ASSUME NEW j \in Job, CreateJob(j) PROVE ClaimInv'
  <2>1. /\ jobStatus[j] = "none" /\ claims[j] = 0
        /\ \E s \in {"none", "queued"} : jobStatus' = [jobStatus EXCEPT ![j] = s]
        /\ \E r \in {"lost", "dispatch"} : request' = [request EXCEPT ![j] = r]
        /\ UNCHANGED <<pc, cur, claims>>
    BY <1>1 DEF CreateJob
  <2> QED BY <2>1
<1>2. ASSUME NEW j \in Job, Dispatch(j) \/ DispatchError(j) \/ RequestDies(j)
      PROVE ClaimInv'
  <2>1. /\ \E r \in {"answered", "compensate", "lost"} : request' = [request EXCEPT ![j] = r]
        /\ UNCHANGED <<pc, cur, claims, jobStatus>>
    BY <1>2 DEF Dispatch, DispatchError, RequestDies
  <2> QED BY <2>1
<1>3. ASSUME NEW j \in Job, MarkDispatchFailed(j) PROVE ClaimInv'
  <2>1. /\ request[j] = "compensate"
        /\ \E r \in {"lost", "rejected"} : request' = [request EXCEPT ![j] = r]
        /\ jobStatus' = [jobStatus EXCEPT ![j] = "failed"] \/ UNCHANGED jobStatus
        /\ UNCHANGED <<pc, cur, claims>>
    BY <1>3 DEF MarkDispatchFailed
  <2> QED BY <2>1
<1>4. ASSUME NEW w \in Worker, Receive(w) PROVE ClaimInv'
  <2>1. /\ pc' = [pc EXCEPT ![w] = "received"]
        /\ \E j \in Job : cur' = [cur EXCEPT ![w] = j]
        /\ UNCHANGED <<request, jobStatus, claims>>
    BY <1>4 DEF Receive, Goto
  <2> QED BY <2>1
<1>5. ASSUME NEW w \in Worker, StartTask(w) PROVE ClaimInv'
  <2>1. /\ pc' = [pc EXCEPT ![w] = "claim"]
        /\ UNCHANGED <<cur, request, jobStatus, claims>>
    BY <1>5 DEF StartTask, Proceed, Goto
  <2> QED BY <2>1
<1>6. ASSUME NEW w \in Worker, Crash(w) PROVE ClaimInv'
  <2>1. /\ pc' = [pc EXCEPT ![w] = "idle"]
        /\ UNCHANGED <<cur, request, jobStatus, claims>>
    BY <1>6 DEF Crash, EndTask, Goto
  <2> QED BY <2>1
<1>7. ASSUME NEW w \in Worker, Claim(w) PROVE ClaimInv'
  <2>1. \/ /\ jobStatus[cur[w]] = "queued"
           /\ jobStatus' = [jobStatus EXCEPT ![cur[w]] = "running"]
           /\ claims' = [claims EXCEPT ![cur[w]] = claims[cur[w]] + 1]
           /\ \E n \in {"idle", "prepare"} : pc' = [pc EXCEPT ![w] = n]
        \/ /\ pc' = [pc EXCEPT ![w] = "idle"]
           /\ UNCHANGED <<jobStatus, claims>>
    BY <1>7 DEF Claim, EndTask, Proceed, Goto
  <2>2. UNCHANGED <<cur, request>>
    BY <1>7 DEF Claim, EndTask, Proceed
  <2>3. CASE jobStatus[cur[w]] = "queued" /\ jobStatus' = [jobStatus EXCEPT ![cur[w]] = "running"]
             /\ claims' = [claims EXCEPT ![cur[w]] = claims[cur[w]] + 1]
             /\ \E n \in {"idle", "prepare"} : pc' = [pc EXCEPT ![w] = n]
    <3>1. claims[cur[w]] = 0 /\ claims'[cur[w]] = 1
      BY <2>3
    <3>2. \A v \in Worker : Active(v) => cur[v] # cur[w]
      BY <2>3
    <3> QED BY <2>2, <2>3, <3>1, <3>2
  <2>4. CASE pc' = [pc EXCEPT ![w] = "idle"] /\ UNCHANGED <<jobStatus, claims>>
    BY <2>2, <2>4
  <2> QED BY <2>1, <2>3, <2>4
<1>8. ASSUME NEW w \in Worker, Pipeline(w) PROVE ClaimInv'
  <2>1. PipelineEffect(w)
    BY <1>8, PipelineStep
  <2> QED BY <2>1 DEF PipelineEffect
<1>9. CASE UNCHANGED vars
  BY <1>9
<1> QED
  BY <1>1, <1>2, <1>3, <1>4, <1>5, <1>6, <1>7, <1>8, <1>9
     DEF Next, RequestStep, WorkerStep

LEMMA ClaimCorrect == Spec => []ClaimInv
<1>1. Init => ClaimInv
  BY ClaimInit
<1>2. TypeOK /\ ClaimInv /\ [Next]_vars => ClaimInv'
  BY ClaimStep
<1> QED
  BY <1>1, <1>2, TypeCorrect, PTL DEF Spec

\* claim_queued_job keeps its promise for any number of workers and of copies
\* of the message: a job is analysed at most once, by one worker.
THEOREM AnalysedOnce == Spec => []AnalysedAtMostOnce
<1>1. TypeOK /\ ClaimInv => AnalysedAtMostOnce
  BY DEF ClaimInv, AnalysedAtMostOnce
<1> QED
  BY <1>1, TypeCorrect, ClaimCorrect, PTL

LEMMA StrandedInit == Init => StrandedOnlyByFault
  BY DEF Init, StrandedOnlyByFault, Stranded

LEMMA StrandedStep ==
  TypeOK /\ ClaimInv /\ StrandedOnlyByFault /\ [Next]_vars => StrandedOnlyByFault'
<1> SUFFICES ASSUME TypeOK, ClaimInv, StrandedOnlyByFault, [Next]_vars,
                    NEW k \in Job, Stranded(k)'
             PROVE  k \in abandoned'
  BY DEF StrandedOnlyByFault
<1>0. /\ request \in [Job -> Request] /\ pc \in [Worker -> TaskStep]
      /\ cur \in [Worker -> Job] /\ jobStatus \in [Job -> Status]
      /\ queue \in [Job -> Nat]
  BY DEF TypeOK, TaskOK, JobOK, BrokerOK
<1> USE <1>0 DEF StrandedOnlyByFault, Stranded, Active, vars, requestVars, brokerVars,
                 taskVars, jobVars, historyVars
<1>1. ASSUME NEW j \in Job, CreateJob(j) PROVE k \in abandoned'
  <2>1. /\ \/ /\ request' = [request EXCEPT ![j] = "lost"]
              /\ jobStatus' = [jobStatus EXCEPT ![j] = "none"] \/ j \in abandoned'
           \/ request' = [request EXCEPT ![j] = "dispatch"]
        /\ \E s \in {"none", "queued"} : jobStatus' = [jobStatus EXCEPT ![j] = s]
        /\ abandoned \subseteq abandoned'
        /\ UNCHANGED <<pc, cur, queue>>
    BY <1>1 DEF CreateJob
  <2> QED BY <2>1
<1>2. ASSUME NEW j \in Job, Dispatch(j) PROVE k \in abandoned'
  <2>1. /\ request' = [request EXCEPT ![j] = "answered"]
        /\ queue' \in {[queue EXCEPT ![j] = @ + 1], [queue EXCEPT ![j] = @ + 2]}
        /\ UNCHANGED <<pc, cur, jobStatus, abandoned>>
    BY <1>2 DEF Dispatch
  <2> QED BY <2>1
<1>3. ASSUME NEW j \in Job, DispatchError(j) PROVE k \in abandoned'
  <2>1. /\ request' = [request EXCEPT ![j] = "compensate"]
        /\ queue' \in {[queue EXCEPT ![j] = @ + 0], [queue EXCEPT ![j] = @ + 1]}
        /\ request[j] = "dispatch"
        /\ UNCHANGED <<pc, cur, jobStatus, abandoned>>
    BY <1>3 DEF DispatchError
  <2> QED BY <2>1
<1>4. ASSUME NEW j \in Job, MarkDispatchFailed(j) PROVE k \in abandoned'
  <2>1. /\ j \in abandoned' \/ jobStatus' = [jobStatus EXCEPT ![j] = "failed"]
        /\ jobStatus' = [jobStatus EXCEPT ![j] = "failed"] \/ UNCHANGED jobStatus
        /\ \E r \in {"lost", "rejected"} : request' = [request EXCEPT ![j] = r]
        /\ abandoned \subseteq abandoned'
        /\ UNCHANGED <<pc, cur, queue>>
    BY <1>4 DEF MarkDispatchFailed
  <2> QED BY <2>1
<1>5. ASSUME NEW j \in Job, RequestDies(j) PROVE k \in abandoned'
  <2>1. /\ request' = [request EXCEPT ![j] = "lost"]
        /\ abandoned' = abandoned \cup {j}
        /\ UNCHANGED <<pc, cur, queue, jobStatus>>
    BY <1>5 DEF RequestDies
  <2> QED BY <2>1
<1>6. ASSUME NEW w \in Worker, Receive(w) PROVE k \in abandoned'
  <2>1. PICK j \in Job : /\ queue[j] > 0
                         /\ queue' = [queue EXCEPT ![j] = @ - 1]
                         /\ cur' = [cur EXCEPT ![w] = j]
    BY <1>6 DEF Receive
  <2>2. /\ pc[w] = "idle" /\ pc' = [pc EXCEPT ![w] = "received"]
        /\ UNCHANGED <<request, jobStatus, abandoned>>
    BY <1>6 DEF Receive, Goto
  <2> QED BY <2>1, <2>2
<1>7. ASSUME NEW w \in Worker, StartTask(w) PROVE k \in abandoned'
  <2>1. /\ pc[w] = "received" /\ pc' = [pc EXCEPT ![w] = "claim"]
        /\ UNCHANGED queue \/ queue' = [queue EXCEPT ![cur[w]] = @ + 1]
        /\ UNCHANGED <<cur, request, jobStatus, abandoned>>
    BY <1>7 DEF StartTask, Proceed, Goto
  <2> QED BY <2>1
<1>8. ASSUME NEW w \in Worker, Crash(w) PROVE k \in abandoned'
  <2>1. /\ pc' = [pc EXCEPT ![w] = "idle"]
        /\ \/ pc[w] = "received" /\ queue' = [queue EXCEPT ![cur[w]] = @ + 1]
           \/ pc[w] # "received" /\ cur[w] \in abandoned' /\ UNCHANGED queue
        /\ abandoned \subseteq abandoned'
        /\ UNCHANGED <<cur, request, jobStatus>>
    BY <1>8 DEF Crash, EndTask, Goto
  <2> QED BY <2>1
<1>9. ASSUME NEW w \in Worker, Claim(w) PROVE k \in abandoned'
  <2>1. /\ pc[w] = "claim"
        /\ UNCHANGED <<cur, request, queue>>
        /\ abandoned \subseteq abandoned'
        /\ \/ cur[w] \in abandoned' /\ pc' = [pc EXCEPT ![w] = "idle"]
              /\ \/ UNCHANGED jobStatus
                 \/ jobStatus' = [jobStatus EXCEPT ![cur[w]] = "running"]
           \/ pc' = [pc EXCEPT ![w] = "prepare"]
              /\ jobStatus' = [jobStatus EXCEPT ![cur[w]] = "running"]
           \/ jobStatus[cur[w]] # "queued" /\ UNCHANGED jobStatus
              /\ pc' = [pc EXCEPT ![w] = "idle"]
    BY <1>9 DEF Claim, EndTask, Proceed, Goto
  <2> QED BY <2>1
<1>10. ASSUME NEW w \in Worker, Pipeline(w) PROVE k \in abandoned'
  <2>1. PipelineEffect(w)
    BY <1>10, PipelineStep
  <2> QED BY <2>1 DEF PipelineEffect, ClaimInv
<1>11. CASE UNCHANGED vars
  BY <1>11
<1> QED
  BY <1>1, <1>2, <1>3, <1>4, <1>5, <1>6, <1>7, <1>8, <1>9, <1>10, <1>11
     DEF Next, RequestStep, WorkerStep

\* No interleaving of requests, duplicated messages, noops and handled failures
\* leaves a queued or running job with nobody to move it on: it takes a process
\* that died, or raised out of its last handler, while it owed the job a step.
THEOREM OnlyFaultsStrand == Spec => []StrandedOnlyByFault
<1>1. Init => StrandedOnlyByFault
  BY StrandedInit
<1>2. TypeOK /\ ClaimInv /\ StrandedOnlyByFault /\ [Next]_vars => StrandedOnlyByFault'
  BY StrandedStep
<1> QED
  BY <1>1, <1>2, TypeCorrect, ClaimCorrect, PTL DEF Spec

-----------------------------------------------------------------------------
(* What the worker leaves in the tables and the buckets. *)

\* No plugin is named twice in the plan of a job, as in the shipped profiles.
DistinctPlans ==
  \A j \in Job : \A a, b \in Positions(j) : Plan[j][a] = Plan[j][b] => a = b

-----------------------------------------------------------------------------
(* The invariant: what holds of a job, and of the task that owns it.       *)

\* RawOutputKept, ArtifactsAccounted and ResultsRestOnPlugins for one job.
RawKept(j) ==
  \A i \in 1..Len(pluginRows[j]) :
    pluginRows[j][i].status = "completed"
    => pluginRows[j][i].raw /\ rawObject[j][Plan[j][i]] = i

RowAccounted(j, i) ==
  LET row == pluginRows[j][i] IN
  /\ i \in artifacts[j] <=> row.parsed
  /\ row.parsed => /\ row.status = "completed"
                   /\ Plan[j][i] \in parsedObject[j]
                   /\ row.count = "stored" \/ j \in inDoubt
  /\ row.count = "stored" => row.parsed

Accounted(j) ==
  /\ artifacts[j] \subseteq 1..Len(pluginRows[j])
  /\ \A i \in 1..Len(pluginRows[j]) : RowAccounted(j, i)

Shown(j) ==
  \/ jobStatus[j] = "completed"
  \/ findings[j] # {} \/ iocRows[j] \/ iocObjects[j] # {} \/ reportRow[j]

\* The object of a report shows the tables as they are.
Rendered(j) ==
  /\ reportObject[j].rows     = pluginRows[j]
  /\ reportObject[j].findings = findings[j]
  /\ reportObject[j].iocs     = iocRows[j]
  /\ \/ reportObject[j].status = "completed"
     \/ reportObject[j].status = "failed" /\ request[j] \in {"rejected", "lost"}

\* Nothing is stored for a job before its claim.
Fresh(j) == claims[j] = 0 => ~Shown(j) /\ pluginRows[j] = <<>>

JobAccounted(j) ==
  /\ Fresh(j)
  /\ Len(pluginRows[j]) <= Len(Plan[j])
  /\ Accounted(j)
  /\ Shown(j) => Analysed(j)
  /\ reportRow[j] => Rendered(j)

SomeCompleted(j) ==
  \E i \in 1..Len(pluginRows[j]) : pluginRows[j][i].status = "completed"

\* The row of the plugin a task has just recorded.
LastRow(w) == pluginRows[cur[w]][step[w]]

\* How far the tables are when a task is at one of its steps.
Progress(w) ==
  /\ pc[w] \in {"prepare", "run", "upload_raw", "insert"} =>
       Len(pluginRows[cur[w]]) = step[w] - 1
  /\ pc[w] \in {"parse", "store", "parse_error"} =>
       Len(pluginRows[cur[w]]) = step[w] /\ LastRow(w).status = "completed"
  /\ pc[w] \in {"parse", "store"} => ~LastRow(w).parsed /\ LastRow(w).count = "zero"
  /\ pc[w] = "store" => Plan[cur[w]][step[w]] \in parsedObject[cur[w]]
  /\ pc[w] = "parse_error" => (LastRow(w).parsed => cur[w] \in inDoubt)
  /\ pc[w] \in {"detect", "detect_error", "ioc", "ioc_commit", "complete", "report",
                "report_commit"} => Analysed(cur[w])
  /\ succeeded[w] => SomeCompleted(cur[w])
  /\ pc[w] = "report" =>
       \/ jobStatus[cur[w]] = "completed"
       \/ jobStatus[cur[w]] = "failed" /\ request[cur[w]] \in {"rejected", "lost"}
  /\ pc[w] = "report_commit" => Rendered(cur[w])

\* A task at work has claimed its job, which has no report yet.
TaskAccounted(w) ==
  IF Active(w) THEN claims[cur[w]] = 1 /\ ~reportRow[cur[w]] /\ Progress(w)
               ELSE ~succeeded[w]

AccountInv ==
  /\ \A j \in Job : JobAccounted(j)
  /\ \A w \in Worker : TaskAccounted(w)

\* With distinct plugins the object of a key is the one its row stands for.
RunKept(w) ==
  pc[w] = "insert" /\ run[w].status = "completed" =>
    run[w].raw /\ rawObject[cur[w]][Plan[cur[w]][step[w]]] = step[w]

RawInv ==
  /\ \A j \in Job : RawKept(j)
  /\ \A w \in Worker : RunKept(w)

-----------------------------------------------------------------------------
(* Frames: a step of one actor leaves the jobs and tasks of the others.    *)

TablesKept(j) ==
  /\ pluginRows'[j]   = pluginRows[j]
  /\ artifacts'[j]    = artifacts[j]
  /\ findings'[j]     = findings[j]
  /\ iocRows'[j]      = iocRows[j]
  /\ reportRow'[j]    = reportRow[j]
  /\ parsedObject'[j] = parsedObject[j]
  /\ iocObjects'[j]   = iocObjects[j]
  /\ reportObject'[j] = reportObject[j]

\* What is over in doubt stays so, and what a request answered is final.
HistoryKept(j) ==
  /\ j \in inDoubt => j \in inDoubt'
  /\ request[j] \in {"rejected", "lost"} => request'[j] \in {"rejected", "lost"}

JobKept(j) ==
  TablesKept(j) /\ HistoryKept(j) /\ jobStatus'[j] = jobStatus[j] /\ claims'[j] = claims[j]

TaskKept(w) ==
  /\ pc'[w] = pc[w] /\ cur'[w] = cur[w]
  /\ step'[w] = step[w] /\ succeeded'[w] = succeeded[w]

\* A step of the task of w on its own job.
OwnJobOnly(w) ==
  /\ Active(w)
  /\ cur'[w] = cur[w]
  /\ \A j \in Job \ {cur[w]} : JobKept(j)
  /\ \A v \in Worker \ {w} : TaskKept(v)

LEMMA AccountedFrame ==
  ASSUME NEW j \in Job, TablesKept(j), HistoryKept(j), Accounted(j)
  PROVE  Accounted(j)'
  BY DEF TablesKept, HistoryKept, Accounted, RowAccounted

LEMMA AnalysedFrame ==
  ASSUME NEW j \in Job, TablesKept(j)
  PROVE  /\ Analysed(j) => Analysed(j)'
         /\ SomeCompleted(j) => SomeCompleted(j)'
  BY DEF TablesKept, Analysed, SomeCompleted

LEMMA RenderedFrame ==
  ASSUME NEW j \in Job, TablesKept(j), HistoryKept(j), Rendered(j)
  PROVE  Rendered(j)'
  BY DEF TablesKept, HistoryKept, Rendered

LEMMA JobFrame ==
  ASSUME NEW j \in Job, JobKept(j), JobAccounted(j)
  PROVE  JobAccounted(j)'
<1>1. Shown(j)' = Shown(j)
  BY DEF JobKept, TablesKept, Shown
<1>2. Accounted(j)' /\ (Analysed(j) => Analysed(j)') /\ (Rendered(j) => Rendered(j)')
  BY AccountedFrame, AnalysedFrame, RenderedFrame DEF JobKept, JobAccounted
<1> QED
  BY <1>1, <1>2 DEF JobKept, TablesKept, JobAccounted, Fresh

LEMMA TaskFrame ==
  ASSUME NEW w \in Worker, cur[w] \in Job, TaskKept(w), JobKept(cur[w]), TaskAccounted(w)
  PROVE  TaskAccounted(w)'
<1>1. CASE Active(w)
  <2> PICK j \in Job : j = cur[w]
    OBVIOUS
  <2>1. /\ Analysed(j) => Analysed(j)'
        /\ SomeCompleted(j) => SomeCompleted(j)'
        /\ Rendered(j) => Rendered(j)'
    BY AnalysedFrame, RenderedFrame DEF JobKept
  <2>2. cur'[w] = j /\ pc'[w] = pc[w] /\ Active(w)'
    BY <1>1 DEF TaskKept, Active
  <2>3. Progress(w)
    BY <1>1 DEF TaskAccounted
  <2>4. Progress(w)'
    <3>1. /\ pluginRows'[j] = pluginRows[j] /\ step'[w] = step[w]
          /\ succeeded'[w] = succeeded[w] /\ parsedObject'[j] = parsedObject[j]
          /\ jobStatus'[j] = jobStatus[j]
      BY DEF JobKept, TablesKept, TaskKept
    <3>2. (Analysed(cur[w]))' = Analysed(j)' /\ (SomeCompleted(cur[w]))' = SomeCompleted(j)'
          /\ (Rendered(cur[w]))' = Rendered(j)'
      BY <2>2 DEF Analysed, SomeCompleted, Rendered
    <3> QED BY <2>1, <2>2, <2>3, <3>1, <3>2 DEF Progress, LastRow, JobKept, HistoryKept
  <2> QED BY <1>1, <2>2, <2>4 DEF TaskAccounted, JobKept, TablesKept
<1>2. CASE ~Active(w)
  BY <1>2 DEF TaskAccounted, TaskKept, Active
<1> QED
  BY <1>1, <1>2

LEMMA OwnJobFrame ==
  ASSUME TypeOK, ClaimInv, AccountInv, NEW w \in Worker, OwnJobOnly(w),
         NEW j \in Job, j = cur[w], JobAccounted(j)', TaskAccounted(w)'
  PROVE  AccountInv'
<1>1. \A v \in Worker : cur[v] \in Job
  BY DEF TypeOK, TaskOK
<1>2. ASSUME NEW k \in Job PROVE JobAccounted(k)'
  <2>1. CASE k = j
    BY <2>1
  <2>2. CASE k # j
    BY <2>2, JobFrame DEF OwnJobOnly, AccountInv
  <2> QED BY <2>1, <2>2
<1>3. ASSUME NEW v \in Worker PROVE TaskAccounted(v)'
  <2>1. CASE v = w
    BY <2>1
  <2>2. CASE v # w /\ Active(v)
    <3>1. cur[v] # cur[w]
      BY <2>2 DEF ClaimInv, OwnJobOnly
    <3> QED BY <1>1, <2>2, <3>1, TaskFrame DEF OwnJobOnly, AccountInv
  <2>3. CASE v # w /\ ~Active(v)
    BY <2>3 DEF OwnJobOnly, AccountInv, TaskAccounted, TaskKept, Active
  <2> QED BY <2>1, <2>2, <2>3
<1> QED
  BY <1>2, <1>3 DEF AccountInv

LEMMA AccountInit == Init => AccountInv
<1> SUFFICES ASSUME Init PROVE AccountInv
  OBVIOUS
<1>1. ASSUME NEW j \in Job PROVE JobAccounted(j)
  <2>1. /\ pluginRows[j] = <<>> /\ artifacts[j] = {} /\ jobStatus[j] = "none"
        /\ findings[j] = {} /\ ~iocRows[j] /\ iocObjects[j] = {} /\ ~reportRow[j]
    BY DEF Init
  <2>2. Len(pluginRows[j]) = 0
    BY <2>1
  <2> QED BY <2>1, <2>2, PlanLength DEF JobAccounted, Fresh, Shown, Accounted
<1>2. ASSUME NEW w \in Worker PROVE TaskAccounted(w)
  BY DEF Init, TaskAccounted, Active
<1> QED
  BY <1>1, <1>2 DEF AccountInv

(* Steps outside the pipeline. *)

\* A request touches the status of its job only: it creates the row, or writes
\* failed over it as its last step.
RequestEffect(j) ==
  /\ UNCHANGED <<pc, cur, step, run, succeeded, resultVars, objectVars, claims>>
  /\ inDoubt \subseteq inDoubt'
  /\ \E r \in Request \ {"new"} :
       /\ request' = [request EXCEPT ![j] = r]
       /\ request[j] \notin {"rejected", "lost"}
       /\ \/ UNCHANGED jobStatus
          \/ /\ request[j] = "new" /\ r \in {"lost", "dispatch"}
             /\ \E s \in {"none", "queued"} : jobStatus' = [jobStatus EXCEPT ![j] = s]
          \/ r \in {"rejected", "lost"} /\ jobStatus' = [jobStatus EXCEPT ![j] = "failed"]

LEMMA RequestStepEffect ==
  ASSUME NEW j \in Job, RequestStep(j) \/ RequestDies(j)
  PROVE  RequestEffect(j)
<1> USE DEF RequestEffect, requestVars, brokerVars, taskVars, jobVars, historyVars
<1>1. CASE CreateJob(j)
  BY <1>1 DEF CreateJob, Doubt
<1>2. CASE Dispatch(j)
  BY <1>2 DEF Dispatch
<1>3. CASE DispatchError(j)
  BY <1>3 DEF DispatchError
<1>4. CASE MarkDispatchFailed(j)
  BY <1>4 DEF MarkDispatchFailed, Doubt
<1>5. CASE RequestDies(j)
  BY <1>5 DEF RequestDies
<1> QED
  BY <1>1, <1>2, <1>3, <1>4, <1>5 DEF RequestStep

LEMMA RequestAccounted ==
  ASSUME TypeOK, ClaimInv, AccountInv, NEW j \in Job, RequestEffect(j)
  PROVE  AccountInv'
<1>0. /\ request \in [Job -> Request] /\ jobStatus \in [Job -> Status]
      /\ cur \in [Worker -> Job]
  BY DEF TypeOK, JobOK, TaskOK
<1>1. /\ \A k \in Job : TablesKept(k) /\ HistoryKept(k)
      /\ \A w \in Worker : TaskKept(w)
      /\ UNCHANGED claims
  BY <1>0 DEF RequestEffect, TablesKept, HistoryKept, TaskKept, resultVars, objectVars
<1>2. \A k \in Job : jobStatus'[k] = "completed" => jobStatus[k] = "completed"
  BY <1>0 DEF RequestEffect
<1>3. ASSUME NEW k \in Job PROVE JobAccounted(k)'
  <2>1. Shown(k)' => Shown(k)
    BY <1>1, <1>2 DEF TablesKept, Shown
  <2>2. JobAccounted(k)
    BY DEF AccountInv
  <2>3. Accounted(k)' /\ (Analysed(k) => Analysed(k)') /\ (Rendered(k) => Rendered(k)')
    BY <1>1, <2>2, AccountedFrame, AnalysedFrame, RenderedFrame DEF JobAccounted
  <2> QED BY <1>1, <2>1, <2>2, <2>3 DEF JobAccounted, Fresh, TablesKept
<1>4. ASSUME NEW w \in Worker PROVE TaskAccounted(w)'
  <2>1. PICK k \in Job : k = cur[w]
    BY <1>0
  <2>2. CASE jobStatus'[k] = jobStatus[k]
    BY <1>1, <2>1, <2>2, TaskFrame DEF JobKept, AccountInv
  <2>3. CASE jobStatus'[k] # jobStatus[k] /\ Active(w)
    <3>1. k = j /\ request[j] # "new"
      BY <1>0, <2>1, <2>3 DEF RequestEffect, ClaimInv
    <3>2. jobStatus'[k] = "failed" /\ request'[k] \in {"rejected", "lost"}
      BY <1>0, <2>3, <3>1 DEF RequestEffect
    <3>3. /\ (Analysed(k) => Analysed(k)') /\ (Rendered(k) => Rendered(k)')
          /\ (SomeCompleted(k) => SomeCompleted(k)')
      BY <1>1, AnalysedFrame, RenderedFrame
    <3>4. pc'[w] = pc[w] /\ cur'[w] = k /\ step'[w] = step[w] /\ succeeded'[w] = succeeded[w]
      BY <1>1, <2>1 DEF TaskKept
    <3>5. TaskAccounted(w)
      BY DEF AccountInv
    <3> QED BY <1>1, <2>1, <2>3, <3>2, <3>3, <3>4, <3>5
            DEF TaskAccounted, Active, Progress, LastRow, TablesKept, HistoryKept
  <2>4. CASE ~Active(w)
    BY <1>1, <2>4 DEF AccountInv, TaskAccounted, TaskKept, Active
  <2> QED BY <2>2, <2>3, <2>4
<1> QED
  BY <1>3, <1>4 DEF AccountInv

\* Taking a message, starting or giving up a task leaves every table.
IdleEffect(w) ==
  /\ UNCHANGED <<request, jobStatus, resultVars, objectVars, claims>>
  /\ inDoubt \subseteq inDoubt'
  /\ \A v \in Worker \ {w} : TaskKept(v)
  /\ ~Active(w)' /\ ~succeeded'[w]

LEMMA IdleAccounted ==
  ASSUME TypeOK, AccountInv, NEW w \in Worker, IdleEffect(w)
  PROVE  AccountInv'
<1>0. cur \in [Worker -> Job]
  BY DEF TypeOK, TaskOK
<1>1. \A j \in Job : JobKept(j)
  BY DEF IdleEffect, JobKept, TablesKept, HistoryKept, resultVars, objectVars
<1>2. \A j \in Job : JobAccounted(j)'
  BY <1>1, JobFrame DEF AccountInv
<1>3. TaskAccounted(w)'
  BY DEF IdleEffect, TaskAccounted
<1>4. ASSUME NEW v \in Worker \ {w} PROVE TaskAccounted(v)'
  BY <1>0, <1>1, TaskFrame DEF IdleEffect, AccountInv
<1> QED
  BY <1>2, <1>3, <1>4 DEF AccountInv

LEMMA IdleStep ==
  ASSUME TypeOK, AccountInv, NEW w \in Worker, Receive(w) \/ StartTask(w) \/ Crash(w)
  PROVE  IdleEffect(w)
<1>0. /\ pc \in [Worker -> TaskStep] /\ cur \in [Worker -> Job]
      /\ step \in [Worker -> Nat] /\ succeeded \in [Worker -> BOOLEAN]
      /\ ~Active(w) => ~succeeded[w]
  BY DEF TypeOK, TaskOK, AccountInv, TaskAccounted
<1> USE <1>0 DEF IdleEffect, TaskKept, Active, requestVars, jobVars, historyVars, Goto
<1>1. CASE Receive(w)
  BY <1>1 DEF Receive
<1>2. CASE StartTask(w)
  BY <1>2 DEF StartTask, Proceed
<1>3. CASE Crash(w)
  BY <1>3 DEF Crash, EndTask
<1> QED
  BY <1>1, <1>2, <1>3

LEMMA ClaimAccounted ==
  ASSUME TypeOK, ClaimInv, AccountInv, NEW w \in Worker, Claim(w)
  PROVE  AccountInv'
<1>0. /\ pc \in [Worker -> TaskStep] /\ cur \in [Worker -> Job]
      /\ step \in [Worker -> Nat] /\ succeeded \in [Worker -> BOOLEAN]
      /\ jobStatus \in [Job -> Status] /\ claims \in [Job -> Nat]
      /\ ~Active(w) /\ ~succeeded[w] /\ step[w] = 1
  BY DEF TypeOK, TaskOK, JobOK, HistoryOK, AccountInv, TaskAccounted, Claim, Active
<1>1. PICK j \in Job : j = cur[w]
  BY <1>0
<1>2. /\ UNCHANGED <<request, cur, resultVars, objectVars>>
      /\ inDoubt \subseteq inDoubt'
      /\ \/ /\ jobStatus[j] = "queued"
            /\ jobStatus' = [jobStatus EXCEPT ![j] = "running"]
            /\ claims' = [claims EXCEPT ![j] = claims[j] + 1]
         \/ UNCHANGED <<jobStatus, claims>>
      /\ \/ /\ pc' = [pc EXCEPT ![w] = "idle"]
            /\ step' = [step EXCEPT ![w] = 1]
            /\ succeeded' = [succeeded EXCEPT ![w] = FALSE]
         \/ /\ pc' = [pc EXCEPT ![w] = "prepare"]
            /\ UNCHANGED <<step, succeeded>>
            /\ claims' = [claims EXCEPT ![j] = claims[j] + 1]
  BY <1>1 DEF Claim, EndTask, Proceed, Goto, Doubt, requestVars, jobVars, historyVars
<1>3. \A v \in Worker \ {w} : TaskKept(v)
  BY <1>0, <1>2 DEF TaskKept
<1>4. CASE UNCHANGED <<jobStatus, claims>>
  <2>1. claims[j] \in Nat /\ pc' = [pc EXCEPT ![w] = "idle"] /\ ~succeeded'[w]
    BY <1>0, <1>2, <1>4
  <2> QED BY <1>0, <1>2, <1>3, <1>4, <2>1, IdleAccounted DEF IdleEffect, Active
<1>5. CASE /\ jobStatus[j] = "queued"
           /\ jobStatus' = [jobStatus EXCEPT ![j] = "running"]
           /\ claims' = [claims EXCEPT ![j] = claims[j] + 1]
  <2>1. \A k \in Job : TablesKept(k) /\ HistoryKept(k)
    BY <1>2 DEF TablesKept, HistoryKept, resultVars, objectVars
  <2>2. \A k \in Job \ {j} : JobKept(k)
    BY <1>0, <1>5, <2>1 DEF JobKept
  <2>3. claims[j] = 0 /\ claims'[j] = 1 /\ jobStatus'[j] = "running"
    BY <1>0, <1>5 DEF ClaimInv
  <2>4. JobAccounted(j) /\ ~Shown(j) /\ pluginRows[j] = <<>>
    BY <2>3 DEF AccountInv, JobAccounted, Fresh
  <2>5. ~Shown(j)' /\ pluginRows'[j] = <<>>
    BY <2>1, <2>3, <2>4 DEF Shown, TablesKept
  <2>6. JobAccounted(j)'
    BY <2>1, <2>4, <2>5, AccountedFrame DEF JobAccounted, Fresh, Shown
  <2>7. \A k \in Job : JobAccounted(k)'
    BY <2>2, <2>6, JobFrame DEF AccountInv
  <2>8. ASSUME NEW v \in Worker \ {w} PROVE TaskAccounted(v)'
    <3>1. CASE Active(v)
      <4>1. cur[v] # j
        BY <1>5, <3>1 DEF ClaimInv
      <4> QED BY <1>0, <1>3, <2>2, <4>1, TaskFrame DEF AccountInv
    <3>2. CASE ~Active(v)
      BY <1>3, <3>2 DEF AccountInv, TaskAccounted, TaskKept, Active
    <3> QED BY <3>1, <3>2
  <2>9. TaskAccounted(w)'
    <3>1. CASE pc' = [pc EXCEPT ![w] = "idle"] /\ ~succeeded'[w]
      BY <1>0, <3>1 DEF TaskAccounted, Active
    <3>2. CASE pc' = [pc EXCEPT ![w] = "prepare"] /\ UNCHANGED <<step, succeeded>>
      <4>1. /\ pc'[w] = "prepare" /\ cur'[w] = j /\ step'[w] = 1 /\ ~succeeded'[w]
            /\ Len(pluginRows'[j]) = 0 /\ ~reportRow'[j]
        BY <1>0, <1>1, <1>2, <2>5, <3>2 DEF Shown
      <4> QED BY <2>3, <4>1 DEF TaskAccounted, Active, Progress
    <3> QED BY <1>0, <1>2, <3>1, <3>2
  <2> QED BY <2>7, <2>8, <2>9 DEF AccountInv
<1> QED
  BY <1>2, <1>4, <1>5

(* Steps of the pipeline. *)

\* The two updates of a row keep the others, the length and every status.
LEMMA UpdatedRows ==
  ASSUME NEW s \in Seq(Row), NEW i \in 1..Len(s), NEW r,
         NEW t, t = [s EXCEPT ![i] = r]
  PROVE  /\ Len(t) = Len(s)
         /\ t[i] = r
         /\ \A k \in 1..Len(s) : k # i => t[k] = s[k]
<1>1. Len(s) \in Nat /\ s \in [1..Len(s) -> Row]
  BY LenProperties
<1>2. t \in Seq(Row \cup {r})
  BY <1>1, SeqDef
<1>3. DOMAIN t = 1..Len(s)
  BY <1>1
<1>4. Len(t) = Len(s)
  BY <1>1, <1>2, <1>3, LenProperties
<1> QED
  BY <1>1, <1>4

\* What a task at work may rely on.
LEMMA AtWork ==
  ASSUME TypeOK, AccountInv, NEW w \in Worker, Active(w), NEW j \in Job, j = cur[w]
  PROVE  /\ JobAccounted(j) /\ Progress(w) /\ claims[j] = 1 /\ ~reportRow[j]
         /\ pluginRows[j] \in Seq(Row) /\ Len(pluginRows[j]) \in Nat
         /\ step[w] \in Nat \ {0} /\ step[w] <= Len(Plan[j])
         /\ pc \in [Worker -> TaskStep] /\ cur \in [Worker -> Job]
         /\ step \in [Worker -> Nat] /\ succeeded \in [Worker -> BOOLEAN]
<1>1. pluginRows[j] \in Seq(Row)
  BY DEF TypeOK, ResultOK
<1>2. Len(pluginRows[j]) \in Nat
  BY <1>1, LenProperties
<1> QED
  BY <1>1, <1>2, PlanLength DEF AccountInv, TaskAccounted, TypeOK, TaskOK

\* A step that changes the task's locals only.
LEMMA LocalsFrame ==
  ASSUME TypeOK, ClaimInv, AccountInv, NEW w \in Worker, Active(w),
         UNCHANGED <<request, cur, claims, jobStatus, resultVars, parsedObject, iocObjects,
                     reportObject>>,
         inDoubt \subseteq inDoubt', \A v \in Worker \ {w} : TaskKept(v),
         TaskAccounted(w)'
  PROVE  AccountInv'
<1>1. \A k \in Job : JobKept(k)
  BY DEF JobKept, TablesKept, HistoryKept, resultVars
<1>2. OwnJobOnly(w)
  BY <1>1 DEF OwnJobOnly
<1>3. PICK j \in Job : j = cur[w]
  BY DEF TypeOK, TaskOK
<1>4. JobAccounted(j)'
  BY <1>1, JobFrame DEF AccountInv
<1> QED
  BY <1>2, <1>3, <1>4, OwnJobFrame

\* Once the plugins are recorded, whatever is stored rests on them.
LEMMA LateJob ==
  ASSUME NEW j \in Job, JobAccounted(j), Analysed(j), claims'[j] = 1, ~reportRow'[j],
         pluginRows'[j] = pluginRows[j], artifacts'[j] = artifacts[j],
         parsedObject'[j] = parsedObject[j], inDoubt \subseteq inDoubt'
  PROVE  JobAccounted(j)' /\ Analysed(j)'
<1>1. Analysed(j)'
  BY DEF Analysed
<1>2. Accounted(j)'
  BY DEF JobAccounted, Accounted, RowAccounted
<1> QED
  BY <1>1, <1>2 DEF JobAccounted, Fresh

\* The task ends or goes to its handler, which needs nothing but the claim.
LEMMA LeftTask ==
  ASSUME TypeOK, AccountInv, NEW w \in Worker, Active(w), NEW j \in Job, j = cur[w],
         \/ pc'[w] = "handler" /\ UNCHANGED succeeded
         \/ pc'[w] = "idle" /\ ~succeeded'[w],
         cur'[w] = j, claims'[j] = 1,
         pc'[w] # "idle" => ~reportRow'[j] /\ (SomeCompleted(j) => SomeCompleted(j)')
  PROVE  TaskAccounted(w)'
<1>1. Progress(w)
  BY AtWork
<1>2. CASE pc'[w] = "handler" /\ UNCHANGED succeeded
  <2>1. succeeded'[w] => SomeCompleted(j)'
    BY <1>1, <1>2 DEF Progress
  <2> QED BY <1>2, <2>1 DEF TaskAccounted, Progress, Active, SomeCompleted
<1>3. CASE pc'[w] = "idle" /\ ~succeeded'[w]
  BY <1>3 DEF TaskAccounted, Active
<1> QED
  BY <1>2, <1>3

\* The end of a pass of the plugin loop: as many rows as plugins done.
LEMMA NextPluginAccounted ==
  ASSUME TypeOK, AccountInv, NEW w \in Worker, Active(w), NEW j \in Job, j = cur[w],
         NEW counted \in BOOLEAN, NextPlugin(w, counted),
         claims'[j] = 1, ~reportRow'[j],
         Len(pluginRows'[j]) = step[w],
         succeeded[w] \/ counted => SomeCompleted(j)'
  PROVE  TaskAccounted(w)'
<1>1. /\ step[w] \in Nat \ {0} /\ step[w] <= Len(Plan[j]) /\ Len(Plan[j]) \in Nat
      /\ pc \in [Worker -> TaskStep] /\ cur'[w] = j
      /\ step \in [Worker -> Nat] /\ succeeded \in [Worker -> BOOLEAN]
  BY AtWork, PlanLength DEF NextPlugin
<1>2. succeeded'[w] = (succeeded[w] \/ counted)
  BY <1>1 DEF NextPlugin
<1>3. CASE step[w] < Len(Plan[j])
  <2>1. pc'[w] = "run" /\ step'[w] = step[w] + 1
    BY <1>1, <1>3 DEF NextPlugin, Goto
  <2> QED BY <1>1, <1>2, <2>1 DEF TaskAccounted, Active, Progress, SomeCompleted
<1>4. CASE ~(step[w] < Len(Plan[j]))
  <2>1. /\ pc'[w] = IF succeeded[w] \/ counted THEN "detect" ELSE "mark_failed"
        /\ Len(pluginRows'[j]) = Len(Plan[j])
    BY <1>1, <1>4 DEF NextPlugin, Goto
  <2>2. SomeCompleted(j)' => Analysed(j)'
    BY <2>1 DEF SomeCompleted, Analysed
  <2> QED BY <1>1, <1>2, <2>1, <2>2 DEF TaskAccounted, Active, Progress, SomeCompleted, Analysed
<1> QED
  BY <1>3, <1>4

\* Steps that move the task and leave what readers see.
LEMMA QuietAccounted ==
  ASSUME TypeOK, ClaimInv, AccountInv, NEW w \in Worker,
         Prepare(w) \/ RunPlugin(w) \/ UploadRaw(w)
  PROVE  AccountInv'
<1>1. Active(w)
  BY DEF Prepare, RunPlugin, UploadRaw, Active
<1>2. PICK j \in Job : j = cur[w]
  BY DEF TypeOK, TaskOK
<1>3. /\ JobAccounted(j) /\ Progress(w) /\ claims[j] = 1 /\ ~reportRow[j]
      /\ pc \in [Worker -> TaskStep]
  BY <1>1, <1>2, AtWork
<1>4. /\ UNCHANGED <<request, cur, step, succeeded, claims, jobStatus, resultVars,
                     parsedObject, iocObjects, reportObject, inDoubt>>
      /\ pc[w] \in {"prepare", "run", "upload_raw"}
      /\ \E n \in {"run", "upload_raw", "insert", "handler"} : pc' = [pc EXCEPT ![w] = n]
  BY DEF Prepare, RunPlugin, UploadRaw, Proceed, Goto, requestVars, jobVars, objectVars,
         historyVars
<1>5. \A v \in Worker \ {w} : TaskKept(v)
  BY <1>3, <1>4 DEF TaskKept
<1>6. TaskAccounted(w)'
  BY <1>2, <1>3, <1>4 DEF TaskAccounted, Active, Progress, resultVars, SomeCompleted
<1> QED
  BY <1>1, <1>4, <1>5, <1>6, LocalsFrame

LEMMA InsertAccounted ==
  ASSUME TypeOK, ClaimInv, AccountInv, NEW w \in Worker, InsertPluginResult(w)
  PROVE  AccountInv'
<1>1. Active(w) /\ pc[w] = "insert"
  BY DEF InsertPluginResult, Active
<1>2. PICK j \in Job : j = cur[w]
  BY DEF TypeOK, TaskOK
<1>3. /\ JobAccounted(j) /\ Progress(w) /\ claims[j] = 1 /\ ~reportRow[j]
      /\ pluginRows[j] \in Seq(Row) /\ Len(pluginRows[j]) \in Nat
      /\ step[w] \in Nat \ {0} /\ step[w] <= Len(Plan[j])
      /\ pc \in [Worker -> TaskStep] /\ cur \in [Worker -> Job]
      /\ step \in [Worker -> Nat] /\ succeeded \in [Worker -> BOOLEAN]
  BY <1>1, <1>2, AtWork
<1> DEFINE row == [status |-> run[w].status, raw |-> run[w].raw,
                   parsed |-> FALSE, count |-> "zero"]
<1>4. PICK o \in Outcome :
        /\ pluginRows' = IF Applied(o)
                           THEN [pluginRows EXCEPT ![j] = Append(@, row)]
                           ELSE pluginRows
        /\ IF Raised(o) THEN Proceed(w, "handler")
           ELSE IF run[w].status = "completed" THEN Proceed(w, "parse")
           ELSE NextPlugin(w, FALSE)
        /\ Doubt(j, o)
  BY <1>2 DEF InsertPluginResult
<1>5. /\ UNCHANGED <<request, cur, claims, jobStatus, artifacts, findings, iocRows,
                     reportRow, parsedObject, iocObjects, reportObject>>
      /\ inDoubt \subseteq inDoubt'
      /\ \A v \in Worker \ {w} : TaskKept(v)
  <2>1. UNCHANGED cur
    BY <1>4 DEF Proceed, NextPlugin
  <2>2. \A v \in Worker \ {w} : TaskKept(v)
    BY <1>3, <1>4, <2>1 DEF TaskKept, Proceed, NextPlugin, Goto
  <2> QED BY <1>4, <2>1, <2>2 DEF InsertPluginResult, Doubt, requestVars, jobVars, objectVars
<1>6. Len(pluginRows[j]) = step[w] - 1
  BY <1>1, <1>2, <1>3 DEF Progress
<1>7. CASE o = "rollback"
  <2>1. UNCHANGED pluginRows /\ Proceed(w, "handler")
    BY <1>4, <1>7
  <2>2. TaskAccounted(w)'
    BY <1>1, <1>2, <1>3, <1>5, <2>1, LeftTask DEF Proceed, Goto, SomeCompleted
  <2> QED BY <1>1, <1>5, <2>1, <2>2, LocalsFrame DEF resultVars
<1>8. CASE o # "rollback"
  <2>0. pluginRows' = [pluginRows EXCEPT ![j] = Append(pluginRows[j], row)]
    BY <1>4, <1>8
  <2>1. pluginRows'[j] = Append(pluginRows[j], row)
    BY <2>0 DEF TypeOK, ResultOK
  <2>2. /\ Len(pluginRows'[j]) = step[w]
        /\ pluginRows'[j][step[w]] = row
        /\ \A i \in 1..(step[w] - 1) : pluginRows'[j][i] = pluginRows[j][i]
    BY <1>3, <1>6, <2>1
  <2>3. SomeCompleted(j) => SomeCompleted(j)'
    <3>1. ASSUME NEW i \in 1..Len(pluginRows[j]), pluginRows[j][i].status = "completed"
          PROVE  i \in 1..Len(pluginRows'[j]) /\ pluginRows'[j][i].status = "completed"
      <4>1. i \in 1..(step[w] - 1) /\ i \in 1..step[w]
        BY <1>3, <1>6
      <4> QED BY <2>2, <3>1, <4>1
    <3> QED BY <3>1 DEF SomeCompleted
  <2>4. OwnJobOnly(w)
    <3>1. \A k \in Job \ {j} : pluginRows'[k] = pluginRows[k]
      BY <2>0 DEF TypeOK, ResultOK
    <3> QED BY <1>1, <1>2, <1>5, <3>1 DEF OwnJobOnly, JobKept, TablesKept, HistoryKept
  <2>5. ~Shown(j) /\ ~Shown(j)'
    <3>1. ~Analysed(j)
      BY <1>3, <1>6, PlanLength DEF Analysed
    <3> QED BY <1>3, <1>5, <3>1 DEF JobAccounted, Shown
  <2>6. Accounted(j)'
    <3>1. artifacts[j] \subseteq 1..(step[w] - 1)
      BY <1>3, <1>6 DEF JobAccounted, Accounted
    <3>2. ASSUME NEW i \in 1..(step[w] - 1) PROVE RowAccounted(j, i)'
      <4>1. RowAccounted(j, i)
        BY <1>3, <1>6 DEF JobAccounted, Accounted
      <4> QED BY <1>5, <2>2, <4>1 DEF RowAccounted
    <3>3. ASSUME NEW i \in 1..Len(Plan[j]), i = step[w] PROVE RowAccounted(j, i)'
      <4>1. i \notin artifacts'[j]
        BY <1>3, <1>5, <3>1, <3>3
      <4> QED BY <2>2, <3>3, <4>1 DEF RowAccounted
    <3>4. Len(Plan[j]) \in Nat /\ artifacts'[j] \subseteq 1..Len(pluginRows'[j])
      BY <1>3, <1>5, <2>2, <3>1, PlanLength
    <3>5. ASSUME NEW i \in 1..Len(pluginRows'[j]) PROVE RowAccounted(j, i)'
      <4>1. i \in 1..(step[w] - 1) \/ (i = step[w] /\ i \in 1..Len(Plan[j]))
        BY <1>3, <2>2, <3>4
      <4> QED BY <3>2, <3>3, <4>1
    <3> QED BY <3>4, <3>5 DEF Accounted
  <2>7. JobAccounted(j)'
    BY <1>3, <1>5, <2>2, <2>5, <2>6 DEF JobAccounted, Fresh
  <2>8. TaskAccounted(w)'
    <3>1. CASE Proceed(w, "handler")
      BY <1>1, <1>2, <1>3, <1>5, <2>3, <3>1, LeftTask DEF Proceed, Goto
    <3>2. CASE run[w].status = "completed" /\ Proceed(w, "parse")
      <4>1. /\ pc'[w] = "parse" /\ cur'[w] = j /\ step'[w] = step[w]
            /\ succeeded'[w] = succeeded[w]
        BY <1>2, <1>3, <3>2 DEF Proceed, Goto
      <4>2. SomeCompleted(j)'
        BY <1>3, <2>2, <3>2 DEF SomeCompleted
      <4> QED BY <1>3, <1>5, <2>2, <3>2, <4>1, <4>2
              DEF TaskAccounted, Active, Progress, LastRow, SomeCompleted
    <3>3. CASE NextPlugin(w, FALSE)
      <4>1. succeeded[w] => SomeCompleted(j)'
        BY <1>2, <1>3, <2>3 DEF Progress
      <4> QED BY <1>1, <1>2, <1>3, <1>5, <2>2, <3>3, <4>1, NextPluginAccounted
    <3> QED BY <1>4, <3>1, <3>2, <3>3
  <2> QED BY <1>2, <2>4, <2>7, <2>8, OwnJobFrame
<1> QED
  BY <1>7, <1>8

LEMMA ParseAccounted ==
  ASSUME TypeOK, ClaimInv, AccountInv, NEW w \in Worker, ParseOutput(w)
  PROVE  AccountInv'
<1>1. Active(w) /\ pc[w] = "parse"
  BY DEF ParseOutput, Active
<1>2. PICK j \in Job : j = cur[w]
  BY DEF TypeOK, TaskOK
<1>3. /\ JobAccounted(j) /\ Progress(w) /\ claims[j] = 1 /\ ~reportRow[j]
      /\ pc \in [Worker -> TaskStep] /\ step \in [Worker -> Nat]
  BY <1>1, <1>2, AtWork
<1> DEFINE p == Plan[j][step[w]]
<1>4. /\ UNCHANGED <<request, cur, step, succeeded, claims, jobStatus, resultVars,
                     iocObjects, reportObject, inDoubt>>
      /\ \/ /\ pc' = [pc EXCEPT ![w] = "store"]
            /\ parsedObject' = [parsedObject EXCEPT ![j] = parsedObject[j] \cup {p}]
         \/ /\ pc' = [pc EXCEPT ![w] = "parse_error"]
            /\ \/ parsedObject' = [parsedObject EXCEPT ![j] = parsedObject[j] \cup {p}]
               \/ UNCHANGED parsedObject
  BY <1>2 DEF ParseOutput, Proceed, Goto, requestVars, jobVars, objectVars, historyVars
<1>5. /\ \A k \in Job \ {j} : parsedObject'[k] = parsedObject[k]
      /\ parsedObject[j] \subseteq parsedObject'[j]
      /\ pc'[w] = "store" => p \in parsedObject'[j]
  BY <1>3, <1>4 DEF TypeOK, ObjectOK
<1>6. OwnJobOnly(w)
  BY <1>1, <1>2, <1>3, <1>4, <1>5 DEF OwnJobOnly, JobKept, TablesKept, HistoryKept, TaskKept,
     resultVars
<1>7. JobAccounted(j)'
  <2>1. Accounted(j)'
    BY <1>3, <1>4, <1>5 DEF JobAccounted, Accounted, RowAccounted, resultVars
  <2> QED BY <1>3, <1>4, <2>1 DEF JobAccounted, Fresh, Shown, Analysed, resultVars
<1>8. TaskAccounted(w)'
  BY <1>1, <1>2, <1>3, <1>4, <1>5
     DEF TaskAccounted, Active, Progress, LastRow, SomeCompleted, resultVars
<1> QED
  BY <1>2, <1>6, <1>7, <1>8, OwnJobFrame

\* One row of a job gets parsed output and a record count, its status stays.
RowReplaced(j, i, r) ==
  /\ pluginRows' = [pluginRows EXCEPT ![j][i] = r]
  /\ r.status = pluginRows[j][i].status

LEMMA RowReplacement ==
  ASSUME TypeOK, NEW j \in Job, NEW i \in 1..Len(pluginRows[j]), NEW r,
         RowReplaced(j, i, r)
  PROVE  /\ Len(pluginRows'[j]) = Len(pluginRows[j])
         /\ pluginRows'[j][i] = r
         /\ \A k \in 1..Len(pluginRows[j]) : k # i => pluginRows'[j][k] = pluginRows[j][k]
         /\ \A k \in Job \ {j} : pluginRows'[k] = pluginRows[k]
         /\ SomeCompleted(j) => SomeCompleted(j)'
         /\ Analysed(j) => Analysed(j)'
<1>1. pluginRows[j] \in Seq(Row)
  BY DEF TypeOK, ResultOK
<1>2. /\ pluginRows'[j] = [pluginRows[j] EXCEPT ![i] = r]
      /\ \A k \in Job \ {j} : pluginRows'[k] = pluginRows[k]
  BY DEF TypeOK, ResultOK, RowReplaced
<1>3. /\ Len(pluginRows'[j]) = Len(pluginRows[j])
      /\ pluginRows'[j][i] = r
      /\ \A k \in 1..Len(pluginRows[j]) : k # i => pluginRows'[j][k] = pluginRows[j][k]
  BY <1>1, <1>2, UpdatedRows
<1>4. \A k \in 1..Len(pluginRows[j]) : pluginRows'[j][k].status = pluginRows[j][k].status
  BY <1>3 DEF RowReplaced
<1>5. SomeCompleted(j) => SomeCompleted(j)'
  BY <1>3, <1>4 DEF SomeCompleted
<1>6. Analysed(j) => Analysed(j)'
  BY <1>3, <1>4 DEF Analysed
<1> QED
  BY <1>2, <1>3, <1>5, <1>6

LEMMA StoreAccounted ==
  ASSUME TypeOK, ClaimInv, AccountInv, NEW w \in Worker, StoreArtifacts(w)
  PROVE  AccountInv'
<1>1. Active(w) /\ pc[w] = "store"
  BY DEF StoreArtifacts, Active
<1>2. PICK j \in Job : j = cur[w]
  BY DEF TypeOK, TaskOK
<1>3. /\ JobAccounted(j) /\ Progress(w) /\ claims[j] = 1 /\ ~reportRow[j]
      /\ pluginRows[j] \in Seq(Row) /\ Len(pluginRows[j]) \in Nat
      /\ step[w] \in Nat \ {0} /\ step[w] <= Len(Plan[j])
      /\ pc \in [Worker -> TaskStep] /\ cur \in [Worker -> Job]
      /\ step \in [Worker -> Nat] /\ succeeded \in [Worker -> BOOLEAN]
  BY <1>1, <1>2, AtWork
<1>4. /\ Len(pluginRows[j]) = step[w] /\ pluginRows[j][step[w]].status = "completed"
      /\ ~pluginRows[j][step[w]].parsed /\ pluginRows[j][step[w]].count = "zero"
      /\ Plan[j][step[w]] \in parsedObject[j]
      /\ SomeCompleted(j)
  BY <1>1, <1>2, <1>3 DEF Progress, LastRow, SomeCompleted
<1>0. PICK r : r = ParsedRow(pluginRows[j][step[w]])
  OBVIOUS
<1>5. PICK o \in Outcome :
        /\ IF Applied(o)
             THEN /\ artifacts' = [artifacts EXCEPT ![j] = @ \cup {step[w]}]
                  /\ pluginRows' = [pluginRows EXCEPT ![j][step[w]] = r]
             ELSE UNCHANGED <<artifacts, pluginRows>>
        /\ IF Raised(o) THEN Proceed(w, "parse_error") ELSE NextPlugin(w, TRUE)
        /\ Doubt(j, o)
  BY <1>2, <1>0, <1>4 DEF StoreArtifacts
<1>6. /\ UNCHANGED <<request, cur, claims, jobStatus, findings, iocRows,
                     reportRow, parsedObject, iocObjects, reportObject>>
      /\ inDoubt \subseteq inDoubt'
      /\ \A v \in Worker \ {w} : TaskKept(v)
  <2>1. UNCHANGED cur
    BY <1>5 DEF Proceed, NextPlugin
  <2>2. \A v \in Worker \ {w} : TaskKept(v)
    BY <1>3, <1>5, <2>1 DEF TaskKept, Proceed, NextPlugin, Goto
  <2> QED BY <1>5, <2>1, <2>2 DEF StoreArtifacts, Doubt, requestVars, jobVars, objectVars
<1>7. CASE o = "rollback"
  <2>1. UNCHANGED <<artifacts, pluginRows>> /\ Proceed(w, "parse_error")
    BY <1>5, <1>7
  <2>2. /\ pc'[w] = "parse_error" /\ cur'[w] = j /\ step'[w] = step[w]
        /\ succeeded'[w] = succeeded[w]
    BY <1>2, <1>3, <2>1 DEF Proceed, Goto
  <2>3. TaskAccounted(w)'
    BY <1>3, <1>4, <1>6, <2>1, <2>2 DEF TaskAccounted, Active, Progress, LastRow, SomeCompleted
  <2> QED BY <1>1, <1>6, <2>1, <2>3, LocalsFrame DEF resultVars
<1>8. CASE o # "rollback"
  <2>0. /\ artifacts' = [artifacts EXCEPT ![j] = artifacts[j] \cup {step[w]}]
        /\ pluginRows' = [pluginRows EXCEPT ![j][step[w]] = r]
    BY <1>5, <1>8
  <2>1. /\ r.status = "completed" /\ r.parsed /\ r.count = "stored"
        /\ r.status = pluginRows[j][step[w]].status
    BY <1>0, <1>4 DEF ParsedRow
  <2>2. /\ Len(pluginRows'[j]) = step[w]
        /\ pluginRows'[j][step[w]] = r
        /\ \A i \in 1..step[w] : i # step[w] => pluginRows'[j][i] = pluginRows[j][i]
        /\ \A k \in Job \ {j} : pluginRows'[k] = pluginRows[k]
        /\ SomeCompleted(j)'
        /\ Analysed(j) => Analysed(j)'
    <3>1. PICK i \in 1..Len(pluginRows[j]) : i = step[w]
      BY <1>3, <1>4
    <3>2. RowReplaced(j, i, r)
      BY <2>0, <2>1, <3>1 DEF RowReplaced
    <3>3. /\ Len(pluginRows'[j]) = Len(pluginRows[j])
          /\ pluginRows'[j][i] = r
          /\ \A k \in 1..Len(pluginRows[j]) : k # i => pluginRows'[j][k] = pluginRows[j][k]
          /\ \A k \in Job \ {j} : pluginRows'[k] = pluginRows[k]
          /\ SomeCompleted(j) => SomeCompleted(j)'
          /\ Analysed(j) => Analysed(j)'
      BY <3>2, RowReplacement
    <3> QED BY <1>4, <3>1, <3>3
  <2>3. /\ artifacts'[j] = artifacts[j] \cup {step[w]}
        /\ \A k \in Job \ {j} : artifacts'[k] = artifacts[k]
    BY <2>0 DEF TypeOK, ResultOK
  <2>4. OwnJobOnly(w)
    BY <1>1, <1>2, <1>6, <2>2, <2>3 DEF OwnJobOnly, JobKept, TablesKept, HistoryKept
  <2>5. Accounted(j)'
    <3>1. artifacts'[j] \subseteq 1..Len(pluginRows'[j])
      BY <1>3, <1>4, <2>2, <2>3 DEF JobAccounted, Accounted
    <3>2. ASSUME NEW i \in 1..Len(pluginRows'[j]) PROVE RowAccounted(j, i)'
      <4>1. CASE i = step[w]
        BY <1>4, <1>6, <2>1, <2>2, <2>3, <4>1 DEF RowAccounted
      <4>2. CASE i # step[w]
        <5>1. RowAccounted(j, i) /\ pluginRows'[j][i] = pluginRows[j][i]
          BY <1>3, <1>4, <2>2, <4>2 DEF JobAccounted, Accounted
        <5> QED BY <1>6, <2>3, <4>2, <5>1 DEF RowAccounted
      <4> QED BY <4>1, <4>2
    <3> QED BY <3>1, <3>2 DEF Accounted
  <2>6. JobAccounted(j)'
    <3>1. Shown(j)' => Analysed(j)'
      BY <1>3, <1>6, <2>2 DEF JobAccounted, Shown
    <3> QED BY <1>3, <1>6, <2>2, <2>5, <3>1 DEF JobAccounted, Fresh
  <2>7. TaskAccounted(w)'
    <3>1. CASE o = "in_doubt"
      <4>1. /\ pc'[w] = "parse_error" /\ cur'[w] = j /\ step'[w] = step[w]
            /\ j \in inDoubt'
        BY <1>2, <1>3, <1>5, <3>1 DEF Proceed, Goto, Doubt
      <4> QED BY <1>3, <1>6, <2>1, <2>2, <4>1
              DEF TaskAccounted, Active, Progress, LastRow, SomeCompleted
    <3>2. CASE o = "committed"
      <4>1. NextPlugin(w, TRUE)
        BY <1>5, <3>2
      <4> QED BY <1>1, <1>2, <1>3, <1>6, <2>2, <4>1, NextPluginAccounted
    <3> QED BY <1>8, <3>1, <3>2
  <2> QED BY <1>2, <2>4, <2>6, <2>7, OwnJobFrame
<1> QED
  BY <1>7, <1>8

LEMMA ParseErrorAccounted ==
  ASSUME TypeOK, ClaimInv, AccountInv, NEW w \in Worker, RecordParseError(w)
  PROVE  AccountInv'
<1>1. Active(w) /\ pc[w] = "parse_error"
  BY DEF RecordParseError, Active
<1>2. PICK j \in Job : j = cur[w]
  BY DEF TypeOK, TaskOK
<1>3. /\ JobAccounted(j) /\ Progress(w) /\ claims[j] = 1 /\ ~reportRow[j]
      /\ pluginRows[j] \in Seq(Row) /\ Len(pluginRows[j]) \in Nat
      /\ step[w] \in Nat \ {0} /\ step[w] <= Len(Plan[j])
      /\ pc \in [Worker -> TaskStep] /\ cur \in [Worker -> Job]
      /\ step \in [Worker -> Nat] /\ succeeded \in [Worker -> BOOLEAN]
  BY <1>1, <1>2, AtWork
<1>4. /\ Len(pluginRows[j]) = step[w] /\ pluginRows[j][step[w]].status = "completed"
      /\ pluginRows[j][step[w]].parsed => j \in inDoubt
      /\ SomeCompleted(j)
  BY <1>1, <1>2, <1>3 DEF Progress, LastRow, SomeCompleted
<1>0. PICK r : r = UnparsedRow(pluginRows[j][step[w]])
  OBVIOUS
<1>5. PICK o \in Outcome :
        /\ pluginRows' = IF Applied(o)
                           THEN [pluginRows EXCEPT ![j][step[w]] = r]
                           ELSE pluginRows
        /\ IF Raised(o) THEN Proceed(w, "handler") ELSE NextPlugin(w, TRUE)
        /\ Doubt(j, o)
  BY <1>2, <1>0, <1>4 DEF RecordParseError
<1>6. /\ UNCHANGED <<request, cur, claims, jobStatus, artifacts, findings, iocRows,
                     reportRow, parsedObject, iocObjects, reportObject>>
      /\ inDoubt \subseteq inDoubt'
      /\ \A v \in Worker \ {w} : TaskKept(v)
  <2>1. UNCHANGED cur
    BY <1>5 DEF Proceed, NextPlugin
  <2>2. \A v \in Worker \ {w} : TaskKept(v)
    BY <1>3, <1>5, <2>1 DEF TaskKept, Proceed, NextPlugin, Goto
  <2> QED BY <1>5, <2>1, <2>2 DEF RecordParseError, Doubt, requestVars, jobVars, objectVars
<1>7. CASE o = "rollback"
  <2>1. UNCHANGED pluginRows /\ Proceed(w, "handler")
    BY <1>5, <1>7
  <2>2. TaskAccounted(w)'
    BY <1>1, <1>2, <1>3, <1>6, <2>1, LeftTask DEF Proceed, Goto, SomeCompleted
  <2> QED BY <1>1, <1>6, <2>1, <2>2, LocalsFrame DEF resultVars
<1>8. CASE o # "rollback"
  <2>0. pluginRows' = [pluginRows EXCEPT ![j][step[w]] = r]
    BY <1>5, <1>8
  <2>1. /\ r.status = "completed" /\ r.parsed = pluginRows[j][step[w]].parsed
        /\ r.count = "unknown" /\ r.status = pluginRows[j][step[w]].status
    BY <1>0, <1>4 DEF UnparsedRow
  <2>2. /\ Len(pluginRows'[j]) = step[w]
        /\ pluginRows'[j][step[w]] = r
        /\ \A i \in 1..step[w] : i # step[w] => pluginRows'[j][i] = pluginRows[j][i]
        /\ \A k \in Job \ {j} : pluginRows'[k] = pluginRows[k]
        /\ SomeCompleted(j)'
        /\ Analysed(j) => Analysed(j)'
    <3>1. PICK i \in 1..Len(pluginRows[j]) : i = step[w]
      BY <1>3, <1>4
    <3>2. RowReplaced(j, i, r)
      BY <2>0, <2>1, <3>1 DEF RowReplaced
    <3>3. /\ Len(pluginRows'[j]) = Len(pluginRows[j])
          /\ pluginRows'[j][i] = r
          /\ \A k \in 1..Len(pluginRows[j]) : k # i => pluginRows'[j][k] = pluginRows[j][k]
          /\ \A k \in Job \ {j} : pluginRows'[k] = pluginRows[k]
          /\ SomeCompleted(j) => SomeCompleted(j)'
          /\ Analysed(j) => Analysed(j)'
      BY <3>2, RowReplacement
    <3> QED BY <1>4, <3>1, <3>3
  <2>4. OwnJobOnly(w)
    BY <1>1, <1>2, <1>6, <2>2 DEF OwnJobOnly, JobKept, TablesKept, HistoryKept
  <2>5. Accounted(j)'
    <3>1. artifacts'[j] \subseteq 1..Len(pluginRows'[j])
      BY <1>3, <1>4, <1>6, <2>2 DEF JobAccounted, Accounted
    <3>2. ASSUME NEW i \in 1..Len(pluginRows'[j]) PROVE RowAccounted(j, i)'
      <4>1. RowAccounted(j, i)
        BY <1>3, <1>4, <2>2, <3>2 DEF JobAccounted, Accounted
      <4>2. CASE i = step[w]
        BY <1>4, <1>6, <2>1, <2>2, <4>1, <4>2 DEF RowAccounted
      <4>3. CASE i # step[w]
        BY <1>6, <2>2, <4>1, <4>3 DEF RowAccounted
      <4> QED BY <4>2, <4>3
    <3> QED BY <3>1, <3>2 DEF Accounted
  <2>6. JobAccounted(j)'
    <3>1. Shown(j)' => Analysed(j)'
      BY <1>3, <1>6, <2>2 DEF JobAccounted, Shown
    <3> QED BY <1>3, <1>6, <2>2, <2>5, <3>1 DEF JobAccounted, Fresh
  <2>7. TaskAccounted(w)'
    <3>1. CASE Proceed(w, "handler")
      BY <1>1, <1>2, <1>3, <1>6, <2>2, <3>1, LeftTask DEF Proceed, Goto
    <3>2. CASE NextPlugin(w, TRUE)
      BY <1>1, <1>2, <1>3, <1>6, <2>2, <3>2, NextPluginAccounted
    <3> QED BY <1>5, <3>1, <3>2
  <2> QED BY <1>2, <2>4, <2>6, <2>7, OwnJobFrame
<1> QED
  BY <1>7, <1>8

\* Stages after the plugins store what they store over complete plugin rows.
LEMMA StageAccounted ==
  ASSUME TypeOK, ClaimInv, AccountInv, NEW w \in Worker,
         \/ Detect(w) \/ RecordDetectionError(w) \/ ExportIocs(w) \/ CommitIocs(w)
         \/ MarkCompleted(w)
  PROVE  AccountInv'
<1>1. Active(w) /\ pc[w] \in {"detect", "detect_error", "ioc", "ioc_commit", "complete"}
  BY DEF Detect, RecordDetectionError, ExportIocs, CommitIocs, MarkCompleted, Active
<1>2. PICK j \in Job : j = cur[w]
  BY DEF TypeOK, TaskOK
<1>3. /\ JobAccounted(j) /\ Progress(w) /\ claims[j] = 1 /\ ~reportRow[j]
      /\ pc \in [Worker -> TaskStep]
  BY <1>1, <1>2, AtWork
<1>4. Analysed(j)
  BY <1>1, <1>2, <1>3 DEF Progress
<1>5. /\ UNCHANGED <<request, cur, step, succeeded, claims, pluginRows, artifacts, reportRow,
                     parsedObject, reportObject>>
      /\ inDoubt \subseteq inDoubt'
  BY DEF Detect, RecordDetectionError, ExportIocs, CommitIocs, MarkCompleted, Proceed,
     Doubt, requestVars, jobVars, resultVars, objectVars, historyVars
<1>6. \A k \in Job \ {j} : /\ jobStatus'[k] = jobStatus[k] /\ findings'[k] = findings[k]
                           /\ iocRows'[k] = iocRows[k] /\ iocObjects'[k] = iocObjects[k]
  <2> USE <1>2 DEF TypeOK, JobOK, ResultOK, ObjectOK, jobVars, resultVars, objectVars
  <2>1. CASE Detect(w)
    BY <2>1 DEF Detect
  <2>2. CASE RecordDetectionError(w)
    BY <2>2 DEF RecordDetectionError
  <2>3. CASE ExportIocs(w)
    BY <2>3 DEF ExportIocs
  <2>4. CASE CommitIocs(w)
    BY <2>4 DEF CommitIocs
  <2>5. CASE MarkCompleted(w)
    BY <2>5 DEF MarkCompleted, SetStatus
  <2> QED BY <2>1, <2>2, <2>3, <2>4, <2>5
<1>7. \E n \in {"detect_error", "ioc", "ioc_commit", "complete", "handler", "report"} :
        /\ pc' = [pc EXCEPT ![w] = n]
        /\ n = "report" => jobStatus'[j] = "completed"
  <2> USE <1>2 DEF Proceed, Goto
  <2>1. CASE Detect(w)
    BY <2>1 DEF Detect
  <2>2. CASE RecordDetectionError(w)
    BY <2>2 DEF RecordDetectionError
  <2>3. CASE ExportIocs(w)
    BY <2>3 DEF ExportIocs
  <2>4. CASE CommitIocs(w)
    BY <2>4 DEF CommitIocs
  <2>5. CASE MarkCompleted(w)
    BY <2>5 DEF MarkCompleted, SetStatus, TypeOK, JobOK
  <2> QED BY <2>1, <2>2, <2>3, <2>4, <2>5
<1>8. OwnJobOnly(w)
  BY <1>1, <1>2, <1>3, <1>5, <1>6, <1>7 DEF OwnJobOnly, JobKept, TablesKept, HistoryKept, TaskKept
<1>9. JobAccounted(j)' /\ Analysed(j)'
  BY <1>3, <1>4, <1>5, LateJob
<1>10. TaskAccounted(w)'
  <2>1. cur'[w] = j /\ step'[w] = step[w] /\ succeeded'[w] = succeeded[w] /\ ~reportRow'[j]
        /\ claims'[j] = 1
    BY <1>2, <1>3, <1>5
  <2>2. SomeCompleted(j)'
    BY <1>9, PlanLength DEF SomeCompleted, Analysed
  <2> QED BY <1>3, <1>7, <1>9, <2>1, <2>2 DEF TaskAccounted, Active, Progress, SomeCompleted, Analysed
<1> QED
  BY <1>2, <1>8, <1>9, <1>10, OwnJobFrame

LEMMA ReportAccounted ==
  ASSUME TypeOK, ClaimInv, AccountInv, NEW w \in Worker, UploadReport(w) \/ CommitReport(w)
  PROVE  AccountInv'
<1>1. Active(w) /\ pc[w] \in {"report", "report_commit"}
  BY DEF UploadReport, CommitReport, Active
<1>2. PICK j \in Job : j = cur[w]
  BY DEF TypeOK, TaskOK
<1>3. /\ JobAccounted(j) /\ Progress(w) /\ claims[j] = 1 /\ ~reportRow[j]
      /\ pc \in [Worker -> TaskStep] /\ cur \in [Worker -> Job]
      /\ step \in [Worker -> Nat] /\ succeeded \in [Worker -> BOOLEAN]
  BY <1>1, <1>2, AtWork
<1>4. Analysed(j)
  BY <1>1, <1>2, <1>3 DEF Progress
<1>5. /\ UNCHANGED <<request, cur, claims, jobStatus, pluginRows, artifacts, findings,
                     iocRows, parsedObject, iocObjects>>
      /\ inDoubt \subseteq inDoubt'
  BY DEF UploadReport, CommitReport, Proceed, EndTask, Doubt, requestVars, jobVars,
     resultVars, objectVars, historyVars
<1>6. /\ \A v \in Worker \ {w} : TaskKept(v)
      /\ \A k \in Job \ {j} : reportRow'[k] = reportRow[k] /\ reportObject'[k] = reportObject[k]
  <2>1. CASE UploadReport(w)
    BY <1>2, <1>3, <2>1 DEF UploadReport, Proceed, EndTask, Goto, TaskKept, TypeOK, ObjectOK,
       resultVars
  <2>2. CASE CommitReport(w)
    BY <1>2, <1>3, <2>2 DEF CommitReport, EndTask, Goto, TaskKept, TypeOK, ResultOK, objectVars
  <2> QED BY <2>1, <2>2
<1>7. OwnJobOnly(w)
  BY <1>1, <1>2, <1>5, <1>6 DEF OwnJobOnly, JobKept, TablesKept, HistoryKept
<1>8. CASE UploadReport(w)
  <2>1. ~reportRow'[j]
    BY <1>3, <1>8 DEF UploadReport, resultVars
  <2>2. JobAccounted(j)'
    BY <1>3, <1>4, <1>5, <2>1, LateJob
  <2>3. \/ pc'[w] = "idle" /\ ~succeeded'[w]
        \/ /\ pc'[w] = "report_commit" /\ UNCHANGED <<step, succeeded>>
           /\ reportObject'[j] = [status |-> jobStatus[j], rows |-> pluginRows[j],
                                  findings |-> findings[j], iocs |-> iocRows[j]]
    BY <1>2, <1>3, <1>8 DEF UploadReport, Proceed, EndTask, Goto, TypeOK, ObjectOK
  <2>4. CASE pc'[w] = "idle" /\ ~succeeded'[w]
    <3>1. TaskAccounted(w)'
      BY <2>4 DEF TaskAccounted, Active
    <3> QED BY <1>2, <1>7, <2>2, <3>1, OwnJobFrame
  <2>5. CASE /\ pc'[w] = "report_commit" /\ UNCHANGED <<step, succeeded>>
             /\ reportObject'[j] = [status |-> jobStatus[j], rows |-> pluginRows[j],
                                    findings |-> findings[j], iocs |-> iocRows[j]]
    <3>1. \/ jobStatus[j] = "completed"
          \/ jobStatus[j] = "failed" /\ request[j] \in {"rejected", "lost"}
      BY <1>2, <1>3, <1>8 DEF UploadReport, Progress
    <3>2. Rendered(j)'
      BY <1>5, <2>5, <3>1 DEF Rendered
    <3>3. Analysed(j)' /\ SomeCompleted(j)'
      BY <1>4, <1>5, PlanLength DEF Analysed, SomeCompleted
    <3>4. cur'[w] = j /\ claims'[j] = 1
      BY <1>2, <1>3, <1>5
    <3>5. TaskAccounted(w)'
      BY <2>1, <2>5, <3>2, <3>3, <3>4
         DEF TaskAccounted, Active, Progress, SomeCompleted, Analysed, Rendered
    <3> QED BY <1>2, <1>7, <2>2, <3>5, OwnJobFrame
  <2> QED BY <2>3, <2>4, <2>5
<1>9. CASE CommitReport(w)
  <2>1. pc'[w] = "idle" /\ ~succeeded'[w] /\ UNCHANGED reportObject
    BY <1>3, <1>9 DEF CommitReport, EndTask, Goto, objectVars
  <2>2. Rendered(j) /\ Rendered(j)'
    BY <1>2, <1>3, <1>5, <1>9, <2>1 DEF CommitReport, Progress, Rendered
  <2>3. Analysed(j)' /\ Accounted(j)'
    BY <1>3, <1>4, <1>5 DEF Analysed, JobAccounted, Accounted, RowAccounted
  <2>4. JobAccounted(j)'
    BY <1>3, <1>5, <2>2, <2>3 DEF JobAccounted, Fresh
  <2>5. TaskAccounted(w)'
    BY <2>1 DEF TaskAccounted, Active
  <2> QED BY <1>2, <1>7, <2>4, <2>5, OwnJobFrame
<1> QED
  BY <1>8, <1>9

\* Marking the job failed shows nothing that was not shown.
LEMMA FailureAccounted ==
  ASSUME TypeOK, ClaimInv, AccountInv, NEW w \in Worker, MarkAllFailed(w) \/ HandleTaskError(w)
  PROVE  AccountInv'
<1>1. Active(w)
  BY DEF MarkAllFailed, HandleTaskError, Active
<1>2. PICK j \in Job : j = cur[w]
  BY DEF TypeOK, TaskOK
<1>3. /\ JobAccounted(j) /\ Progress(w) /\ claims[j] = 1 /\ ~reportRow[j]
      /\ pc \in [Worker -> TaskStep] /\ cur \in [Worker -> Job]
      /\ step \in [Worker -> Nat] /\ succeeded \in [Worker -> BOOLEAN]
  BY <1>1, <1>2, AtWork
<1>4. /\ UNCHANGED <<request, cur, claims, resultVars, objectVars>>
      /\ inDoubt \subseteq inDoubt'
      /\ jobStatus' = [jobStatus EXCEPT ![j] = "failed"] \/ UNCHANGED jobStatus
      /\ \/ pc' = [pc EXCEPT ![w] = "handler"] /\ UNCHANGED <<step, succeeded>>
         \/ /\ pc' = [pc EXCEPT ![w] = "idle"]
            /\ step' = [step EXCEPT ![w] = 1]
            /\ succeeded' = [succeeded EXCEPT ![w] = FALSE]
  BY <1>2 DEF MarkAllFailed, HandleTaskError, SetStatus, Proceed, EndTask, Goto, Doubt,
     requestVars, jobVars, historyVars
<1>5. \A k \in Job : TablesKept(k) /\ HistoryKept(k)
  BY <1>4 DEF TablesKept, HistoryKept, resultVars, objectVars
<1>6. OwnJobOnly(w)
  BY <1>1, <1>2, <1>3, <1>4, <1>5 DEF OwnJobOnly, JobKept, TaskKept, TypeOK, JobOK
<1>7. JobAccounted(j)'
  <2>1. Shown(j)' => Shown(j)
    BY <1>4, <1>5 DEF Shown, TablesKept, TypeOK, JobOK
  <2>2. Accounted(j)' /\ (Analysed(j) => Analysed(j)') /\ (Rendered(j) => Rendered(j)')
    BY <1>3, <1>5, AccountedFrame, AnalysedFrame, RenderedFrame DEF JobAccounted
  <2> QED BY <1>3, <1>4, <1>5, <2>1, <2>2 DEF JobAccounted, Fresh, TablesKept
<1>8. TaskAccounted(w)'
  <2>1. /\ cur'[w] = j /\ claims'[j] = 1 /\ ~reportRow'[j]
        /\ SomeCompleted(j) => SomeCompleted(j)'
    BY <1>2, <1>3, <1>4, <1>5, AnalysedFrame DEF TablesKept
  <2>2. \/ pc'[w] = "handler" /\ UNCHANGED succeeded
        \/ pc'[w] = "idle" /\ ~succeeded'[w]
    BY <1>3, <1>4
  <2> QED BY <1>1, <1>2, <2>1, <2>2, LeftTask
<1> QED
  BY <1>2, <1>6, <1>7, <1>8, OwnJobFrame

LEMMA AccountStep == TypeOK /\ ClaimInv /\ AccountInv /\ [Next]_vars => AccountInv'
<1> SUFFICES ASSUME TypeOK, ClaimInv, AccountInv, [Next]_vars PROVE AccountInv'
  OBVIOUS
<1>1. ASSUME NEW j \in Job, RequestStep(j) \/ RequestDies(j) PROVE AccountInv'
  BY <1>1, RequestStepEffect, RequestAccounted
<1>2. ASSUME NEW w \in Worker, Receive(w) \/ StartTask(w) \/ Crash(w) PROVE AccountInv'
  BY <1>2, IdleStep, IdleAccounted
<1>3. ASSUME NEW w \in Worker, Claim(w) PROVE AccountInv'
  BY <1>3, ClaimAccounted
<1>4. ASSUME NEW w \in Worker, Pipeline(w) PROVE AccountInv'
  BY <1>4, QuietAccounted, InsertAccounted, ParseAccounted, StoreAccounted,
     ParseErrorAccounted, StageAccounted, ReportAccounted, FailureAccounted DEF Pipeline
<1>5. CASE UNCHANGED vars
  <2>1. \A j \in Job : JobKept(j)
    BY <1>5 DEF vars, requestVars, jobVars, resultVars, objectVars, historyVars, JobKept,
       TablesKept, HistoryKept
  <2>2. \A w \in Worker : TaskKept(w) /\ cur[w] \in Job
    BY <1>5 DEF vars, taskVars, TaskKept, TypeOK, TaskOK
  <2> QED BY <2>1, <2>2, JobFrame, TaskFrame DEF AccountInv
<1> QED
  BY <1>1, <1>2, <1>3, <1>4, <1>5 DEF Next, WorkerStep

LEMMA AccountCorrect == Spec => []AccountInv
<1>1. Init => AccountInv
  BY AccountInit
<1>2. TypeOK /\ ClaimInv /\ AccountInv /\ [Next]_vars => AccountInv'
  BY AccountStep
<1> QED
  BY <1>1, <1>2, TypeCorrect, ClaimCorrect, PTL DEF Spec

\* For every plan, also one that names a plugin twice: artifact rows, row counts
\* and parsed outputs agree, what a job shows rests on all its plugin rows, and
\* a listed report shows the tables as they are.
THEOREM TablesAccounted ==
  Spec => [](ArtifactsAccounted /\ ResultsRestOnPlugins /\ ReportIsCurrent)
<1>1. AccountInv => ArtifactsAccounted /\ ResultsRestOnPlugins /\ ReportIsCurrent
  BY DEF AccountInv, JobAccounted, Accounted, RowAccounted, Shown, Rendered,
     ArtifactsAccounted, ResultsRestOnPlugins, ReportIsCurrent
<1> QED
  BY <1>1, AccountCorrect, PTL

-----------------------------------------------------------------------------
(* The raw outputs.                                                        *)

LEMMA RawInit == Init => RawInv
<1> SUFFICES ASSUME Init PROVE RawInv
  OBVIOUS
<1>1. \A j \in Job : Len(pluginRows[j]) = 0
  BY DEF Init
<1> QED
  BY <1>1 DEF Init, RawInv, RawKept, RunKept

\* A step that neither records a plugin nor comes to do so.
RawQuiet ==
  /\ UNCHANGED <<pluginRows, rawObject>>
  /\ \A w \in Worker : pc'[w] = "insert" =>
       /\ pc[w] = "insert" /\ cur'[w] = cur[w]
       /\ run'[w] = run[w] /\ step'[w] = step[w]

LEMMA RawFrame ==
  ASSUME RawInv, RawQuiet
  PROVE  RawInv'
  BY DEF RawInv, RawQuiet, RawKept, RunKept

LEMMA QuietSteps ==
  ASSUME TypeOK, NEW w \in Worker,
         \/ Receive(w) \/ StartTask(w) \/ Crash(w) \/ Claim(w) \/ Prepare(w) \/ RunPlugin(w)
         \/ ParseOutput(w) \/ Detect(w) \/ RecordDetectionError(w) \/ ExportIocs(w)
         \/ CommitIocs(w) \/ MarkCompleted(w) \/ UploadReport(w) \/ CommitReport(w)
         \/ MarkAllFailed(w) \/ HandleTaskError(w)
  PROVE  RawQuiet
<1>0. /\ pc \in [Worker -> TaskStep] /\ cur \in [Worker -> Job]
      /\ step \in [Worker -> Nat] /\ run \in [Worker -> PluginRun]
  BY DEF TypeOK, TaskOK
<1> USE <1>0 DEF RawQuiet, Goto, Proceed, EndTask, resultVars, objectVars
<1>1. CASE Receive(w)
  BY <1>1 DEF Receive
<1>2. CASE StartTask(w) \/ Crash(w)
  BY <1>2 DEF StartTask, Crash
<1>3. CASE Claim(w)
  BY <1>3 DEF Claim
<1>4. CASE Prepare(w) \/ RunPlugin(w)
  BY <1>4 DEF Prepare, RunPlugin
<1>5. CASE ParseOutput(w) \/ ExportIocs(w)
  BY <1>5 DEF ParseOutput, ExportIocs
<1>6. CASE Detect(w) \/ RecordDetectionError(w)
  BY <1>6 DEF Detect, RecordDetectionError
<1>7. CASE CommitIocs(w) \/ MarkCompleted(w)
  BY <1>7 DEF CommitIocs, MarkCompleted
<1>8. CASE UploadReport(w) \/ CommitReport(w)
  BY <1>8 DEF UploadReport, CommitReport
<1>9. CASE MarkAllFailed(w) \/ HandleTaskError(w)
  BY <1>9 DEF MarkAllFailed, HandleTaskError
<1> QED
  BY <1>1, <1>2, <1>3, <1>4, <1>5, <1>6, <1>7, <1>8, <1>9

\* The key of an upload is no other plugin's, so no recorded output is replaced.
LEMMA UploadRawKept ==
  ASSUME DistinctPlans, TypeOK, ClaimInv, AccountInv, RawInv, NEW w \in Worker, UploadRaw(w)
  PROVE  RawInv'
<1>1. Active(w) /\ pc[w] = "upload_raw"
  BY DEF UploadRaw, Active
<1>2. PICK j \in Job : j = cur[w]
  BY DEF TypeOK, TaskOK
<1>3. /\ Progress(w) /\ step[w] \in Nat \ {0} /\ step[w] <= Len(Plan[j])
      /\ pc \in [Worker -> TaskStep] /\ cur \in [Worker -> Job]
      /\ step \in [Worker -> Nat] /\ run \in [Worker -> PluginRun]
      /\ Len(pluginRows[j]) \in Nat /\ Len(Plan[j]) \in Nat
  BY <1>1, <1>2, AtWork, PlanLength DEF TypeOK, TaskOK
<1>4. PICK p \in Plugin : p = Plan[j][step[w]]
  BY <1>3, PlanElement
<1>5. /\ rawObject \in [Job -> [Plugin -> Nat]]
      /\ rawObject' = [rawObject EXCEPT ![j][p] = step[w]] \/ UNCHANGED rawObject
      /\ \/ /\ rawObject' = [rawObject EXCEPT ![j][p] = step[w]]
            /\ run' = [run EXCEPT ![w] = [status |-> run[w].status, raw |-> TRUE]]
         \/ run' = [run EXCEPT ![w] = [status |-> "failed", raw |-> FALSE]]
      /\ pc' = [pc EXCEPT ![w] = "insert"]
      /\ UNCHANGED <<cur, step, pluginRows>>
  BY <1>2, <1>4 DEF UploadRaw, Goto, resultVars, TypeOK, ObjectOK
<1>6. \A k \in Job, q \in Plugin :
        k # j \/ q # p => rawObject'[k][q] = rawObject[k][q]
  BY <1>5
<1>7. ASSUME NEW k \in Job PROVE RawKept(k)'
  <2>1. ASSUME NEW i \in 1..Len(pluginRows[k]), pluginRows[k][i].status = "completed"
        PROVE  pluginRows[k][i].raw /\ rawObject'[k][Plan[k][i]] = i
    <3>1. pluginRows[k][i].raw /\ rawObject[k][Plan[k][i]] = i
      BY <2>1 DEF RawInv, RawKept
    <3>2. i \in Positions(k) /\ Plan[k][i] \in Plugin
      <4>1. Len(pluginRows[k]) <= Len(Plan[k]) /\ Len(pluginRows[k]) \in Nat
        BY LenProperties DEF AccountInv, JobAccounted, TypeOK, ResultOK
      <4>2. i \in Positions(k)
        BY <4>1, PlanLength
      <4> QED BY <4>2, PlanElement
    <3>3. k = j => Plan[k][i] # p
      <4>1. ASSUME k = j PROVE i # step[w] /\ step[w] \in Positions(k)
        BY <1>1, <1>2, <1>3, <4>1 DEF Progress
      <4> QED BY <1>4, <3>2, <4>1 DEF DistinctPlans
    <3> QED BY <1>6, <3>1, <3>2, <3>3
  <2> QED BY <1>5, <2>1 DEF RawKept
<1>8. ASSUME NEW v \in Worker PROVE RunKept(v)'
  <2>1. CASE v = w
    <3>1. /\ cur'[w] = j /\ step'[w] = step[w] /\ run[w] \in PluginRun
          /\ \/ rawObject'[j][p] = step[w] /\ run'[w].raw
             \/ run'[w].status = "failed"
      BY <1>2, <1>3, <1>5
    <3> QED BY <1>4, <2>1, <3>1 DEF RunKept
  <2>2. CASE v # w
    <3>1. /\ pc'[v] = pc[v] /\ cur'[v] = cur[v] /\ run'[v] = run[v] /\ step'[v] = step[v]
          /\ cur[v] \in Job
      BY <1>3, <1>5, <2>2
    <3>2. CASE pc[v] = "insert"
      <4>1. cur[v] # j
        BY <1>1, <1>2, <2>2, <3>2 DEF ClaimInv, Active
      <4>2. Plan[cur[v]][step[v]] \in Plugin
        BY <3>1, PlanElement DEF TypeOK, TaskOK
      <4> QED BY <1>6, <3>1, <4>1, <4>2 DEF RunKept, RawInv
    <3> QED BY <3>1, <3>2 DEF RunKept
  <2> QED BY <2>1, <2>2
<1> QED
  BY <1>7, <1>8 DEF RawInv

\* The row of a plugin is the run it was made from.
LEMMA InsertRawKept ==
  ASSUME TypeOK, AccountInv, RawInv, NEW w \in Worker, InsertPluginResult(w)
  PROVE  RawInv'
<1>1. Active(w) /\ pc[w] = "insert"
  BY DEF InsertPluginResult, Active
<1>2. PICK j \in Job : j = cur[w]
  BY DEF TypeOK, TaskOK
<1>3. /\ Progress(w) /\ step[w] \in Nat \ {0} /\ pluginRows[j] \in Seq(Row)
      /\ pc \in [Worker -> TaskStep] /\ cur \in [Worker -> Job]
      /\ step \in [Worker -> Nat] /\ run \in [Worker -> PluginRun]
      /\ Len(pluginRows[j]) = step[w] - 1
  BY <1>1, <1>2, AtWork DEF Progress, TypeOK, TaskOK
<1> DEFINE row == [status |-> run[w].status, raw |-> run[w].raw,
                   parsed |-> FALSE, count |-> "zero"]
<1>4. /\ \/ pluginRows' = [pluginRows EXCEPT ![j] = Append(pluginRows[j], row)]
         \/ UNCHANGED pluginRows
      /\ UNCHANGED <<cur, run, rawObject>>
      /\ Proceed(w, "handler") \/ Proceed(w, "parse") \/ NextPlugin(w, FALSE)
  BY <1>2 DEF InsertPluginResult, Proceed, NextPlugin, objectVars
<1>5. \A v \in Worker : pc'[v] = "insert" => pc[v] = "insert" /\ step'[v] = step[v]
  BY <1>3, <1>4 DEF Proceed, NextPlugin, Goto
<1>6. \A v \in Worker : RunKept(v)'
  BY <1>4, <1>5 DEF RawInv, RunKept
<1>7. CASE UNCHANGED pluginRows
  BY <1>4, <1>6, <1>7 DEF RawInv, RawKept
<1>8. CASE pluginRows' = [pluginRows EXCEPT ![j] = Append(pluginRows[j], row)]
  <2>1. /\ pluginRows'[j] = Append(pluginRows[j], row)
        /\ \A k \in Job \ {j} : pluginRows'[k] = pluginRows[k]
    BY <1>8 DEF TypeOK, ResultOK
  <2>2. /\ Len(pluginRows'[j]) = step[w]
        /\ pluginRows'[j][step[w]] = row
        /\ \A i \in 1..(step[w] - 1) : pluginRows'[j][i] = pluginRows[j][i]
    BY <1>3, <2>1
  <2>3. RawKept(j)'
    <3>1. ASSUME NEW i \in 1..step[w], pluginRows'[j][i].status = "completed"
          PROVE  pluginRows'[j][i].raw /\ rawObject[j][Plan[j][i]] = i
      <4>1. CASE i = step[w]
        <5>1. run[w].status = "completed" /\ pluginRows'[j][i].raw = run[w].raw
          BY <2>2, <3>1, <4>1
        <5> QED BY <1>1, <1>2, <4>1, <5>1 DEF RawInv, RunKept
      <4>2. CASE i # step[w]
        <5>1. i \in 1..(step[w] - 1)
          BY <1>3, <4>2
        <5> QED BY <1>3, <2>2, <3>1, <5>1 DEF RawInv, RawKept
      <4> QED BY <4>1, <4>2
    <3> QED BY <1>4, <2>2, <3>1 DEF RawKept
  <2>4. \A k \in Job \ {j} : RawKept(k)'
    BY <1>4, <2>1 DEF RawInv, RawKept
  <2> QED BY <1>6, <2>3, <2>4 DEF RawInv
<1> QED
  BY <1>4, <1>7, <1>8

\* The two updates of a row keep its status and its raw output.
LEMMA UpdateRawKept ==
  ASSUME TypeOK, AccountInv, RawInv, NEW w \in Worker,
         StoreArtifacts(w) \/ RecordParseError(w)
  PROVE  RawInv'
<1>1. Active(w) /\ pc[w] \in {"store", "parse_error"}
  BY DEF StoreArtifacts, RecordParseError, Active
<1>2. PICK j \in Job : j = cur[w]
  BY DEF TypeOK, TaskOK
<1>3. /\ Progress(w) /\ step[w] \in Nat \ {0} /\ pluginRows[j] \in Seq(Row)
      /\ pc \in [Worker -> TaskStep] /\ step \in [Worker -> Nat]
      /\ Len(pluginRows[j]) = step[w]
  BY <1>1, <1>2, AtWork DEF Progress
<1>4. PICK i \in 1..Len(pluginRows[j]) : i = Len(pluginRows[j])
  BY <1>3
<1>5. \E r \in {ParsedRow(pluginRows[j][i]), UnparsedRow(pluginRows[j][i])} :
        pluginRows' = [pluginRows EXCEPT ![j][i] = r] \/ UNCHANGED pluginRows
  BY <1>2, <1>4 DEF StoreArtifacts, RecordParseError
<1>6. PICK r : /\ pluginRows' = [pluginRows EXCEPT ![j][i] = r] \/ UNCHANGED pluginRows
               /\ r.status = pluginRows[j][i].status /\ r.raw = pluginRows[j][i].raw
  BY <1>5 DEF ParsedRow, UnparsedRow
<1>7. /\ UNCHANGED <<cur, run, rawObject>>
      /\ Proceed(w, "handler") \/ Proceed(w, "parse_error") \/ NextPlugin(w, TRUE)
  BY DEF StoreArtifacts, RecordParseError, Proceed, NextPlugin, objectVars
<1>8. \A v \in Worker : pc'[v] = "insert" => pc[v] = "insert" /\ step'[v] = step[v]
  BY <1>3, <1>7 DEF Proceed, NextPlugin, Goto
<1>9. \A v \in Worker : RunKept(v)'
  BY <1>7, <1>8 DEF RawInv, RunKept
<1>10. CASE UNCHANGED pluginRows
  BY <1>7, <1>9, <1>10 DEF RawInv, RawKept
<1>11. CASE pluginRows' = [pluginRows EXCEPT ![j][i] = r]
  <2>1. RowReplaced(j, i, r)
    BY <1>6, <1>11 DEF RowReplaced
  <2>2. /\ Len(pluginRows'[j]) = Len(pluginRows[j])
        /\ pluginRows'[j][i] = r
        /\ \A k \in 1..Len(pluginRows[j]) : k # i => pluginRows'[j][k] = pluginRows[j][k]
        /\ \A k \in Job \ {j} : pluginRows'[k] = pluginRows[k]
    BY <2>1, RowReplacement
  <2>3. RawKept(j)'
    BY <1>6, <1>7, <2>2 DEF RawInv, RawKept
  <2>4. \A k \in Job \ {j} : RawKept(k)'
    BY <1>7, <2>2 DEF RawInv, RawKept
  <2> QED BY <1>9, <2>3, <2>4 DEF RawInv
<1> QED
  BY <1>6, <1>10, <1>11

LEMMA RawStep ==
  DistinctPlans /\ TypeOK /\ ClaimInv /\ AccountInv /\ RawInv /\ [Next]_vars => RawInv'
<1> SUFFICES ASSUME DistinctPlans, TypeOK, ClaimInv, AccountInv, RawInv, [Next]_vars
             PROVE  RawInv'
  OBVIOUS
<1>1. ASSUME NEW j \in Job, RequestStep(j) \/ RequestDies(j) PROVE RawInv'
  <2>1. RawQuiet
    BY <1>1, RequestStepEffect DEF RequestEffect, RawQuiet, resultVars, objectVars
  <2> QED BY <2>1, RawFrame
<1>2. ASSUME NEW w \in Worker, WorkerStep(w) \/ Crash(w) PROVE RawInv'
  <2>1. CASE UploadRaw(w)
    BY <2>1, UploadRawKept
  <2>2. CASE InsertPluginResult(w)
    BY <2>2, InsertRawKept
  <2>3. CASE StoreArtifacts(w) \/ RecordParseError(w)
    BY <2>3, UpdateRawKept
  <2>4. CASE ~(UploadRaw(w) \/ InsertPluginResult(w) \/ StoreArtifacts(w) \/ RecordParseError(w))
    BY <1>2, <2>4, QuietSteps, RawFrame DEF WorkerStep, Pipeline
  <2> QED BY <2>1, <2>2, <2>3, <2>4
<1>3. CASE UNCHANGED vars
  <2>1. RawQuiet
    BY <1>3 DEF vars, taskVars, resultVars, objectVars, RawQuiet
  <2> QED BY <2>1, RawFrame
<1> QED
  BY <1>1, <1>2, <1>3 DEF Next

\* When no plugin is named twice, everything the run checks of the tables and
\* the buckets holds: every completed plugin also keeps its own raw output,
\* whatever fails after its upload.
THEOREM ResultsKept == ASSUME DistinctPlans PROVE Spec => []ResultsAccounted
<1>1. Init => RawInv
  BY RawInit
<1>2. TypeOK /\ ClaimInv /\ AccountInv /\ RawInv /\ [Next]_vars => RawInv'
  BY RawStep
<1>3. RawInv => RawOutputKept
  BY DEF RawInv, RawKept, RawOutputKept
<1>4. RawInv /\ ArtifactsAccounted /\ ResultsRestOnPlugins /\ ReportIsCurrent
      => ResultsAccounted
  BY <1>3 DEF ResultsAccounted
<1> QED
  BY <1>1, <1>2, <1>4, TypeCorrect, ClaimCorrect, AccountCorrect, TablesAccounted, PTL
     DEF Spec

-----------------------------------------------------------------------------
(* The status of a job.                                                    *)

\* A rejected dispatch has a row to mark, and a task that has not written its
\* own result reads as failed only through a rejected dispatch, as completed
\* only in the handler of a commit that was left in doubt.
StatusInv ==
  /\ \A j \in Job : request[j] \in {"dispatch", "compensate"} => jobStatus[j] # "none"
  /\ \A w \in Worker : Active(w) /\ pc[w] \notin {"report", "report_commit"} =>
       /\ jobStatus[cur[w]] = "completed" => pc[w] = "handler" /\ cur[w] \in inDoubt
       /\ jobStatus[cur[w]] = "failed" /\ pc[w] # "handler"
          => jobError[cur[w]] = "dispatch"

\* How a step of the pipeline moves the task and writes the status of its job.
StatusEffect(w) ==
  /\ Active(w)
  /\ UNCHANGED <<request, cur>>
  /\ inDoubt \subseteq inDoubt'
  /\ \E n \in TaskStep :
       /\ pc' = [pc EXCEPT ![w] = n]
       /\ \/ /\ UNCHANGED <<jobStatus, jobError>>
             /\ n \notin {"received", "claim", "report"}
             /\ n = "report_commit" => pc[w] = "report"
             /\ pc[w] = "handler" => n = "idle"
             /\ pc[w] \in {"report", "report_commit"} => n \in {"idle", "report_commit"}
          \/ /\ pc[w] = "complete"
             /\ jobStatus' = [jobStatus EXCEPT ![cur[w]] = "completed"]
             /\ jobError'  = [jobError EXCEPT ![cur[w]] = "none"]
             /\ n \in {"report", "handler"}
             /\ n = "handler" => cur[w] \in inDoubt'
          \/ /\ pc[w] = "mark_failed"
             /\ jobStatus' = [jobStatus EXCEPT ![cur[w]] = "failed"]
             /\ jobError'  = [jobError EXCEPT ![cur[w]] = "all_plugins"]
             /\ n \in {"idle", "handler"}
          \/ /\ pc[w] = "handler"
             /\ jobStatus' = [jobStatus EXCEPT ![cur[w]] = "failed"]
             /\ jobError'  = [jobError EXCEPT ![cur[w]] = "task"]
             /\ n = "idle"

LEMMA StatusEffectStep ==
  ASSUME NEW w \in Worker, Pipeline(w)
  PROVE  StatusEffect(w)
<1> USE DEF StatusEffect, Active, requestVars, jobVars, historyVars, Goto, Proceed, EndTask,
            NextPlugin, Doubt
<1>1. CASE Prepare(w) \/ RunPlugin(w)
  BY <1>1 DEF Prepare, RunPlugin
<1>2. CASE UploadRaw(w)
  <2>1. /\ pc[w] = "upload_raw" /\ pc' = [pc EXCEPT ![w] = "insert"]
        /\ UNCHANGED <<request, cur, jobStatus, jobError, inDoubt>>
    BY <1>2 DEF UploadRaw
  <2> QED BY <2>1
<1>3. CASE InsertPluginResult(w)
  <2>1. \E n \in {"handler", "parse", "run", "detect", "mark_failed"} : pc' = [pc EXCEPT ![w] = n]
    BY <1>3 DEF InsertPluginResult
  <2>2. /\ pc[w] = "insert" /\ UNCHANGED <<request, cur, jobStatus, jobError>>
        /\ inDoubt \subseteq inDoubt'
    BY <1>3 DEF InsertPluginResult
  <2> QED BY <2>1, <2>2
<1>4. CASE ParseOutput(w)
  BY <1>4 DEF ParseOutput
<1>5. CASE StoreArtifacts(w)
  <2>1. \E n \in {"parse_error", "run", "detect", "mark_failed"} : pc' = [pc EXCEPT ![w] = n]
    BY <1>5 DEF StoreArtifacts
  <2>2. /\ pc[w] = "store" /\ UNCHANGED <<request, cur, jobStatus, jobError>>
        /\ inDoubt \subseteq inDoubt'
    BY <1>5 DEF StoreArtifacts
  <2> QED BY <2>1, <2>2
<1>6. CASE RecordParseError(w)
  <2>1. \E n \in {"handler", "run", "detect", "mark_failed"} : pc' = [pc EXCEPT ![w] = n]
    BY <1>6 DEF RecordParseError
  <2>2. /\ pc[w] = "parse_error" /\ UNCHANGED <<request, cur, jobStatus, jobError>>
        /\ inDoubt \subseteq inDoubt'
    BY <1>6 DEF RecordParseError
  <2> QED BY <2>1, <2>2
<1>7. CASE Detect(w)
  BY <1>7 DEF Detect
<1>8. CASE RecordDetectionError(w)
  <2>1. \E n \in {"handler", "ioc"} : pc' = [pc EXCEPT ![w] = n]
    BY <1>8 DEF RecordDetectionError
  <2>2. /\ pc[w] = "detect_error" /\ UNCHANGED <<request, cur, jobStatus, jobError>>
        /\ inDoubt \subseteq inDoubt'
    BY <1>8 DEF RecordDetectionError
  <2> QED BY <2>1, <2>2
<1>9. CASE ExportIocs(w)
  BY <1>9 DEF ExportIocs
<1>10. CASE CommitIocs(w)
  <2>1. /\ pc[w] = "ioc_commit" /\ pc' = [pc EXCEPT ![w] = "complete"]
        /\ UNCHANGED <<request, cur, jobStatus, jobError>>
        /\ inDoubt \subseteq inDoubt'
    BY <1>10 DEF CommitIocs
  <2> QED BY <2>1
<1>11. CASE MarkCompleted(w)
  <2>1. PICK o \in Outcome :
          /\ IF Applied(o) THEN SetStatus(cur[w], "completed", "none")
                           ELSE UNCHANGED jobVars
          /\ Proceed(w, IF Raised(o) THEN "handler" ELSE "report")
          /\ Doubt(cur[w], o)
    BY <1>11 DEF MarkCompleted
  <2>2. pc[w] = "complete" /\ UNCHANGED <<request, cur>> /\ inDoubt \subseteq inDoubt'
    BY <1>11, <2>1 DEF MarkCompleted
  <2>3. CASE o = "rollback"
    BY <2>1, <2>2, <2>3
  <2>4. CASE o # "rollback"
    BY <2>1, <2>2, <2>4 DEF SetStatus
  <2> QED BY <2>3, <2>4
<1>12. CASE UploadReport(w)
  BY <1>12 DEF UploadReport
<1>13. CASE CommitReport(w)
  BY <1>13 DEF CommitReport
<1>14. CASE MarkAllFailed(w)
  BY <1>14 DEF MarkAllFailed, SetStatus
<1>15. CASE HandleTaskError(w)
  BY <1>15 DEF HandleTaskError, SetStatus
<1> QED
  BY <1>1, <1>2, <1>3, <1>4, <1>5, <1>6, <1>7, <1>8, <1>9, <1>10, <1>11, <1>12, <1>13, <1>14,
     <1>15 DEF Pipeline

LEMMA StatusStep == TypeOK /\ ClaimInv /\ StatusInv /\ [Next]_vars => StatusInv'
<1> SUFFICES ASSUME TypeOK, ClaimInv, StatusInv, [Next]_vars PROVE StatusInv'
  OBVIOUS
<1>0. /\ request \in [Job -> Request] /\ pc \in [Worker -> TaskStep]
      /\ cur \in [Worker -> Job] /\ jobStatus \in [Job -> Status]
      /\ jobError \in [Job -> ErrorKind]
  BY DEF TypeOK, TaskOK, JobOK
<1> USE <1>0 DEF StatusInv, Active, vars, requestVars, taskVars, jobVars, historyVars
<1>1. ASSUME NEW j \in Job, CreateJob(j) PROVE StatusInv'
  <2>1. /\ jobStatus[j] = "none" /\ UNCHANGED <<pc, cur, jobError>>
        /\ inDoubt \subseteq inDoubt'
        /\ \/ /\ request' = [request EXCEPT ![j] = "lost"]
              /\ \E s \in {"none", "queued"} : jobStatus' = [jobStatus EXCEPT ![j] = s]
           \/ /\ request' = [request EXCEPT ![j] = "dispatch"]
              /\ jobStatus' = [jobStatus EXCEPT ![j] = "queued"]
    BY <1>1 DEF CreateJob, Doubt, ClaimInv
  <2> QED BY <2>1
<1>2. ASSUME NEW j \in Job, Dispatch(j) \/ DispatchError(j) \/ RequestDies(j)
      PROVE StatusInv'
  <2>1. /\ request[j] \in {"dispatch", "compensate"}
        /\ \E r \in {"answered", "compensate", "lost"} : request' = [request EXCEPT ![j] = r]
        /\ UNCHANGED <<pc, cur, jobStatus, jobError, inDoubt>>
    BY <1>2 DEF Dispatch, DispatchError, RequestDies
  <2> QED BY <2>1
<1>3. ASSUME NEW j \in Job, MarkDispatchFailed(j) PROVE StatusInv'
  <2>1. /\ \E r \in {"lost", "rejected"} : request' = [request EXCEPT ![j] = r]
        /\ \/ UNCHANGED <<jobStatus, jobError>>
           \/ /\ jobStatus' = [jobStatus EXCEPT ![j] = "failed"]
              /\ jobError' = [jobError EXCEPT ![j] = "dispatch"]
        /\ inDoubt \subseteq inDoubt'
        /\ UNCHANGED <<pc, cur>>
    BY <1>3 DEF MarkDispatchFailed, Doubt
  <2> QED BY <2>1
<1>4. ASSUME NEW w \in Worker, Receive(w) \/ StartTask(w) \/ Crash(w) PROVE StatusInv'
  <2>1. /\ \E n \in {"received", "claim", "idle"} : pc' = [pc EXCEPT ![w] = n]
        /\ \A v \in Worker \ {w} : cur'[v] = cur[v]
        /\ UNCHANGED <<request, jobStatus, jobError, inDoubt>>
    BY <1>4 DEF Receive, StartTask, Crash, Goto, Proceed, EndTask
  <2> QED BY <2>1
<1>5. ASSUME NEW w \in Worker, Claim(w) PROVE StatusInv'
  <2>1. /\ UNCHANGED <<cur, request>> /\ inDoubt \subseteq inDoubt'
        /\ \E n \in {"idle", "prepare"} : pc' = [pc EXCEPT ![w] = n]
        /\ \/ UNCHANGED <<jobStatus, jobError>> /\ pc' = [pc EXCEPT ![w] = "idle"]
           \/ /\ jobStatus[cur[w]] = "queued"
              /\ jobStatus' = [jobStatus EXCEPT ![cur[w]] = "running"]
              /\ jobError' = [jobError EXCEPT ![cur[w]] = "none"]
    BY <1>5 DEF Claim, EndTask, Proceed, Goto, Doubt
  <2> QED BY <2>1 DEF ClaimInv
<1>6. ASSUME NEW w \in Worker, Pipeline(w) PROVE StatusInv'
  <2>1. StatusEffect(w)
    BY <1>6, StatusEffectStep
  <2> QED BY <2>1 DEF StatusEffect, ClaimInv
<1>7. CASE UNCHANGED vars
  BY <1>7
<1> QED
  BY <1>1, <1>2, <1>3, <1>4, <1>5, <1>6, <1>7 DEF Next, RequestStep, WorkerStep

LEMMA StatusCorrect == Spec => []StatusInv
<1>1. Init => StatusInv
  BY DEF Init, StatusInv, Active
<1>2. TypeOK /\ ClaimInv /\ StatusInv /\ [Next]_vars => StatusInv'
  BY StatusStep
<1> QED
  BY <1>1, <1>2, TypeCorrect, ClaimCorrect, PTL DEF Spec

\* A terminal status is replaced only by the other one, and only across the
\* three gaps of the code: the unconditional update of a rejected dispatch, a
\* worker finishing over one, and the handler after a commit left in doubt.
THEOREM TerminalKept == Spec => TerminalStatusKept
<1> DEFINE Kept(j) ==
      jobStatus[j] \in Terminal /\ jobStatus'[j] # jobStatus[j] =>
        /\ jobStatus'[j] \in Terminal
        /\ \/ request[j] = "compensate" /\ jobError'[j] = "dispatch"
           \/ jobStatus[j] = "failed" /\ jobError[j] = "dispatch"
           \/ j \in inDoubt /\ jobError'[j] = "task"
<1>1. ASSUME TypeOK, ClaimInv, StatusInv, Next, NEW j \in Job PROVE Kept(j)
  <2>0. /\ cur \in [Worker -> Job] /\ jobStatus \in [Job -> Status]
        /\ jobError \in [Job -> ErrorKind]
    BY <1>1 DEF TypeOK, TaskOK, JobOK
  <2>1. ASSUME NEW k \in Job, CreateJob(k) PROVE Kept(j)
    BY <1>1, <2>0, <2>1 DEF CreateJob, ClaimInv
  <2>2. ASSUME NEW k \in Job, Dispatch(k) \/ DispatchError(k) \/ RequestDies(k)
        PROVE  Kept(j)
    BY <2>2 DEF Dispatch, DispatchError, RequestDies, jobVars
  <2>3. ASSUME NEW k \in Job, MarkDispatchFailed(k) PROVE Kept(j)
    BY <2>0, <2>3 DEF MarkDispatchFailed
  <2>4. ASSUME NEW w \in Worker, Receive(w) \/ StartTask(w) \/ Crash(w) PROVE Kept(j)
    BY <2>4 DEF Receive, StartTask, Crash, jobVars
  <2>5. ASSUME NEW w \in Worker, Claim(w) PROVE Kept(j)
    BY <2>0, <2>5 DEF Claim, jobVars
  <2>6. ASSUME NEW w \in Worker, Pipeline(w) PROVE Kept(j)
    <3>1. StatusEffect(w)
      BY <2>6, StatusEffectStep
    <3> QED BY <1>1, <2>0, <3>1 DEF StatusEffect, StatusInv
  <2> QED BY <1>1, <2>1, <2>2, <2>3, <2>4, <2>5, <2>6 DEF Next, RequestStep, WorkerStep
<1>2. TypeOK /\ ClaimInv /\ StatusInv /\ [Next]_vars => [\A j \in Job : Kept(j)]_vars
  BY <1>1
<1> QED
  BY <1>2, TypeCorrect, ClaimCorrect, StatusCorrect, PTL DEF Spec, TerminalStatusKept

-----------------------------------------------------------------------------
(* The refinement of JobLifecycle.                                         *)

Owned(j) == \E w \in Worker : Active(w) /\ cur[w] = j

Outcomes(j) == [i \in 1..Len(pluginRows[j]) |-> pluginRows[j][i].status]

LEMMA PhaseDef ==
  ASSUME NEW j \in Job
  PROVE  /\ AnalysisPhase(j) = IF claims[j] = 0 THEN "to come"
                               ELSE IF Owned(j) THEN "under way" ELSE "over"
         /\ AnalysisPhase(j)' = IF claims'[j] = 0 THEN "to come"
                                ELSE IF Owned(j)' THEN "under way" ELSE "over"
  BY DEF AnalysisPhase, Owned

\* Who owns which job is what the workers' steps leave of it.
LEMMA OwnedKept ==
  ASSUME \A v \in Worker : Active(v)' <=> Active(v),
         \A v \in Worker : Active(v) => cur'[v] = cur[v]
  PROVE  \A j \in Job : (Owned(j)' <=> Owned(j))
  BY DEF Owned

\* A step of the pipeline keeps the owners; the last one leaves its job to nobody.
LEMMA PipelineOwned ==
  ASSUME TypeOK, ClaimInv, AccountInv, NEW w \in Worker, NEW n \in TaskStep \ {"received", "claim"},
         Active(w), UNCHANGED <<cur, claims>>, pc' = [pc EXCEPT ![w] = n],
         NEW j \in Job, j = cur[w]
  PROVE  /\ AnalysisPhase(j) = "under way"
         /\ AnalysisPhase(j)' = IF n = "idle" THEN "over" ELSE "under way"
         /\ \A k \in Job \ {j} : AnalysisPhase(k)' = AnalysisPhase(k)
<1>1. pc \in [Worker -> TaskStep] /\ claims[j] = 1
  BY AtWork
<1>2. Owned(j)
  BY DEF Owned
<1>3. Owned(j)' <=> n # "idle"
  <2>1. Active(w)' <=> n # "idle"
    BY <1>1 DEF Active
  <2>2. \A v \in Worker \ {w} : ~(Active(v)' /\ cur'[v] = j)
    BY <1>1 DEF Active, ClaimInv
  <2> QED BY <2>1, <2>2 DEF Owned
<1>4. \A k \in Job \ {j} : (Owned(k)' <=> Owned(k))
  <2>1. \A v \in Worker \ {w} : (Active(v)' <=> Active(v)) /\ cur'[v] = cur[v]
    BY <1>1 DEF Active
  <2>2. \A k \in Job \ {j} : cur[w] # k /\ cur'[w] # k
    OBVIOUS
  <2> QED BY <2>1, <2>2 DEF Owned
<1>5. AnalysisPhase(j) = "under way"
  BY <1>1, <1>2 DEF AnalysisPhase, Owned
<1>6. AnalysisPhase(j)' = IF n = "idle" THEN "over" ELSE "under way"
  <2>1. AnalysisPhase(j)' = IF claims'[j] = 0 THEN "to come"
                            ELSE IF Owned(j)' THEN "under way" ELSE "over"
    BY PhaseDef
  <2>2. claims'[j] # 0
    BY <1>1
  <2> QED BY <1>3, <2>1, <2>2
<1>7. \A k \in Job \ {j} : AnalysisPhase(k)' = AnalysisPhase(k)
  <2> TAKE k \in Job \ {j}
  <2>1. (Owned(k)' <=> Owned(k)) /\ claims'[k] = claims[k]
    BY <1>4
  <2> QED BY <2>1, PhaseDef
<1> QED
  BY <1>5, <1>6, <1>7

LEMMA OutcomesFrame ==
  ASSUME NEW j \in Job, Len(pluginRows'[j]) = Len(pluginRows[j]),
         \A i \in 1..Len(pluginRows[j]) : pluginRows'[j][i].status = pluginRows[j][i].status
  PROVE  Outcomes(j)' = Outcomes(j)
  BY DEF Outcomes

LEMMA OutcomesLen ==
  ASSUME TypeOK, NEW j \in Job
  PROVE  /\ Outcomes(j) \in Seq(RunStatus) /\ Len(Outcomes(j)) = Len(pluginRows[j])
         /\ \A i \in 1..Len(pluginRows[j]) : Outcomes(j)[i] = pluginRows[j][i].status
<1>1. pluginRows[j] \in Seq(Row)
  BY DEF TypeOK, ResultOK
<1>2. Len(pluginRows[j]) \in Nat
  BY <1>1, LenProperties
<1>3. \A i \in 1..Len(pluginRows[j]) : pluginRows[j][i].status \in RunStatus
  <2>1. \A i \in 1..Len(pluginRows[j]) : pluginRows[j][i] \in Row
    BY <1>1, LenProperties
  <2> QED BY <2>1 DEF Row
<1>4. Outcomes(j) \in Seq(RunStatus)
  BY <1>2, <1>3, SeqDef DEF Outcomes
<1>5. DOMAIN Outcomes(j) = 1..Len(pluginRows[j])
  BY DEF Outcomes
<1>6. Len(Outcomes(j)) = Len(pluginRows[j])
  BY <1>2, <1>4, <1>5, LenProperties
<1> QED
  BY <1>4, <1>6 DEF Outcomes

\* Recording a plugin appends its outcome.
LEMMA OutcomesAppend ==
  ASSUME TypeOK, NEW j \in Job, NEW r, pluginRows'[j] = Append(pluginRows[j], r),
         r.status \in RunStatus
  PROVE  Outcomes(j)' = Append(Outcomes(j), r.status)
<1> DEFINE n == Len(pluginRows[j])
<1>1. pluginRows[j] \in Seq(Row) /\ n \in Nat
  BY LenProperties DEF TypeOK, ResultOK
<1>2. /\ Len(pluginRows'[j]) = n + 1
      /\ pluginRows'[j][n + 1] = r
      /\ \A i \in 1..n : pluginRows'[j][i] = pluginRows[j][i]
  BY <1>1
<1>3. Outcomes(j)' = [i \in 1..(n + 1) |-> pluginRows'[j][i].status]
  BY <1>2 DEF Outcomes
<1>4. /\ Outcomes(j) \in Seq(RunStatus) /\ Len(Outcomes(j)) = n
      /\ \A i \in 1..n : Outcomes(j)[i] = pluginRows[j][i].status
  BY OutcomesLen
<1> DEFINE t == Append(Outcomes(j), r.status)
<1>5. /\ t \in Seq(RunStatus) /\ Len(t) = n + 1 /\ t[n + 1] = r.status
      /\ \A i \in 1..n : t[i] = Outcomes(j)[i]
  BY <1>1, <1>4
<1>6. t = [i \in 1..(n + 1) |-> t[i]]
  BY <1>1, <1>5, LenProperties
<1>7. \A i \in 1..(n + 1) : t[i] = pluginRows'[j][i].status
  BY <1>1, <1>2, <1>4, <1>5
<1> QED
  BY <1>3, <1>6, <1>7

\* Only recording a plugin changes the outcomes of a job.
LEMMA OutcomesStep ==
  ASSUME TypeOK, AccountInv, NEW w \in Worker, Pipeline(w), ~InsertPluginResult(w)
  PROVE  \A k \in Job : Outcomes(k)' = Outcomes(k)
<1>1. CASE StoreArtifacts(w) \/ RecordParseError(w)
  <2>1. PICK j \in Job : j = cur[w]
    BY DEF TypeOK, TaskOK
  <2>2. Active(w) /\ pc[w] \in {"store", "parse_error"}
    BY <1>1 DEF StoreArtifacts, RecordParseError, Active
  <2>3. /\ step[w] \in Nat \ {0} /\ Len(pluginRows[j]) = step[w]
    BY <2>1, <2>2, AtWork DEF Progress
  <2>4. PICK i \in 1..Len(pluginRows[j]) : i = Len(pluginRows[j])
    BY <2>3
  <2>5. \E r \in {ParsedRow(pluginRows[j][i]), UnparsedRow(pluginRows[j][i])} :
          pluginRows' = [pluginRows EXCEPT ![j][i] = r] \/ UNCHANGED pluginRows
    BY <1>1, <2>1, <2>4 DEF StoreArtifacts, RecordParseError
  <2>6. PICK r : /\ pluginRows' = [pluginRows EXCEPT ![j][i] = r] \/ UNCHANGED pluginRows
                 /\ r.status = pluginRows[j][i].status
    BY <2>5 DEF ParsedRow, UnparsedRow
  <2>7. CASE UNCHANGED pluginRows
    BY <2>7 DEF Outcomes
  <2>8. CASE pluginRows' = [pluginRows EXCEPT ![j][i] = r]
    <3>1. RowReplaced(j, i, r)
      BY <2>6, <2>8 DEF RowReplaced
    <3>2. /\ Len(pluginRows'[j]) = Len(pluginRows[j])
          /\ pluginRows'[j][i] = r
          /\ \A k \in 1..Len(pluginRows[j]) : k # i => pluginRows'[j][k] = pluginRows[j][k]
          /\ \A k \in Job \ {j} : pluginRows'[k] = pluginRows[k]
      BY <3>1, RowReplacement
    <3>3. Outcomes(j)' = Outcomes(j)
      BY <2>6, <3>2, OutcomesFrame
    <3>4. \A k \in Job \ {j} : Outcomes(k)' = Outcomes(k)
      BY <3>2 DEF Outcomes
    <3> QED BY <3>3, <3>4
  <2> QED BY <2>6, <2>7, <2>8
<1>2. CASE ~(StoreArtifacts(w) \/ RecordParseError(w))
  <2>1. UNCHANGED pluginRows
    BY <1>2 DEF Pipeline, Prepare, RunPlugin, UploadRaw, ParseOutput, Detect,
       RecordDetectionError, ExportIocs, CommitIocs, MarkCompleted, UploadReport,
       CommitReport, MarkAllFailed, HandleTaskError, resultVars
  <2> QED BY <2>1 DEF Outcomes
<1> QED
  BY <1>1, <1>2

LEMMA LifecycleInit == Init => Lifecycle!Init
<1> SUFFICES ASSUME Init PROVE Lifecycle!Init
  OBVIOUS
<1>1. ASSUME NEW j \in Job PROVE AnalysisPhase(j) = "to come"
  BY DEF Init, AnalysisPhase
<1>2. ASSUME NEW j \in Job PROVE [i \in 1..Len(pluginRows[j]) |-> pluginRows[j][i].status] = <<>>
  <2>1. Len(pluginRows[j]) = 0
    BY DEF Init
  <2> QED BY <2>1
<1> QED
  BY <1>1, <1>2 DEF Init, Lifecycle!Init

\* The images of phases and outcomes under the refinement mapping.
PhaseMap == [j \in Job |-> AnalysisPhase(j)]
OutcomeMap == [j \in Job |-> Outcomes(j)]

\* The abstract actions over those images.
LEMMA LifecycleActions ==
  /\ UNCHANGED <<jobStatus, PhaseMap, OutcomeMap>> => UNCHANGED Lifecycle!vars
  /\ \A j \in Job :
       /\ Lifecycle!Submit(j) <=>
            /\ jobStatus[j] = "none"
            /\ jobStatus' = [jobStatus EXCEPT ![j] = "queued"]
            /\ UNCHANGED <<PhaseMap, OutcomeMap>>
       /\ Lifecycle!Start(j) <=>
            /\ jobStatus[j] = "queued" /\ PhaseMap[j] = "to come"
            /\ jobStatus' = [jobStatus EXCEPT ![j] = "running"]
            /\ \E a \in {"under way", "over"} : PhaseMap' = [PhaseMap EXCEPT ![j] = a]
            /\ UNCHANGED OutcomeMap
       /\ Lifecycle!RecordOutcome(j) <=>
            /\ PhaseMap[j] = "under way" /\ Len(OutcomeMap[j]) < Len(Plan[j])
            /\ \E o \in RunStatus :
                 OutcomeMap' = [OutcomeMap EXCEPT ![j] = Append(OutcomeMap[j], o)]
            /\ UNCHANGED <<jobStatus, PhaseMap>>
       /\ Lifecycle!Complete(j) <=>
            /\ PhaseMap[j] = "under way" /\ Len(OutcomeMap[j]) = Len(Plan[j])
            /\ \E i \in 1..Len(Plan[j]) : OutcomeMap[j][i] = "completed"
            /\ jobStatus' = [jobStatus EXCEPT ![j] = "completed"]
            /\ UNCHANGED <<PhaseMap, OutcomeMap>>
       /\ Lifecycle!Stop(j) <=>
            /\ PhaseMap[j] = "under way"
            /\ PhaseMap' = [PhaseMap EXCEPT ![j] = "over"]
            /\ \E s \in {jobStatus[j], "failed"} : jobStatus' = [jobStatus EXCEPT ![j] = s]
            /\ UNCHANGED OutcomeMap
       /\ Lifecycle!MarkFailed(j) <=>
            /\ PhaseMap[j] = "under way"
            /\ jobStatus' = [jobStatus EXCEPT ![j] = "failed"]
            /\ UNCHANGED <<PhaseMap, OutcomeMap>>
       /\ Lifecycle!Reject(j) <=>
            /\ jobStatus[j] # "none"
            /\ jobStatus' = [jobStatus EXCEPT ![j] = "failed"]
            /\ UNCHANGED <<PhaseMap, OutcomeMap>>
<1> USE DEF PhaseMap, OutcomeMap, Outcomes
<1>1. UNCHANGED <<jobStatus, PhaseMap, OutcomeMap>> => UNCHANGED Lifecycle!vars
  BY DEF Lifecycle!vars
<1>2. ASSUME NEW j \in Job
      PROVE  Lifecycle!Submit(j) <=>
               /\ jobStatus[j] = "none"
               /\ jobStatus' = [jobStatus EXCEPT ![j] = "queued"]
               /\ UNCHANGED <<PhaseMap, OutcomeMap>>
  BY DEF Lifecycle!Submit
<1> QED
  BY <1>1, <1>2 DEF Lifecycle!Start, Lifecycle!RecordOutcome, Lifecycle!PluginOutcome, Lifecycle!Complete, Lifecycle!Stop, Lifecycle!MarkFailed, Lifecycle!Reject

\* A step of the requests is a submission, a rejection or unseen.
LEMMA RequestRefines ==
  ASSUME TypeOK, ClaimInv, StatusInv, NEW j \in Job, RequestStep(j) \/ RequestDies(j)
  PROVE  Lifecycle!Submit(j) \/ Lifecycle!Reject(j) \/ UNCHANGED Lifecycle!vars
<1>1. UNCHANGED <<PhaseMap, OutcomeMap>>
  <2>1. UNCHANGED <<pc, cur, claims, pluginRows>>
    BY RequestStepEffect DEF RequestEffect, resultVars
  <2> QED BY <2>1 DEF PhaseMap, OutcomeMap, AnalysisPhase, Outcomes, Active
<1>2. CASE CreateJob(j)
  <2>1. /\ jobStatus[j] = "none"
        /\ \/ jobStatus' = [jobStatus EXCEPT ![j] = "queued"]
           \/ jobStatus' = [jobStatus EXCEPT ![j] = "none"]
    BY <1>2 DEF CreateJob, ClaimInv
  <2>2. CASE jobStatus' = [jobStatus EXCEPT ![j] = "none"]
    <3>1. UNCHANGED jobStatus
      BY <2>1, <2>2 DEF TypeOK, JobOK
    <3> QED BY <1>1, <3>1, LifecycleActions
  <2> QED BY <1>1, <2>1, <2>2, LifecycleActions
<1>3. CASE Dispatch(j) \/ DispatchError(j) \/ RequestDies(j)
  <2>1. UNCHANGED jobStatus
    BY <1>3 DEF Dispatch, DispatchError, RequestDies, jobVars
  <2> QED BY <1>1, <2>1, LifecycleActions
<1>4. CASE MarkDispatchFailed(j)
  <2>1. /\ jobStatus[j] # "none"
        /\ jobStatus' = [jobStatus EXCEPT ![j] = "failed"] \/ UNCHANGED jobStatus
    BY <1>4 DEF MarkDispatchFailed, StatusInv
  <2> QED BY <1>1, <2>1, LifecycleActions
<1> QED
  BY <1>2, <1>3, <1>4 DEF RequestStep

\* Taking a message and starting its task is unseen; a crash stops an analysis.
LEMMA IdleRefines ==
  ASSUME TypeOK, ClaimInv, AccountInv, NEW w \in Worker,
         Receive(w) \/ StartTask(w) \/ Crash(w)
  PROVE  (\E j \in Job : Lifecycle!Stop(j)) \/ UNCHANGED Lifecycle!vars
<1>0. /\ pc \in [Worker -> TaskStep] /\ cur \in [Worker -> Job]
      /\ jobStatus \in [Job -> Status]
  BY DEF TypeOK, TaskOK, JobOK
<1>1. UNCHANGED <<jobStatus, claims, pluginRows>>
  BY DEF Receive, StartTask, Crash, jobVars, resultVars, historyVars
<1>2. UNCHANGED OutcomeMap
  BY <1>1 DEF OutcomeMap, Outcomes
<1>3. CASE Receive(w) \/ StartTask(w) \/ (Crash(w) /\ ~Active(w))
  <2>1. /\ \A v \in Worker : Active(v)' <=> Active(v)
        /\ \A v \in Worker : Active(v) => cur'[v] = cur[v]
    BY <1>0, <1>3 DEF Receive, StartTask, Crash, EndTask, Proceed, Goto, Active
  <2>2. \A j \in Job : (Owned(j)' <=> Owned(j))
    BY <2>1, OwnedKept
  <2>3. UNCHANGED PhaseMap
    BY <1>1, <2>2, PhaseDef DEF PhaseMap
  <2> QED BY <1>1, <1>2, <2>3, LifecycleActions
<1>4. CASE Crash(w) /\ Active(w)
  <2>1. PICK j \in Job : j = cur[w]
    BY <1>0
  <2>2. UNCHANGED <<cur, claims>> /\ pc' = [pc EXCEPT ![w] = "idle"]
    BY <1>1, <1>4 DEF Crash, EndTask, Goto
  <2>3. /\ AnalysisPhase(j) = "under way" /\ AnalysisPhase(j)' = "over"
        /\ \A k \in Job \ {j} : AnalysisPhase(k)' = AnalysisPhase(k)
    BY <1>4, <2>1, <2>2, PipelineOwned
  <2>4. PhaseMap[j] = "under way" /\ PhaseMap' = [PhaseMap EXCEPT ![j] = "over"]
    BY <2>3 DEF PhaseMap
  <2>5. jobStatus' = [jobStatus EXCEPT ![j] = jobStatus[j]]
    BY <1>0, <1>1
  <2>6. Lifecycle!Stop(j)
    BY <1>2, <2>4, <2>5, LifecycleActions
  <2> QED BY <2>6
<1> QED
  BY <1>3, <1>4

\* A claim that takes effect starts the analysis, lost or not.
LEMMA ClaimRefines ==
  ASSUME TypeOK, ClaimInv, AccountInv, NEW w \in Worker, Claim(w)
  PROVE  (\E j \in Job : Lifecycle!Start(j)) \/ UNCHANGED Lifecycle!vars
<1>0. /\ pc \in [Worker -> TaskStep] /\ cur \in [Worker -> Job]
      /\ jobStatus \in [Job -> Status] /\ claims \in [Job -> Nat]
      /\ pc[w] = "claim"
  BY DEF TypeOK, TaskOK, JobOK, HistoryOK, Claim
<1>1. PICK j \in Job : j = cur[w]
  BY <1>0
<1>2. UNCHANGED <<cur, pluginRows>>
  BY DEF Claim, EndTask, Proceed, resultVars
<1>3. UNCHANGED OutcomeMap
  BY <1>2 DEF OutcomeMap, Outcomes
<1>4. \/ /\ jobStatus[j] = "queued"
         /\ jobStatus' = [jobStatus EXCEPT ![j] = "running"]
         /\ claims' = [claims EXCEPT ![j] = claims[j] + 1]
         /\ \E n \in {"idle", "prepare"} : pc' = [pc EXCEPT ![w] = n]
      \/ /\ pc' = [pc EXCEPT ![w] = "idle"]
         /\ UNCHANGED <<jobStatus, claims>>
  BY <1>1 DEF Claim, EndTask, Proceed, Goto, jobVars, historyVars
<1>5. CASE /\ pc' = [pc EXCEPT ![w] = "idle"]
           /\ UNCHANGED <<jobStatus, claims>>
  <2>1. /\ \A v \in Worker : Active(v)' <=> Active(v)
        /\ \A v \in Worker : Active(v) => cur'[v] = cur[v]
    BY <1>0, <1>2, <1>5 DEF Active
  <2>2. UNCHANGED PhaseMap
    BY <1>5, <2>1, OwnedKept, PhaseDef DEF PhaseMap
  <2> QED BY <1>3, <1>5, <2>2, LifecycleActions
<1>6. CASE /\ jobStatus[j] = "queued"
           /\ jobStatus' = [jobStatus EXCEPT ![j] = "running"]
           /\ claims' = [claims EXCEPT ![j] = claims[j] + 1]
           /\ \E n \in {"idle", "prepare"} : pc' = [pc EXCEPT ![w] = n]
  <2>1. claims[j] = 0 /\ claims'[j] # 0 /\ \A k \in Job \ {j} : claims'[k] = claims[k]
    BY <1>0, <1>6 DEF ClaimInv
  <2>2. \A k \in Job \ {j} : (Owned(k)' <=> Owned(k))
    <3>1. \A v \in Worker \ {w} : Active(v)' <=> Active(v)
      BY <1>0, <1>6 DEF Active
    <3>2. \A k \in Job \ {j} : cur[w] # k
      BY <1>1
    <3> QED BY <1>2, <3>1, <3>2 DEF Owned
  <2>3. \A k \in Job \ {j} : AnalysisPhase(k)' = AnalysisPhase(k)
    BY <2>1, <2>2, PhaseDef
  <2>4. AnalysisPhase(j) = "to come" /\ AnalysisPhase(j)' \in {"under way", "over"}
    BY <2>1, PhaseDef
  <2>5. \E a \in {"under way", "over"} : PhaseMap' = [PhaseMap EXCEPT ![j] = a]
    BY <2>3, <2>4 DEF PhaseMap
  <2>6. PhaseMap[j] = "to come"
    BY <2>4 DEF PhaseMap
  <2>7. Lifecycle!Start(j)
    BY <1>3, <1>6, <2>5, <2>6, LifecycleActions
  <2> QED BY <2>7
<1> QED
  BY <1>4, <1>5, <1>6

LEMMA PipelineRefines ==
  ASSUME TypeOK, ClaimInv, AccountInv, NEW w \in Worker, Pipeline(w), ~InsertPluginResult(w)
  PROVE  \/ \E j \in Job : \/ Lifecycle!Complete(j) \/ Lifecycle!Stop(j)
                          \/ Lifecycle!MarkFailed(j)
         \/ UNCHANGED Lifecycle!vars
<1>0. /\ pc \in [Worker -> TaskStep] /\ jobStatus \in [Job -> Status]
  BY DEF TypeOK, TaskOK, JobOK
<1>1. PICK j \in Job : j = cur[w]
  BY DEF TypeOK, TaskOK
<1>2. UNCHANGED OutcomeMap
  BY OutcomesStep DEF OutcomeMap
<1>3. StatusEffect(w) /\ UNCHANGED claims
  BY StatusEffectStep, PipelineStep DEF PipelineEffect
<1>4. PICK n \in TaskStep : /\ pc' = [pc EXCEPT ![w] = n]
                           /\ n \notin {"received", "claim"}
        /\ \/ UNCHANGED jobStatus
           \/ pc[w] = "complete" /\ jobStatus' = [jobStatus EXCEPT ![j] = "completed"]
              /\ n # "idle"
           \/ jobStatus' = [jobStatus EXCEPT ![j] = "failed"]
  BY <1>1, <1>3 DEF StatusEffect
<1>5. /\ AnalysisPhase(j) = "under way"
      /\ AnalysisPhase(j)' = IF n = "idle" THEN "over" ELSE "under way"
      /\ \A k \in Job \ {j} : AnalysisPhase(k)' = AnalysisPhase(k)
  BY <1>1, <1>3, <1>4, PipelineOwned DEF StatusEffect
<1>6. PhaseMap[j] = "under way"
  BY <1>5 DEF PhaseMap
<1>7. CASE n = "idle"
  <2>1. PhaseMap' = [PhaseMap EXCEPT ![j] = "over"]
    BY <1>5, <1>7 DEF PhaseMap
  <2>2. \E s \in {jobStatus[j], "failed"} : jobStatus' = [jobStatus EXCEPT ![j] = s]
    <3>1. CASE UNCHANGED jobStatus
      <4>1. jobStatus' = [jobStatus EXCEPT ![j] = jobStatus[j]]
        BY <1>0, <3>1
      <4> QED BY <4>1
    <3>2. CASE jobStatus' = [jobStatus EXCEPT ![j] = "failed"]
      BY <3>2
    <3> QED BY <1>4, <1>7, <3>1, <3>2
  <2>3. Lifecycle!Stop(j)
    BY <1>2, <1>6, <2>1, <2>2, LifecycleActions
  <2> QED BY <2>3
<1>8. CASE n # "idle"
  <2>1. UNCHANGED PhaseMap
    BY <1>5, <1>8 DEF PhaseMap
  <2>2. CASE UNCHANGED jobStatus
    BY <1>2, <2>1, <2>2, LifecycleActions
  <2>3. CASE pc[w] = "complete" /\ jobStatus' = [jobStatus EXCEPT ![j] = "completed"]
    <3>1. Analysed(j)
      <4>1. Active(w)
        BY <1>3 DEF StatusEffect
      <4>2. Progress(w)
        BY <1>1, <4>1, AtWork
      <4> QED BY <1>1, <2>3, <4>2 DEF Progress
    <3>2. OutcomeMap[j] = Outcomes(j)
      BY DEF OutcomeMap
    <3>3. /\ Len(OutcomeMap[j]) = Len(Plan[j])
          /\ \E i \in 1..Len(Plan[j]) : OutcomeMap[j][i] = "completed"
      BY <3>1, <3>2, OutcomesLen DEF Analysed
    <3>4. Lifecycle!Complete(j)
      BY <1>2, <1>6, <2>1, <2>3, <3>3, LifecycleActions
    <3> QED BY <3>4
  <2>4. CASE jobStatus' = [jobStatus EXCEPT ![j] = "failed"]
    <3>1. Lifecycle!MarkFailed(j)
      BY <1>2, <1>6, <2>1, <2>4, LifecycleActions
    <3> QED BY <3>1
  <2> QED BY <1>4, <2>2, <2>3, <2>4
<1> QED
  BY <1>7, <1>8

\* A recorded plugin is an outcome of the job that is analysed.
LEMMA InsertRefines ==
  ASSUME TypeOK, ClaimInv, AccountInv, NEW w \in Worker, InsertPluginResult(w)
  PROVE  (\E j \in Job : Lifecycle!RecordOutcome(j)) \/ UNCHANGED Lifecycle!vars
<1>1. PICK j \in Job : j = cur[w]
  BY DEF TypeOK, TaskOK
<1>2. Active(w) /\ pc[w] = "insert"
  BY DEF InsertPluginResult, Active
<1>3. /\ Len(pluginRows[j]) = step[w] - 1 /\ step[w] <= Len(Plan[j])
      /\ step[w] \in Nat \ {0} /\ Len(Plan[j]) \in Nat
  BY <1>1, <1>2, AtWork, PlanLength DEF Progress
<1>4. UNCHANGED <<jobStatus, cur, claims>>
  BY DEF InsertPluginResult, jobVars, Proceed, NextPlugin
<1>5. PICK n \in {"handler", "parse", "run", "detect", "mark_failed"} : pc' = [pc EXCEPT ![w] = n]
  BY DEF InsertPluginResult, Proceed, NextPlugin, Goto
<1>6. /\ AnalysisPhase(j) = "under way"
      /\ AnalysisPhase(j)' = "under way"
      /\ \A k \in Job \ {j} : AnalysisPhase(k)' = AnalysisPhase(k)
  BY <1>1, <1>2, <1>4, <1>5, PipelineOwned
<1>7. UNCHANGED PhaseMap /\ PhaseMap[j] = "under way"
  BY <1>6 DEF PhaseMap
<1>8. PICK r : r = [status |-> run[w].status, raw |-> run[w].raw,
                    parsed |-> FALSE, count |-> "zero"]
  OBVIOUS
<1>12. r.status \in RunStatus
  <2>1. run[w].status \in RunStatus
    BY DEF TypeOK, TaskOK, PluginRun
  <2> QED BY <1>8, <2>1
<1>9. \/ pluginRows' = [pluginRows EXCEPT ![j] = Append(pluginRows[j], r)]
      \/ UNCHANGED pluginRows
  BY <1>1, <1>8 DEF InsertPluginResult
<1>10. CASE UNCHANGED pluginRows
  <2>1. UNCHANGED OutcomeMap
    BY <1>10 DEF OutcomeMap, Outcomes
  <2> QED BY <1>4, <1>7, <2>1, LifecycleActions
<1>11. CASE pluginRows' = [pluginRows EXCEPT ![j] = Append(pluginRows[j], r)]
  <2>1. /\ pluginRows'[j] = Append(pluginRows[j], r)
        /\ \A k \in Job \ {j} : pluginRows'[k] = pluginRows[k]
    BY <1>11 DEF TypeOK, ResultOK
  <2>2. Outcomes(j)' = Append(Outcomes(j), r.status)
    BY <1>12, <2>1, OutcomesAppend
  <2>3. \A k \in Job \ {j} : Outcomes(k)' = Outcomes(k)
    BY <2>1 DEF Outcomes
  <2>4. /\ OutcomeMap' = [OutcomeMap EXCEPT ![j] = Append(OutcomeMap[j], r.status)]
        /\ OutcomeMap[j] = Outcomes(j)
    BY <2>2, <2>3 DEF OutcomeMap
  <2>5. Len(OutcomeMap[j]) < Len(Plan[j])
    BY <1>3, <2>4, OutcomesLen
  <2>6. Lifecycle!RecordOutcome(j)
    <3>1. \E o \in RunStatus :
            OutcomeMap' = [OutcomeMap EXCEPT ![j] = Append(OutcomeMap[j], o)]
      BY <1>12, <2>4
    <3> QED BY <1>4, <1>7, <2>5, <3>1, LifecycleActions
  <2> QED BY <2>6
<1> QED
  BY <1>9, <1>10, <1>11

LEMMA LifecycleStep ==
  TypeOK /\ ClaimInv /\ AccountInv /\ StatusInv /\ [Next]_vars
  => [Lifecycle!Next]_(Lifecycle!vars)
<1> SUFFICES ASSUME TypeOK, ClaimInv, AccountInv, StatusInv, [Next]_vars
             PROVE  Lifecycle!Next \/ UNCHANGED Lifecycle!vars
  OBVIOUS
<1>1. ASSUME NEW j \in Job, RequestStep(j) \/ RequestDies(j)
      PROVE  Lifecycle!Next \/ UNCHANGED Lifecycle!vars
  BY <1>1, RequestRefines DEF Lifecycle!Next
<1>2. ASSUME NEW w \in Worker, Receive(w) \/ StartTask(w) \/ Crash(w)
      PROVE  Lifecycle!Next \/ UNCHANGED Lifecycle!vars
  BY <1>2, IdleRefines DEF Lifecycle!Next
<1>3. ASSUME NEW w \in Worker, Claim(w)
      PROVE  Lifecycle!Next \/ UNCHANGED Lifecycle!vars
  BY <1>3, ClaimRefines DEF Lifecycle!Next
<1>4. ASSUME NEW w \in Worker, Pipeline(w)
      PROVE  Lifecycle!Next \/ UNCHANGED Lifecycle!vars
  BY <1>4, PipelineRefines, InsertRefines DEF Lifecycle!Next
<1>5. CASE UNCHANGED vars
  <2>1. UNCHANGED <<jobStatus, PhaseMap, OutcomeMap>>
    BY <1>5 DEF vars, taskVars, jobVars, resultVars, historyVars, PhaseMap, OutcomeMap,
       AnalysisPhase, Outcomes, Active
  <2> QED BY <2>1, LifecycleActions
<1> QED
  BY <1>1, <1>2, <1>3, <1>4, <1>5 DEF Next, WorkerStep

\* Clients of the API see nothing but the lifecycle of JobLifecycle, whatever is
\* duplicated, raised or killed underneath: at most one analysis, completed only
\* over an outcome of every plugin, and failed by a rejection at any time.
THEOREM LifecycleImplemented == Spec => ImplementsLifecycle
<1>1. Init => Lifecycle!Init
  BY LifecycleInit
<1>2. TypeOK /\ ClaimInv /\ AccountInv /\ StatusInv /\ [Next]_vars
      => [Lifecycle!Next]_(Lifecycle!vars)
  BY LifecycleStep
<1> QED
  BY <1>1, <1>2, TypeCorrect, ClaimCorrect, AccountCorrect, StatusCorrect, PTL
     DEF Spec, ImplementsLifecycle, Lifecycle!Spec

-----------------------------------------------------------------------------
(* The refinement of JobResults.                                           *)

StepPhase(p) ==
  IF p \in {"report", "report_commit"} THEN "reporting"
  ELSE IF p = "handler" THEN "failing" ELSE "storing"

\* The phase of a job is that of the task that owns it.
OwnerPhase ==
  \A j \in Job :
    /\ \A w \in Worker : Active(w) /\ cur[w] = j => ResultPhase(j) = StepPhase(pc[w])
    /\ ~Owned(j) => ResultPhase(j) = IF claims[j] = 0 THEN "to come" ELSE "over"

LEMMA OwnerPhaseHolds == TypeOK /\ ClaimInv /\ AccountInv => OwnerPhase
<1> SUFFICES ASSUME TypeOK, ClaimInv, AccountInv, NEW j \in Job
             PROVE  /\ \A w \in Worker : Active(w) /\ cur[w] = j
                                        => ResultPhase(j) = StepPhase(pc[w])
                    /\ ~Owned(j) => ResultPhase(j) = IF claims[j] = 0 THEN "to come" ELSE "over"
  BY DEF OwnerPhase
<1>1. ASSUME NEW w \in Worker, Active(w), cur[w] = j PROVE ResultPhase(j) = StepPhase(pc[w])
  <2>1. AnalysisPhase(j) = "under way"
    BY <1>1, AtWork DEF AnalysisPhase
  <2>2. \A v \in Worker : pc[v] \in {"report", "report_commit", "handler"} /\ cur[v] = j => v = w
    BY <1>1 DEF ClaimInv, Active
  <2> QED BY <1>1, <2>1, <2>2 DEF ResultPhase, StepPhase
<1>2. ASSUME ~Owned(j)
      PROVE  ResultPhase(j) = IF claims[j] = 0 THEN "to come" ELSE "over"
  BY <1>2, PhaseDef DEF ResultPhase, Owned, Active
<1> QED
  BY <1>1, <1>2

LEMMA OwnerPhaseNext ==
  TypeOK /\ ClaimInv /\ AccountInv /\ [Next]_vars => OwnerPhase /\ OwnerPhase'
<1>1. TypeOK /\ ClaimInv /\ AccountInv /\ [Next]_vars => TypeOK' /\ ClaimInv' /\ AccountInv'
  BY TypeStep, ClaimStep, AccountStep
<1> QED
  BY <1>1, OwnerPhaseHolds, PTL

\* The images of phases and stored results under the refinement mapping.
StagePhaseMap == [j \in Job |-> ResultPhase(j)]
StoredMap == [j \in Job |-> StoredKinds(j)]

LEMMA ResultsActions ==
  /\ UNCHANGED <<jobStatus, StagePhaseMap, StoredMap>> => UNCHANGED Results!vars
  /\ \A j \in Job :
       /\ Results!Submit(j) <=>
            /\ jobStatus[j] = "none"
            /\ jobStatus' = [jobStatus EXCEPT ![j] = "queued"]
            /\ UNCHANGED <<StagePhaseMap, StoredMap>>
       /\ Results!Start(j) <=>
            /\ jobStatus[j] = "queued" /\ StagePhaseMap[j] = "to come"
            /\ jobStatus' = [jobStatus EXCEPT ![j] = "running"]
            /\ \E p \in {"storing", "over"} : StagePhaseMap' = [StagePhaseMap EXCEPT ![j] = p]
            /\ UNCHANGED StoredMap
       /\ \A kind : Results!Store(j, kind) <=>
            /\ StagePhaseMap[j] = "storing"
            /\ StoredMap' = [StoredMap EXCEPT ![j] = StoredMap[j] \cup {kind}]
            /\ \E p \in {"storing", "failing"} : StagePhaseMap' = [StagePhaseMap EXCEPT ![j] = p]
            /\ UNCHANGED jobStatus
       /\ Results!Complete(j) <=>
            /\ StagePhaseMap[j] = "storing"
            /\ jobStatus' = [jobStatus EXCEPT ![j] = "completed"]
            /\ \E p \in {"reporting", "failing"} : StagePhaseMap' = [StagePhaseMap EXCEPT ![j] = p]
            /\ UNCHANGED StoredMap
       /\ Results!StoreReport(j) <=>
            /\ StagePhaseMap[j] = "reporting"
            /\ StoredMap' = [StoredMap EXCEPT ![j] = StoredMap[j] \cup {"report"}]
            /\ StagePhaseMap' = [StagePhaseMap EXCEPT ![j] = "over"]
            /\ UNCHANGED jobStatus
       /\ Results!End(j) <=>
            /\ \/ /\ StagePhaseMap[j] = "storing"
                  /\ \E p \in {"failing", "over"} : StagePhaseMap' = [StagePhaseMap EXCEPT ![j] = p]
               \/ /\ StagePhaseMap[j] \in {"failing", "reporting"}
                  /\ StagePhaseMap' = [StagePhaseMap EXCEPT ![j] = "over"]
            /\ \/ UNCHANGED jobStatus
               \/ /\ StagePhaseMap[j] # "reporting"
                  /\ jobStatus' = [jobStatus EXCEPT ![j] = "failed"]
            /\ UNCHANGED StoredMap
       /\ Results!Reject(j) <=>
            /\ jobStatus[j] # "none"
            /\ jobStatus' = [jobStatus EXCEPT ![j] = "failed"]
            /\ UNCHANGED <<StagePhaseMap, StoredMap>>
<1> USE DEF StagePhaseMap, StoredMap
<1>1. UNCHANGED <<jobStatus, StagePhaseMap, StoredMap>> => UNCHANGED Results!vars
  BY DEF Results!vars
<1>2. ASSUME NEW j \in Job, NEW kind
      PROVE  Results!Store(j, kind) <=>
               /\ StagePhaseMap[j] = "storing"
               /\ StoredMap' = [StoredMap EXCEPT ![j] = StoredMap[j] \cup {kind}]
               /\ \E p \in {"storing", "failing"} :
                    StagePhaseMap' = [StagePhaseMap EXCEPT ![j] = p]
               /\ UNCHANGED jobStatus
  BY DEF Results!Store
<1> QED
  BY <1>1, <1>2 DEF Results!Submit, Results!Start, Results!Complete, Results!StoreReport,
     Results!End, Results!Reject

LEMMA ResultsInit == Init => Results!Init
<1> SUFFICES ASSUME Init PROVE Results!Init
  OBVIOUS
<1>1. ASSUME NEW j \in Job PROVE ResultPhase(j) = "to come"
  BY DEF Init, ResultPhase, AnalysisPhase
<1>2. ASSUME NEW j \in Job PROVE StoredKinds(j) = {}
  <2>1. Len(pluginRows[j]) = 0
    BY DEF Init
  <2> QED BY <2>1, PlanLength DEF Init, StoredKinds
<1> QED
  BY <1>1, <1>2 DEF Init, Results!Init

\* What is stored is read from four tables.
LEMMA StoredFrame ==
  ASSUME NEW j \in Job, pluginRows'[j] = pluginRows[j], findings'[j] = findings[j],
         iocRows'[j] = iocRows[j], reportRow'[j] = reportRow[j]
  PROVE  StoredKinds(j)' = StoredKinds(j)
  BY DEF StoredKinds

LEMMA RequestResults ==
  ASSUME TypeOK, ClaimInv, StatusInv, NEW j \in Job, RequestStep(j) \/ RequestDies(j)
  PROVE  Results!Submit(j) \/ Results!Reject(j) \/ UNCHANGED Results!vars
<1>1. UNCHANGED <<StagePhaseMap, StoredMap>>
  <2>1. UNCHANGED <<pc, cur, claims, resultVars>>
    BY RequestStepEffect DEF RequestEffect
  <2> QED BY <2>1 DEF StagePhaseMap, StoredMap, StoredKinds, ResultPhase, AnalysisPhase, Active,
             resultVars
<1>2. CASE CreateJob(j)
  <2>1. /\ jobStatus[j] = "none"
        /\ \/ jobStatus' = [jobStatus EXCEPT ![j] = "queued"]
           \/ jobStatus' = [jobStatus EXCEPT ![j] = "none"]
    BY <1>2 DEF CreateJob, ClaimInv
  <2>2. CASE jobStatus' = [jobStatus EXCEPT ![j] = "none"]
    <3>1. UNCHANGED jobStatus
      BY <2>1, <2>2 DEF TypeOK, JobOK
    <3> QED BY <1>1, <3>1, ResultsActions
  <2> QED BY <1>1, <2>1, <2>2, ResultsActions
<1>3. CASE Dispatch(j) \/ DispatchError(j) \/ RequestDies(j)
  <2>1. UNCHANGED jobStatus
    BY <1>3 DEF Dispatch, DispatchError, RequestDies, jobVars
  <2> QED BY <1>1, <2>1, ResultsActions
<1>4. CASE MarkDispatchFailed(j)
  <2>1. /\ jobStatus[j] # "none"
        /\ jobStatus' = [jobStatus EXCEPT ![j] = "failed"] \/ UNCHANGED jobStatus
    BY <1>4 DEF MarkDispatchFailed, StatusInv
  <2> QED BY <1>1, <2>1, ResultsActions
<1> QED
  BY <1>2, <1>3, <1>4 DEF RequestStep

PhaseAfter(n) == IF n = "idle" THEN "over" ELSE StepPhase(n)

\* The phases around a step of the task of w on its job j.
LEMMA TaskPhases ==
  ASSUME OwnerPhase, OwnerPhase', ClaimInv, NEW w \in Worker, NEW j \in Job, j = cur[w],
         pc \in [Worker -> TaskStep], UNCHANGED <<cur, claims>>, claims[j] # 0,
         NEW n \in TaskStep \ {"received", "claim"}, Active(w), pc' = [pc EXCEPT ![w] = n]
  PROVE  /\ StagePhaseMap[j] = StepPhase(pc[w])
         /\ StagePhaseMap' = [StagePhaseMap EXCEPT ![j] = PhaseAfter(n)]
<1>1. ResultPhase(j) = StepPhase(pc[w])
  BY DEF OwnerPhase
<1>2. ResultPhase(j)' = IF n = "idle" THEN "over" ELSE StepPhase(n)
  <2>1. CASE n = "idle"
    <3>1. \A v \in Worker : ~(Active(v)' /\ cur'[v] = j)
      BY <2>1 DEF Active, ClaimInv
    <3>2. ~Owned(j)'
      BY <3>1 DEF Owned
    <3> QED BY <2>1, <3>2 DEF OwnerPhase
  <2>2. CASE n # "idle"
    <3>1. Active(w)' /\ cur'[w] = j /\ pc'[w] = n
      BY <2>2 DEF Active
    <3> QED BY <2>2, <3>1 DEF OwnerPhase
  <2> QED BY <2>1, <2>2
<1>3. \A k \in Job \ {j} : ResultPhase(k)' = ResultPhase(k)
  <2> TAKE k \in Job \ {j}
  <2>1. \A v \in Worker : cur[v] = k => pc'[v] = pc[v] /\ cur'[v] = cur[v]
    OBVIOUS
  <2> QED BY <2>1 DEF ResultPhase, AnalysisPhase, Active
<1> QED
  BY <1>1, <1>2, <1>3 DEF StagePhaseMap, PhaseAfter

\* Steps of tasks that own no job keep every phase.
LEMMA ResultPhaseFrame ==
  ASSUME UNCHANGED claims,
         \A v \in Worker : Active(v)' <=> Active(v),
         \A v \in Worker : Active(v) => pc'[v] = pc[v] /\ cur'[v] = cur[v]
  PROVE  UNCHANGED StagePhaseMap
<1>1. ASSUME NEW j \in Job PROVE ResultPhase(j)' = ResultPhase(j)
  <2>1. ASSUME NEW v \in Worker
        PROVE  /\ (pc'[v] \in {"report", "report_commit"} /\ cur'[v] = j)
                    <=> (pc[v] \in {"report", "report_commit"} /\ cur[v] = j)
               /\ (pc'[v] = "handler" /\ cur'[v] = j) <=> (pc[v] = "handler" /\ cur[v] = j)
               /\ (Active(v)' /\ cur'[v] = j) <=> (Active(v) /\ cur[v] = j)
    <3>1. CASE Active(v)
      <4>1. pc'[v] = pc[v] /\ cur'[v] = cur[v] /\ Active(v)'
        BY <3>1
      <4> QED BY <3>1, <4>1
    <3>2. CASE ~Active(v)
      <4>1. ~Active(v)'
        BY <3>2
      <4> QED BY <3>2, <4>1 DEF Active
    <3> QED BY <3>1, <3>2
  <2>2. Owned(j)' <=> Owned(j)
    BY <2>1 DEF Owned
  <2>3. AnalysisPhase(j)' = AnalysisPhase(j)
    BY <2>2, PhaseDef
  <2> QED BY <2>1, <2>3 DEF ResultPhase
<1> QED
  BY <1>1 DEF StagePhaseMap

LEMMA IdleResults ==
  ASSUME TypeOK, ClaimInv, AccountInv, OwnerPhase, OwnerPhase', NEW w \in Worker,
         Receive(w) \/ StartTask(w) \/ Crash(w)
  PROVE  (\E j \in Job : Results!End(j)) \/ UNCHANGED Results!vars
<1>0. /\ pc \in [Worker -> TaskStep] /\ cur \in [Worker -> Job]
      /\ jobStatus \in [Job -> Status]
  BY DEF TypeOK, TaskOK, JobOK
<1>1. UNCHANGED <<jobStatus, claims, resultVars>>
  BY DEF Receive, StartTask, Crash, jobVars, historyVars
<1>2. UNCHANGED StoredMap
  BY <1>1 DEF StoredMap, StoredKinds, resultVars
<1>3. CASE Receive(w) \/ StartTask(w) \/ (Crash(w) /\ ~Active(w))
  <2>1. \E n \in {"idle", "received", "claim"} : pc' = [pc EXCEPT ![w] = n]
    BY <1>3 DEF Receive, StartTask, Crash, EndTask, Proceed, Goto
  <2>2. /\ ~Active(w) /\ ~Active(w)'
        /\ \A v \in Worker \ {w} : pc'[v] = pc[v] /\ cur'[v] = cur[v]
    BY <1>0, <1>3, <2>1 DEF Receive, StartTask, Crash, EndTask, Proceed, Active
  <2>3. \A v \in Worker : /\ Active(v)' <=> Active(v)
                          /\ Active(v) => pc'[v] = pc[v] /\ cur'[v] = cur[v]
    BY <2>2 DEF Active
  <2>4. UNCHANGED StagePhaseMap
    BY <1>1, <2>3, ResultPhaseFrame
  <2> QED BY <1>1, <1>2, <2>4, ResultsActions
<1>4. CASE Crash(w) /\ Active(w)
  <2>1. PICK j \in Job : j = cur[w]
    BY <1>0
  <2>2. UNCHANGED <<cur, claims>> /\ pc' = [pc EXCEPT ![w] = "idle"] /\ claims[j] # 0
    BY <1>1, <1>4, <2>1, AtWork DEF Crash, EndTask, Goto
  <2>3. /\ StagePhaseMap[j] = StepPhase(pc[w])
        /\ StagePhaseMap' = [StagePhaseMap EXCEPT ![j] = "over"]
    BY <1>0, <1>4, <2>1, <2>2, TaskPhases DEF PhaseAfter
  <2>4. StagePhaseMap[j] \in {"storing", "failing", "reporting"}
    BY <2>3 DEF StepPhase
  <2>5. Results!End(j)
    BY <1>1, <1>2, <2>3, <2>4, ResultsActions
  <2> QED BY <2>5
<1> QED
  BY <1>3, <1>4

LEMMA ClaimResults ==
  ASSUME TypeOK, ClaimInv, AccountInv, OwnerPhase, OwnerPhase', NEW w \in Worker, Claim(w)
  PROVE  (\E j \in Job : Results!Start(j)) \/ UNCHANGED Results!vars
<1>0. /\ pc \in [Worker -> TaskStep] /\ cur \in [Worker -> Job]
      /\ jobStatus \in [Job -> Status] /\ claims \in [Job -> Nat]
      /\ pc[w] = "claim"
  BY DEF TypeOK, TaskOK, JobOK, HistoryOK, Claim
<1>1. PICK j \in Job : j = cur[w]
  BY <1>0
<1>2. UNCHANGED <<cur, resultVars>>
  BY DEF Claim, EndTask, Proceed
<1>3. UNCHANGED StoredMap
  BY <1>2 DEF StoredMap, StoredKinds, resultVars
<1>4. \/ /\ jobStatus[j] = "queued"
         /\ jobStatus' = [jobStatus EXCEPT ![j] = "running"]
         /\ claims' = [claims EXCEPT ![j] = claims[j] + 1]
         /\ \E n \in {"idle", "prepare"} : pc' = [pc EXCEPT ![w] = n]
      \/ /\ pc' = [pc EXCEPT ![w] = "idle"]
         /\ UNCHANGED <<jobStatus, claims>>
  BY <1>1 DEF Claim, EndTask, Proceed, Goto, jobVars, historyVars
<1>5. CASE /\ pc' = [pc EXCEPT ![w] = "idle"]
           /\ UNCHANGED <<jobStatus, claims>>
  <2>1. \A v \in Worker : /\ Active(v)' <=> Active(v)
                          /\ Active(v) => pc'[v] = pc[v] /\ cur'[v] = cur[v]
    BY <1>0, <1>2, <1>5 DEF Active
  <2>2. UNCHANGED StagePhaseMap
    BY <1>5, <2>1, ResultPhaseFrame
  <2> QED BY <1>3, <1>5, <2>2, ResultsActions
<1>6. CASE /\ jobStatus[j] = "queued"
           /\ jobStatus' = [jobStatus EXCEPT ![j] = "running"]
           /\ claims' = [claims EXCEPT ![j] = claims[j] + 1]
           /\ \E n \in {"idle", "prepare"} : pc' = [pc EXCEPT ![w] = n]
  <2>1. claims[j] = 0 /\ claims'[j] # 0
    BY <1>0, <1>6 DEF ClaimInv
  <2>2. \A v \in Worker : Active(v) => cur[v] # j
    BY <1>6 DEF ClaimInv
  <2>3. ResultPhase(j) = "to come"
    BY <2>1, <2>2 DEF OwnerPhase, Owned
  <2>4. ResultPhase(j)' \in {"storing", "over"}
    <3>1. \A v \in Worker : Active(v)' /\ cur'[v] = j => pc'[v] = "prepare"
      BY <1>0, <1>2, <1>6, <2>2 DEF Active
    <3>2. CASE Owned(j)'
      BY <3>1, <3>2 DEF OwnerPhase, Owned, StepPhase
    <3>3. CASE ~Owned(j)'
      BY <2>1, <3>3 DEF OwnerPhase
    <3> QED BY <3>2, <3>3
  <2>5. \A k \in Job \ {j} : ResultPhase(k)' = ResultPhase(k)
    <3> TAKE k \in Job \ {j}
    <3>1. \A v \in Worker : cur[v] = k => pc'[v] = pc[v] /\ cur'[v] = cur[v]
      BY <1>1, <1>2, <1>6
    <3>2. claims'[k] = claims[k]
      BY <1>6
    <3> QED BY <1>2, <3>1, <3>2 DEF ResultPhase, AnalysisPhase, Active
  <2>6. \E p \in {"storing", "over"} : StagePhaseMap' = [StagePhaseMap EXCEPT ![j] = p]
    BY <2>4, <2>5 DEF StagePhaseMap
  <2>7. StagePhaseMap[j] = "to come"
    BY <2>3 DEF StagePhaseMap
  <2>8. Results!Start(j)
    BY <1>3, <1>6, <2>6, <2>7, ResultsActions
  <2> QED BY <2>8
<1> QED
  BY <1>4, <1>5, <1>6

\* What a step of the pipeline may store: nothing, rows of its own stage, or the
\* report as its last step.
StoredEffect(w, j) ==
  \/ UNCHANGED StoredMap
  \/ /\ pc[w] \in {"insert", "detect", "detect_error", "ioc_commit"}
     /\ UNCHANGED jobStatus
     /\ \E kind \in FindingKind \cup {"artifacts", "iocs"} :
          StoredMap' = [StoredMap EXCEPT ![j] = StoredMap[j] \cup {kind}]
     /\ \E n \in TaskStep \ {"idle", "received", "claim", "report", "report_commit"} :
          pc' = [pc EXCEPT ![w] = n]
  \/ /\ pc[w] = "report_commit"
     /\ UNCHANGED jobStatus
     /\ StoredMap' = [StoredMap EXCEPT ![j] = StoredMap[j] \cup {"report"}]
     /\ pc' = [pc EXCEPT ![w] = "idle"]

LEMMA StoredStep ==
  ASSUME TypeOK, AccountInv, NEW w \in Worker, Pipeline(w), NEW j \in Job, j = cur[w]
  PROVE  StoredEffect(w, j)
<1>0. /\ pluginRows \in [Job -> Seq(Row)] /\ findings \in [Job -> SUBSET FindingKind]
      /\ iocRows \in [Job -> BOOLEAN] /\ reportRow \in [Job -> BOOLEAN]
  BY DEF TypeOK, ResultOK
<1> DEFINE Gains(kind) ==
      /\ StoredKinds(j)' = StoredKinds(j) \cup {kind}
      /\ \A k \in Job \ {j} : StoredKinds(k)' = StoredKinds(k)
<1>1. ASSUME NEW kind, Gains(kind)
      PROVE  StoredMap' = [StoredMap EXCEPT ![j] = StoredMap[j] \cup {kind}]
  BY <1>1 DEF StoredMap
<1>2. ASSUME \A k \in Job : StoredKinds(k)' = StoredKinds(k)
      PROVE  StoredEffect(w, j)
  BY <1>2 DEF StoredEffect, StoredMap
<1> HIDE DEF Gains
<1>3. CASE InsertPluginResult(w)
  <2>1. Active(w) /\ pc[w] = "insert"
    BY <1>3 DEF InsertPluginResult, Active
  <2>2. /\ Len(pluginRows[j]) = step[w] - 1 /\ step[w] <= Len(Plan[j])
        /\ step[w] \in Nat \ {0} /\ Len(Plan[j]) \in Nat
    BY <2>1, AtWork, PlanLength DEF Progress
  <2>3. PICK r : \/ pluginRows' = [pluginRows EXCEPT ![j] = Append(pluginRows[j], r)]
                 \/ UNCHANGED pluginRows
    BY <1>3 DEF InsertPluginResult
  <2>4. UNCHANGED <<jobStatus, findings, iocRows, reportRow>>
    BY <1>3 DEF InsertPluginResult, jobVars
  <2>5. PICK n \in {"handler", "parse", "run", "detect", "mark_failed"} :
          pc' = [pc EXCEPT ![w] = n]
    BY <1>3 DEF InsertPluginResult, Proceed, NextPlugin, Goto
  <2>6. CASE UNCHANGED pluginRows
    BY <1>2, <2>4, <2>6, StoredFrame
  <2>7. CASE pluginRows' = [pluginRows EXCEPT ![j] = Append(pluginRows[j], r)]
    <3>1. /\ pluginRows'[j] = Append(pluginRows[j], r)
          /\ \A k \in Job \ {j} : pluginRows'[k] = pluginRows[k]
      BY <1>0, <2>7
    <3>2. Len(pluginRows'[j]) = step[w] /\ Len(pluginRows[j]) # Len(Plan[j])
      BY <1>0, <2>2, <3>1
    <3>3. \A k \in Job \ {j} : StoredKinds(k)' = StoredKinds(k)
      BY <2>4, <3>1, StoredFrame
    <3>4. StoredKinds(j)' = StoredKinds(j)
             \cup (IF step[w] = Len(Plan[j]) THEN {"artifacts"} ELSE {})
      BY <2>4, <3>2 DEF StoredKinds
    <3>5. CASE step[w] # Len(Plan[j])
      BY <1>2, <3>3, <3>4, <3>5
    <3>6. CASE step[w] = Len(Plan[j])
      <4>1. Gains("artifacts")
        BY <3>3, <3>4, <3>6 DEF Gains
      <4>2. StoredMap' = [StoredMap EXCEPT ![j] = StoredMap[j] \cup {"artifacts"}]
        BY <1>1, <4>1
      <4> QED BY <2>1, <2>4, <2>5, <4>2 DEF StoredEffect
    <3> QED BY <3>5, <3>6
  <2> QED BY <2>3, <2>6, <2>7
<1>4. CASE Detect(w) \/ RecordDetectionError(w)
  <2>1. /\ pc[w] \in {"detect", "detect_error"}
        /\ UNCHANGED <<jobStatus, pluginRows, iocRows, reportRow>>
    BY <1>4 DEF Detect, RecordDetectionError, jobVars
  <2>2. PICK n \in {"detect_error", "ioc", "handler"} : pc' = [pc EXCEPT ![w] = n]
    BY <1>4 DEF Detect, RecordDetectionError, Proceed, Goto
  <2>3. PICK kind \in FindingKind :
          \/ UNCHANGED findings
          \/ findings' = [findings EXCEPT ![j] = findings[j] \cup {kind}]
    <3>1. CASE Detect(w)
      <4>1. \/ UNCHANGED findings
            \/ findings' = [findings EXCEPT ![j] = findings[j] \cup {"rules"}]
        BY <3>1 DEF Detect
      <4> QED BY <4>1 DEF FindingKind
    <3>2. CASE RecordDetectionError(w)
      <4>1. \/ UNCHANGED findings
            \/ findings' = [findings EXCEPT ![j] = findings[j] \cup {"stage_error"}]
        BY <3>2 DEF RecordDetectionError
      <4> QED BY <4>1 DEF FindingKind
    <3> QED BY <1>4, <3>1, <3>2
  <2>4. CASE UNCHANGED findings
    BY <1>2, <2>1, <2>4, StoredFrame
  <2>5. CASE findings' = [findings EXCEPT ![j] = findings[j] \cup {kind}]
    <3>1. /\ findings'[j] = findings[j] \cup {kind}
          /\ \A k \in Job \ {j} : findings'[k] = findings[k]
      BY <1>0, <2>5
    <3>2. Gains(kind)
      BY <2>1, <3>1, StoredFrame DEF Gains, StoredKinds
    <3>3. StoredMap' = [StoredMap EXCEPT ![j] = StoredMap[j] \cup {kind}]
      BY <1>1, <3>2
    <3> QED BY <2>1, <2>2, <3>3 DEF StoredEffect
  <2> QED BY <2>3, <2>4, <2>5
<1>5. CASE CommitIocs(w)
  <2>1. /\ pc[w] = "ioc_commit" /\ pc' = [pc EXCEPT ![w] = "complete"]
        /\ UNCHANGED <<jobStatus, pluginRows, findings, reportRow>>
        /\ UNCHANGED iocRows \/ iocRows' = [iocRows EXCEPT ![j] = TRUE]
    BY <1>5 DEF CommitIocs, jobVars, Proceed, Goto
  <2>2. CASE iocRows' = iocRows
    BY <1>2, <2>1, <2>2, StoredFrame
  <2>3. CASE iocRows' # iocRows
    <3>1. /\ iocRows'[j] /\ ~iocRows[j]
          /\ \A k \in Job \ {j} : iocRows'[k] = iocRows[k]
      <4>1. iocRows' = [iocRows EXCEPT ![j] = TRUE]
        BY <2>1, <2>3
      <4>2. iocRows[j] \in BOOLEAN /\ (iocRows[j] = TRUE => iocRows' = iocRows)
        BY <1>0, <4>1
      <4> QED BY <1>0, <2>3, <4>1, <4>2
    <3>2. Gains("iocs")
      BY <2>1, <3>1, StoredFrame DEF Gains, StoredKinds
    <3>3. StoredMap' = [StoredMap EXCEPT ![j] = StoredMap[j] \cup {"iocs"}]
      BY <1>1, <3>2
    <3> QED BY <2>1, <3>3 DEF StoredEffect
  <2> QED BY <2>2, <2>3
<1>6. CASE CommitReport(w)
  <2>1. /\ pc[w] = "report_commit" /\ pc' = [pc EXCEPT ![w] = "idle"]
        /\ UNCHANGED <<jobStatus, pluginRows, findings, iocRows>>
        /\ UNCHANGED reportRow \/ reportRow' = [reportRow EXCEPT ![j] = TRUE]
    BY <1>6 DEF CommitReport, jobVars, EndTask, Goto
  <2>2. CASE reportRow' = reportRow
    BY <1>2, <2>1, <2>2, StoredFrame
  <2>3. CASE reportRow' = [reportRow EXCEPT ![j] = TRUE]
    <3>1. reportRow'[j] /\ \A k \in Job \ {j} : reportRow'[k] = reportRow[k]
      BY <1>0, <2>3
    <3>2. Gains("report")
      BY <2>1, <3>1, StoredFrame DEF Gains, StoredKinds
    <3>3. StoredMap' = [StoredMap EXCEPT ![j] = StoredMap[j] \cup {"report"}]
      BY <1>1, <3>2
    <3> QED BY <2>1, <3>3 DEF StoredEffect
  <2> QED BY <2>1, <2>2, <2>3
<1>7. CASE StoreArtifacts(w) \/ RecordParseError(w)
  <2>1. Active(w) /\ pc[w] \in {"store", "parse_error"}
    BY <1>7 DEF StoreArtifacts, RecordParseError, Active
  <2>2. UNCHANGED <<findings, iocRows, reportRow>>
    BY <1>7 DEF StoreArtifacts, RecordParseError
  <2>4. /\ Len(pluginRows'[j]) = Len(pluginRows[j])
        /\ \A k \in Job \ {j} : pluginRows'[k] = pluginRows[k]
    <3>1. /\ step[w] \in Nat \ {0} /\ Len(pluginRows[j]) = step[w]
      BY <2>1, AtWork DEF Progress
    <3>2. PICK i \in 1..Len(pluginRows[j]) : i = Len(pluginRows[j])
      BY <3>1
    <3>3. \E r \in {ParsedRow(pluginRows[j][i]), UnparsedRow(pluginRows[j][i])} :
            pluginRows' = [pluginRows EXCEPT ![j][i] = r] \/ UNCHANGED pluginRows
      BY <1>7, <3>2 DEF StoreArtifacts, RecordParseError
    <3>4. PICK r \in {ParsedRow(pluginRows[j][i]), UnparsedRow(pluginRows[j][i])} :
            pluginRows' = [pluginRows EXCEPT ![j][i] = r] \/ UNCHANGED pluginRows
      BY <3>3
    <3>5. CASE pluginRows' = [pluginRows EXCEPT ![j][i] = r]
      <4>1. RowReplaced(j, i, r)
        BY <3>5 DEF RowReplaced, ParsedRow, UnparsedRow
      <4> QED BY <4>1, RowReplacement
    <3> QED BY <3>4, <3>5
  <2>5. \A k \in Job : StoredKinds(k)' = StoredKinds(k)
    BY <2>2, <2>4 DEF StoredKinds
  <2> QED BY <1>2, <2>5
<1>8. CASE ~(\/ InsertPluginResult(w) \/ Detect(w) \/ RecordDetectionError(w) \/ CommitIocs(w)
            \/ CommitReport(w) \/ StoreArtifacts(w) \/ RecordParseError(w))
  <2>1. UNCHANGED resultVars
    BY <1>8 DEF Pipeline, Prepare, RunPlugin, UploadRaw, ParseOutput, ExportIocs,
       MarkCompleted, UploadReport, MarkAllFailed, HandleTaskError, resultVars
  <2> QED BY <1>2, <2>1, StoredFrame DEF resultVars
<1> QED
  BY <1>3, <1>4, <1>5, <1>6, <1>7, <1>8

\* A step of the pipeline stores something and leaves the status alone, or writes
\* the status and stores nothing.
LEMMA PipelineResults ==
  ASSUME TypeOK, ClaimInv, AccountInv, OwnerPhase, OwnerPhase', NEW w \in Worker, Pipeline(w)
  PROVE  \/ \E j \in Job :
              \/ Results!Complete(j) \/ Results!StoreReport(j) \/ Results!End(j)
              \/ \E kind \in FindingKind \cup {"artifacts", "iocs"} : Results!Store(j, kind)
         \/ UNCHANGED Results!vars
<1>0. pc \in [Worker -> TaskStep]
  BY DEF TypeOK, TaskOK
<1>1. PICK j \in Job : j = cur[w]
  BY DEF TypeOK, TaskOK
<1>2. StatusEffect(w) /\ UNCHANGED <<cur, claims>>
  BY StatusEffectStep, PipelineStep DEF PipelineEffect, StatusEffect
<1>3. Active(w) /\ claims[j] # 0
  BY <1>1, <1>2, AtWork DEF StatusEffect
<1>4. StoredEffect(w, j)
  BY <1>1, StoredStep
<1>5. PICK n \in TaskStep : /\ pc' = [pc EXCEPT ![w] = n]
        /\ \/ /\ UNCHANGED jobStatus
              /\ n \notin {"received", "claim", "report"}
              /\ n = "report_commit" => pc[w] = "report"
              /\ pc[w] = "handler" => n = "idle"
              /\ pc[w] \in {"report", "report_commit"} => n \in {"idle", "report_commit"}
           \/ /\ pc[w] = "complete"
              /\ jobStatus' = [jobStatus EXCEPT ![j] = "completed"]
              /\ n \in {"report", "handler"}
           \/ /\ pc[w] \in {"mark_failed", "handler"}
              /\ jobStatus' = [jobStatus EXCEPT ![j] = "failed"]
              /\ n \in {"idle", "handler"}
              /\ pc[w] = "handler" => n = "idle"
  BY <1>1, <1>2 DEF StatusEffect
<1>6. n \in TaskStep \ {"received", "claim"}
  BY <1>5
<1>7. /\ StagePhaseMap[j] = StepPhase(pc[w])
      /\ StagePhaseMap' = [StagePhaseMap EXCEPT ![j] = PhaseAfter(n)]
  <2>1. pc' = [pc EXCEPT ![w] = n] /\ UNCHANGED <<cur, claims>> /\ Active(w)
    BY <1>2, <1>3, <1>5
  <2> QED BY <1>0, <1>1, <1>3, <1>6, <2>1, TaskPhases
<1>8. pc'[w] = n
  BY <1>0, <1>5
<1>9. CASE /\ pc[w] \in {"insert", "detect", "detect_error", "ioc_commit"}
           /\ UNCHANGED jobStatus
           /\ \E kind \in FindingKind \cup {"artifacts", "iocs"} :
                StoredMap' = [StoredMap EXCEPT ![j] = StoredMap[j] \cup {kind}]
           /\ \E m \in TaskStep \ {"idle", "received", "claim", "report", "report_commit"} :
                pc' = [pc EXCEPT ![w] = m]
  <2>1. n \notin {"idle", "report", "report_commit"}
    BY <1>0, <1>8, <1>9
  <2>2. StagePhaseMap[j] = "storing" /\ StepPhase(n) \in {"storing", "failing"}
    BY <1>7, <1>9, <2>1 DEF StepPhase, PhaseAfter
  <2>3. \E p \in {"storing", "failing"} : StagePhaseMap' = [StagePhaseMap EXCEPT ![j] = p]
    BY <1>7, <2>1, <2>2 DEF PhaseAfter
  <2>4. PICK kind \in FindingKind \cup {"artifacts", "iocs"} :
          StoredMap' = [StoredMap EXCEPT ![j] = StoredMap[j] \cup {kind}]
    BY <1>9
  <2>5. Results!Store(j, kind)
    BY <1>9, <2>2, <2>3, <2>4, ResultsActions
  <2> QED BY <2>5
<1>10. CASE /\ pc[w] = "report_commit"
            /\ UNCHANGED jobStatus
            /\ StoredMap' = [StoredMap EXCEPT ![j] = StoredMap[j] \cup {"report"}]
            /\ pc' = [pc EXCEPT ![w] = "idle"]
  <2>1. n = "idle"
    BY <1>0, <1>8, <1>10
  <2>2. StagePhaseMap[j] = "reporting" /\ StagePhaseMap' = [StagePhaseMap EXCEPT ![j] = "over"]
    BY <1>7, <1>10, <2>1 DEF StepPhase, PhaseAfter
  <2>3. Results!StoreReport(j)
    BY <1>10, <2>2, ResultsActions
  <2> QED BY <2>3
<1>11. CASE UNCHANGED StoredMap
  <2>1. CASE UNCHANGED jobStatus /\ n # "idle" /\ StepPhase(n) = StepPhase(pc[w])
    <3>1. StagePhaseMap' = [StagePhaseMap EXCEPT ![j] = StagePhaseMap[j]]
      BY <1>7, <2>1 DEF PhaseAfter
    <3>2. UNCHANGED StagePhaseMap
      BY <3>1 DEF StagePhaseMap
    <3> QED BY <1>11, <2>1, <3>2, ResultsActions
  <2>2. CASE UNCHANGED jobStatus /\ n = "idle"
    <3>1. StagePhaseMap[j] \in {"storing", "failing", "reporting"}
      BY <1>7 DEF StepPhase, PhaseAfter
    <3>2. StagePhaseMap' = [StagePhaseMap EXCEPT ![j] = "over"]
      BY <1>7, <2>2 DEF PhaseAfter
    <3>3. Results!End(j)
      BY <1>11, <2>2, <3>1, <3>2, ResultsActions
    <3> QED BY <3>3
  <2>3. CASE UNCHANGED jobStatus /\ n = "handler" /\ StepPhase(pc[w]) = "storing"
    <3>1. StagePhaseMap[j] = "storing"
      BY <1>7, <2>3 DEF PhaseAfter
    <3>2. StagePhaseMap' = [StagePhaseMap EXCEPT ![j] = "failing"]
      BY <1>7, <2>3 DEF StepPhase, PhaseAfter
    <3>3. Results!End(j)
      BY <1>11, <2>3, <3>1, <3>2, ResultsActions
    <3> QED BY <3>3
  <2>4. CASE /\ pc[w] = "complete" /\ n \in {"report", "handler"}
             /\ jobStatus' = [jobStatus EXCEPT ![j] = "completed"]
    <3>1. /\ StagePhaseMap[j] = "storing"
          /\ \E p \in {"reporting", "failing"} : StagePhaseMap' = [StagePhaseMap EXCEPT ![j] = p]
      BY <1>7, <2>4 DEF StepPhase, PhaseAfter
    <3>2. Results!Complete(j)
      BY <1>11, <2>4, <3>1, ResultsActions
    <3> QED BY <3>2
  <2>5. CASE /\ pc[w] \in {"mark_failed", "handler"} /\ n \in {"idle", "handler"}
             /\ pc[w] = "handler" => n = "idle"
             /\ jobStatus' = [jobStatus EXCEPT ![j] = "failed"]
    <3>1. CASE pc[w] = "handler"
      <4>1. StagePhaseMap[j] = "failing" /\ StagePhaseMap' = [StagePhaseMap EXCEPT ![j] = "over"]
        BY <1>7, <2>5, <3>1 DEF StepPhase, PhaseAfter
      <4>2. Results!End(j)
        BY <1>11, <2>5, <4>1, ResultsActions
      <4> QED BY <4>2
    <3>2. CASE pc[w] = "mark_failed"
      <4>1. /\ StagePhaseMap[j] = "storing"
            /\ \E p \in {"failing", "over"} : StagePhaseMap' = [StagePhaseMap EXCEPT ![j] = p]
        BY <1>7, <2>5, <3>2 DEF StepPhase, PhaseAfter
      <4>2. Results!End(j)
        BY <1>11, <2>5, <4>1, ResultsActions
      <4> QED BY <4>2
    <3> QED BY <2>5, <3>1, <3>2
  <2>6. CASE /\ UNCHANGED jobStatus
             /\ n \notin {"received", "claim", "report"}
             /\ n = "report_commit" => pc[w] = "report"
             /\ pc[w] = "handler" => n = "idle"
             /\ pc[w] \in {"report", "report_commit"} => n \in {"idle", "report_commit"}
    <3>1. \/ n = "idle"
          \/ n # "idle" /\ StepPhase(n) = StepPhase(pc[w])
          \/ n = "handler" /\ StepPhase(pc[w]) = "storing"
      BY <2>6 DEF StepPhase, PhaseAfter
    <3> QED BY <2>1, <2>2, <2>3, <2>6, <3>1
  <2> QED BY <1>5, <2>4, <2>5, <2>6
<1> QED
  BY <1>4, <1>9, <1>10, <1>11 DEF StoredEffect

LEMMA ResultsStep ==
  /\ TypeOK /\ ClaimInv /\ AccountInv /\ StatusInv
  /\ OwnerPhase /\ OwnerPhase' /\ [Next]_vars
  => [Results!Next]_(Results!vars)
<1> SUFFICES ASSUME TypeOK, ClaimInv, AccountInv, StatusInv, OwnerPhase, OwnerPhase', [Next]_vars
             PROVE  Results!Next \/ UNCHANGED Results!vars
  OBVIOUS
<1>1. ASSUME NEW j \in Job, RequestStep(j) \/ RequestDies(j)
      PROVE  Results!Next \/ UNCHANGED Results!vars
  BY <1>1, RequestResults DEF Results!Next
<1>2. ASSUME NEW w \in Worker, Receive(w) \/ StartTask(w) \/ Crash(w)
      PROVE  Results!Next \/ UNCHANGED Results!vars
  BY <1>2, IdleResults DEF Results!Next
<1>3. ASSUME NEW w \in Worker, Claim(w)
      PROVE  Results!Next \/ UNCHANGED Results!vars
  BY <1>3, ClaimResults DEF Results!Next
<1>4. ASSUME NEW w \in Worker, Pipeline(w)
      PROVE  Results!Next \/ UNCHANGED Results!vars
  BY <1>4, PipelineResults DEF Results!Next
<1>5. CASE UNCHANGED vars
  <2>1. UNCHANGED <<jobStatus, StagePhaseMap, StoredMap>>
    BY <1>5 DEF vars, taskVars, jobVars, resultVars, historyVars, StagePhaseMap, StoredMap,
       ResultPhase, AnalysisPhase, StoredKinds, Active
  <2> QED BY <2>1, ResultsActions
<1> QED
  BY <1>1, <1>2, <1>3, <1>4, <1>5 DEF Next, WorkerStep

\* Readers of a job's tables see results only after it ran and, once completed was
\* written by its own task, nothing new but the report, for any number of workers,
\* jobs, plugins and faults.
THEOREM ResultsImplemented == Spec => ImplementsResults
<1>1. Init => Results!Init
  BY ResultsInit
<1>2. TypeOK /\ ClaimInv /\ AccountInv /\ StatusInv /\ [Next]_vars
      => [Results!Next]_(Results!vars)
  BY OwnerPhaseNext, ResultsStep
<1> QED
  BY <1>1, <1>2, TypeCorrect, ClaimCorrect, AccountCorrect, StatusCorrect, PTL
     DEF Spec, ImplementsResults, Results!Spec
=============================================================================
