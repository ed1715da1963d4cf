---------------------------- MODULE AnalysisJob ----------------------------
(***************************************************************************)
(* The life of an analysis job: the API request that creates and           *)
(* dispatches it, the Celery broker that carries its id, and the worker    *)
(* task that claims it and runs the Volatility pipeline, over the          *)
(* PostgreSQL tables and the MinIO buckets both processes share.           *)
(*                                                                         *)
(* Every database transaction, every object upload and every broker call   *)
(* is a step of its own, so the steps of the API and of the workers        *)
(* interleave between any two of them, and a process can die there.        *)
(***************************************************************************)
EXTENDS Naturals, Sequences, FiniteSets

CONSTANTS
  Job,         \* analysis job ids
  Worker,      \* Celery worker processes (solo pool: one task at a time)
  Plugin,      \* names in the Volatility plugin registry
  Plan,        \* Plan[j]: the plugins select_plugins returns for job j
  MaxCopies,   \* bound: messages ever enqueued for one job
  Faults       \* the kinds of failure a run may meet

FaultKind == {"publish", "ack", "rollback", "in_doubt", "storage",
              "plugin", "stage", "crash", "backend"}

ASSUME PlanAssumption ==
  Plan \in [Job -> Seq(Plugin)] /\ \A j \in Job : Len(Plan[j]) > 0
ASSUME JobAssumption == Job # {}
ASSUME CopiesAssumption == MaxCopies \in Nat \ {0}
ASSUME FaultsAssumption == Faults \subseteq FaultKind

VARIABLES
  request,       \* where the POST /analysis-jobs request of a job stands
  queue,         \* broker: copies of the job's message waiting for a worker
  copies,        \* broker: copies of the job's message enqueued so far
  pc, cur,       \* worker: the next step of its task, and the task's job
  step,          \* worker: the position in the plan
  run,           \* worker: outcome of the current plugin, as it will be stored
  succeeded,     \* worker: successful_plugins > 0
  jobStatus,     \* analysis_jobs.status
  jobError,      \* analysis_jobs.error_message, by its origin
  pluginRows,    \* plugin_results of the job in insertion order
  artifacts,     \* positions whose parsed artifact rows are stored
  findings,      \* risk_findings of the job, by the stage that wrote them
  iocRows,       \* the ioc rows of the job are stored
  reportRow,     \* the report metadata row of the job is stored
  rawObject,     \* raw bucket: position of the run whose output a key holds
  parsedObject,  \* raw bucket: plugins with a parsed output object
  iocObjects,    \* raw bucket: IOC exports of the job
  reportObject,  \* report bucket: what the stored report was rendered from
  claims,        \* history: how often a worker's claim took effect
  abandoned,     \* history: a process died or raised while owing the job a step
  inDoubt        \* history: a commit took effect but its caller saw an error

requestVars == <<request>>
brokerVars  == <<queue, copies>>
taskVars    == <<pc, cur, step, run, succeeded>>
jobVars     == <<jobStatus, jobError>>
resultVars  == <<pluginRows, artifacts, findings, iocRows, reportRow>>
objectVars  == <<rawObject, parsedObject, iocObjects, reportObject>>
historyVars == <<claims, abandoned, inDoubt>>
vars == <<requestVars, brokerVars, taskVars, jobVars, resultVars, objectVars,
          historyVars>>

Status     == {"none", "queued", "running", "completed", "failed"}
Terminal   == {"completed", "failed"}
ErrorKind  == {"none", "dispatch", "task", "all_plugins"}
RunStatus  == {"completed", "failed", "skipped"}
Request    == {"new", "dispatch", "compensate", "answered", "rejected", "lost"}
TaskStep   == {"idle", "received", "claim", "prepare", "run", "upload_raw",
               "insert", "parse", "store", "parse_error", "detect",
               "detect_error", "ioc", "ioc_commit", "complete", "report",
               "report_commit", "mark_failed", "handler"}
PluginRun  == [status : RunStatus, raw : BOOLEAN]
Row        == [status : RunStatus, raw : BOOLEAN, parsed : BOOLEAN,
               count : {"zero", "stored", "unknown"}]
Export     == {"json", "csv"}
Positions(j) == 1..Len(Plan[j])
NoReport   == [status |-> "none", rows |-> <<>>, findings |-> {},
               iocs |-> FALSE]
NoRun      == [status |-> "failed", raw |-> FALSE]

\* A worker owns a job from its successful claim to the end of the task.
Active(w) == pc[w] \notin {"idle", "received", "claim"}

-----------------------------------------------------------------------------
(***************************************************************************)
(* Transactions and uploads.  "with engine.begin()" commits, or fails and  *)
(* rolls back, or loses the answer to its COMMIT: the rows are there and   *)
(* the caller still gets an exception.                                     *)
(***************************************************************************)
Outcome     == {"committed"} \cup (Faults \cap {"rollback", "in_doubt"})
Applied(o)  == o \in {"committed", "in_doubt"}
Raised(o)   == o # "committed"
Doubt(j, o) == inDoubt' = IF o = "in_doubt" THEN inDoubt \cup {j} ELSE inDoubt

\* An optional step: it succeeds, or fails when that kind of fault can occur.
Succeeds(kind) == {TRUE} \cup (IF kind \in Faults THEN {FALSE} ELSE {})

Goto(w, next) == pc' = [pc EXCEPT ![w] = next]

\* The task's local variables are gone when it returns or its process dies.
EndTask(w) ==
  /\ Goto(w, "idle")
  /\ step'      = [step EXCEPT ![w] = 1]
  /\ run'       = [run EXCEPT ![w] = NoRun]
  /\ succeeded' = [succeeded EXCEPT ![w] = FALSE]
  /\ UNCHANGED cur

\* Mutated form: the loop's bound is one too high.
MorePluginsPastEnd(w) == step[w] <= Len(Plan[cur[w]])
MorePlugins(w) == step[w] < Len(Plan[cur[w]])

\* The end of one pass of the plugin loop, with its success counted or not.
NextPlugin(w, counted) ==
  LET any == succeeded[w] \/ counted IN
  /\ succeeded' = [succeeded EXCEPT ![w] = any]
  /\ IF MorePlugins(w)
       THEN /\ step' = [step EXCEPT ![w] = @ + 1]
            /\ Goto(w, "run")
       ELSE /\ UNCHANGED step
            /\ Goto(w, IF any THEN "detect" ELSE "mark_failed")
  /\ UNCHANGED <<cur, run>>

\* A step of the task that moves its program counter and no other local.
Proceed(w, next) == Goto(w, next) /\ UNCHANGED <<cur, step, run, succeeded>>

Init ==
  /\ request      = [j \in Job |-> "new"]
  /\ queue        = [j \in Job |-> 0]
  /\ copies       = [j \in Job |-> 0]
  /\ pc           = [w \in Worker |-> "idle"]
  /\ cur          = [w \in Worker |-> CHOOSE j \in Job : TRUE]
  /\ step         = [w \in Worker |-> 1]
  /\ run          = [w \in Worker |-> NoRun]
  /\ succeeded    = [w \in Worker |-> FALSE]
  /\ jobStatus    = [j \in Job |-> "none"]
  /\ jobError     = [j \in Job |-> "none"]
  /\ pluginRows   = [j \in Job |-> <<>>]
  /\ artifacts    = [j \in Job |-> {}]
  /\ findings     = [j \in Job |-> {}]
  /\ iocRows      = [j \in Job |-> FALSE]
  /\ reportRow    = [j \in Job |-> FALSE]
  /\ rawObject    = [j \in Job |-> [p \in Plugin |-> 0]]
  /\ parsedObject = [j \in Job |-> {}]
  /\ iocObjects   = [j \in Job |-> {}]
  /\ reportObject = [j \in Job |-> NoReport]
  /\ claims       = [j \in Job |-> 0]
  /\ abandoned    = {}
  /\ inDoubt      = {}

-----------------------------------------------------------------------------
(***************************************************************************)
(* The API: create_analysis_job.                                           *)
(***************************************************************************)

\* The row is inserted as queued and committed before anything is sent.  After
\* a lost answer the request ends in an error with the queued row in place.
CreateJob(j) ==
  /\ request[j] = "new"
  /\ \E o \in Outcome :
       /\ request' = [request EXCEPT ![j] = IF Raised(o) THEN "lost"
                                                         ELSE "dispatch"]
       /\ jobStatus' = [jobStatus EXCEPT ![j] = IF Applied(o) THEN "queued"
                                                              ELSE "none"]
       /\ abandoned' = IF o = "in_doubt" THEN abandoned \cup {j} ELSE abandoned
       /\ Doubt(j, o)
  /\ UNCHANGED <<brokerVars, taskVars, jobError, resultVars, objectVars, claims>>

\* send_task pushes the id on the Redis list.  Its own connection retry may
\* push it again when the answer to the first push was lost.
Dispatch(j) ==
  /\ request[j] = "dispatch"
  /\ \E n \in IF "publish" \in Faults THEN {1, 2} ELSE {1} :
       /\ n <= MaxCopies
       /\ queue'  = [queue EXCEPT ![j] = @ + n]
       /\ copies' = [copies EXCEPT ![j] = @ + n]
  /\ request' = [request EXCEPT ![j] = "answered"]
  /\ UNCHANGED <<taskVars, jobVars, resultVars, objectVars, historyVars>>

\* Mutated form: the request answers 503 and leaves the row as it is.
NoCompensation     == "rejected"
AfterDispatchError == "compensate"

\* AnalysisJobDispatchError: send_task raised, before or after the push.
DispatchError(j) ==
  /\ "publish" \in Faults
  /\ request[j] = "dispatch"
  /\ \E n \in {0, 1} :
       /\ n <= MaxCopies
       /\ queue'  = [queue EXCEPT ![j] = @ + n]
       /\ copies' = [copies EXCEPT ![j] = @ + n]
  /\ request' = [request EXCEPT ![j] = AfterDispatchError]
  /\ UNCHANGED <<taskVars, jobVars, resultVars, objectVars, historyVars>>

\* The handler of that error writes failed over whatever status the row has by
\* then, commits, and answers 503.
MarkDispatchFailed(j) ==
  /\ request[j] = "compensate"
  /\ \E o \in Outcome :
       /\ jobStatus' = IF Applied(o) THEN [jobStatus EXCEPT ![j] = "failed"]
                                     ELSE jobStatus
       /\ jobError'  = IF Applied(o) THEN [jobError EXCEPT ![j] = "dispatch"]
                                     ELSE jobError
       /\ request'   = [request EXCEPT ![j] = IF Raised(o) THEN "lost"
                                                           ELSE "rejected"]
       /\ abandoned' = IF Raised(o) THEN abandoned \cup {j} ELSE abandoned
       /\ Doubt(j, o)
  /\ UNCHANGED <<brokerVars, taskVars, resultVars, objectVars, claims>>

\* The API process dies, or refreshing the row raises, between two steps.
RequestDies(j) ==
  /\ "backend" \in Faults
  /\ request[j] \in {"dispatch", "compensate"}
  /\ request'   = [request EXCEPT ![j] = "lost"]
  /\ abandoned' = abandoned \cup {j}
  /\ UNCHANGED <<brokerVars, taskVars, jobVars, resultVars, objectVars,
                 claims, inDoubt>>

-----------------------------------------------------------------------------
(***************************************************************************)
(* The broker as the Celery worker uses it: no acks_late, so a message is  *)
(* acknowledged when its task starts.                                      *)
(***************************************************************************)

\* An idle worker takes a message, which stays unacknowledged for now.
Receive(w) ==
  /\ pc[w] = "idle"
  /\ \E j \in Job :
       /\ queue[j] > 0
       /\ queue' = [queue EXCEPT ![j] = @ - 1]
       /\ cur'   = [cur EXCEPT ![w] = j]
  /\ Goto(w, "received")
  /\ UNCHANGED <<requestVars, copies, step, run, succeeded, jobVars,
                 resultVars, objectVars, historyVars>>

\* The task starts and its message is acknowledged.  An acknowledgement that
\* does not reach Redis leaves the message to be delivered again.
StartTask(w) ==
  /\ pc[w] = "received"
  /\ Proceed(w, "claim")
  /\ \/ UNCHANGED brokerVars
     \/ /\ "ack" \in Faults
        /\ copies[cur[w]] < MaxCopies
        /\ queue'  = [queue EXCEPT ![cur[w]] = @ + 1]
        /\ copies' = [copies EXCEPT ![cur[w]] = @ + 1]
  /\ UNCHANGED <<requestVars, jobVars, resultVars, objectVars, historyVars>>

\* The worker process is killed; a new one takes its place.  A message it had
\* not acknowledged goes back to the queue, an acknowledged one is gone.
Crash(w) ==
  /\ "crash" \in Faults
  /\ pc[w] # "idle"
  /\ queue' = IF pc[w] = "received" THEN [queue EXCEPT ![cur[w]] = @ + 1]
                                    ELSE queue
  /\ abandoned' = IF pc[w] = "received" THEN abandoned
                                        ELSE abandoned \cup {cur[w]}
  /\ EndTask(w)
  /\ UNCHANGED <<requestVars, copies, jobVars, resultVars, objectVars,
                 claims, inDoubt>>

-----------------------------------------------------------------------------
(***************************************************************************)
(* The worker: run_analysis_job.                                           *)
(***************************************************************************)

\* Mutated form: the UPDATE also matches a running job.
ClaimableWhenRunning(j) == jobStatus[j] \in {"queued", "running"}
\* Mutated form: the UPDATE also matches a failed job, to retry it.
ClaimableWhenFailed(j) == jobStatus[j] \in {"queued", "failed"}
Claimable(j) == jobStatus[j] = "queued"

\* Mutated form: a worker that cannot claim the job tries again.
RetryNoop(w) == Proceed(w, "claim")
Noop(w) == EndTask(w)

\* UPDATE ... WHERE id = j AND status = 'queued'.  The row count decides: one
\* row is a claim, none is a noop.  This transaction is outside the task's try
\* block, so when it raises the task ends and nobody touches the job again.
Claim(w) ==
  LET j == cur[w] IN
  /\ pc[w] = "claim"
  /\ IF Claimable(j)
       THEN \E o \in Outcome :
              /\ IF Applied(o)
                   THEN /\ jobStatus' = [jobStatus EXCEPT ![j] = "running"]
                        /\ jobError'  = [jobError EXCEPT ![j] = "none"]
                        /\ claims'    = [claims EXCEPT ![j] = @ + 1]
                   ELSE UNCHANGED <<jobVars, claims>>
              /\ IF Raised(o)
                   THEN EndTask(w) /\ abandoned' = abandoned \cup {j}
                   ELSE Proceed(w, "prepare") /\ UNCHANGED abandoned
              /\ Doubt(j, o)
       ELSE Noop(w) /\ UNCHANGED <<jobVars, historyVars>>
  /\ UNCHANGED <<requestVars, brokerVars, resultVars, objectVars>>

\* Fetch the job and its evidence, check the storage metadata, select the
\* plugins, find Volatility and download the evidence; any of it may raise.
Prepare(w) ==
  /\ pc[w] = "prepare"
  /\ \E ok \in Succeeds("stage") :
       Proceed(w, IF ok THEN "run" ELSE "handler")
  /\ UNCHANGED <<requestVars, brokerVars, jobVars, resultVars, objectVars,
                 historyVars>>

\* run_volatility_plugin: the exit code or the timeout decides between
\* completed and failed; a plugin that cannot run is skipped; it may raise.
RunPlugin(w) ==
  /\ pc[w] = "run"
  /\ \/ /\ \E s \in IF "plugin" \in Faults THEN RunStatus ELSE {"completed"} :
             run' = [run EXCEPT ![w] = [status |-> s, raw |-> FALSE]]
        /\ Goto(w, "upload_raw")
     \/ /\ "plugin" \in Faults
        /\ Goto(w, "handler")
        /\ UNCHANGED run
  /\ UNCHANGED <<requestVars, brokerVars, cur, step, succeeded, jobVars,
                 resultVars, objectVars, historyVars>>

\* Mutated form: the upload error is recorded, the plugin's status is kept.
StatusKept(r) == [status |-> r.status, raw |-> FALSE]
AfterFailedUpload(r) == [status |-> "failed", raw |-> FALSE]

\* The object key depends on the job and the plugin's name only.  A failed
\* upload turns the plugin's status to failed, whether or not the object was
\* stored before the error.
UploadRaw(w) ==
  LET j == cur[w]
      stored == [rawObject EXCEPT ![j][Plan[j][step[w]]] = step[w]]
  IN
  /\ pc[w] = "upload_raw"
  /\ \/ /\ rawObject' = stored
        /\ run' = [run EXCEPT ![w] = [status |-> run[w].status, raw |-> TRUE]]
     \/ /\ "storage" \in Faults
        /\ rawObject' \in {stored, rawObject}
        /\ run' = [run EXCEPT ![w] = AfterFailedUpload(@)]
  /\ Goto(w, "insert")
  /\ UNCHANGED <<requestVars, brokerVars, cur, step, succeeded, jobVars,
                 resultVars, parsedObject, iocObjects, reportObject,
                 historyVars>>

\* One plugin_results row per pass, then the parser for a completed plugin.
InsertPluginResult(w) ==
  LET j   == cur[w]
      row == [status |-> run[w].status, raw |-> run[w].raw,
              parsed |-> FALSE, count |-> "zero"]
  IN
  /\ pc[w] = "insert"
  /\ \E o \in Outcome :
       /\ pluginRows' = IF Applied(o)
                          THEN [pluginRows EXCEPT ![j] = Append(@, row)]
                          ELSE pluginRows
       /\ IF Raised(o) THEN Proceed(w, "handler")
          ELSE IF run[w].status = "completed" THEN Proceed(w, "parse")
          ELSE NextPlugin(w, FALSE)
       /\ Doubt(j, o)
  /\ UNCHANGED <<requestVars, brokerVars, jobVars, artifacts, findings, iocRows,
                 reportRow, objectVars, claims, abandoned>>

\* Parse, enrich, write and upload the parsed output; any of it may raise,
\* the upload also after the object was stored.
ParseOutput(w) ==
  LET j == cur[w]
      stored == [parsedObject EXCEPT ![j] = @ \cup {Plan[j][step[w]]}]
  IN
  /\ pc[w] = "parse"
  /\ \/ Proceed(w, "store") /\ parsedObject' = stored
     \/ /\ "stage" \in Faults
        /\ Proceed(w, "parse_error")
        /\ parsedObject' \in {stored, parsedObject}
  /\ UNCHANGED <<requestVars, brokerVars, jobVars, resultVars, rawObject,
                 iocObjects, reportObject, historyVars>>

\* The two updates of a plugin_results row after its parse.
ParsedRow(row)   == [status |-> row.status, raw |-> row.raw,
                     parsed |-> TRUE, count |-> "stored"]
UnparsedRow(row) == [status |-> row.status, raw |-> row.raw,
                     parsed |-> row.parsed, count |-> "unknown"]

\* One transaction inserts the artifact rows and points the plugin row at the
\* parsed output and its record count.
StoreArtifacts(w) ==
  LET j == cur[w]  i == Len(pluginRows[j]) IN
  /\ pc[w] = "store"
  /\ \E o \in Outcome :
       /\ IF Applied(o)
            THEN /\ artifacts'  = [artifacts EXCEPT ![j] = @ \cup {i}]
                 /\ pluginRows' = [pluginRows EXCEPT ![j][i] = ParsedRow(@)]
            ELSE UNCHANGED <<artifacts, pluginRows>>
       /\ IF Raised(o) THEN Proceed(w, "parse_error") ELSE NextPlugin(w, TRUE)
       /\ Doubt(j, o)
  /\ UNCHANGED <<requestVars, brokerVars, jobVars, findings, iocRows, reportRow,
                 objectVars, claims, abandoned>>

\* A parser failure stays with its plugin, which still counts as successful;
\* when recording it fails as well, the task's own handler takes over.
RecordParseError(w) ==
  LET j == cur[w]  i == Len(pluginRows[j]) IN
  /\ pc[w] = "parse_error"
  /\ \E o \in Outcome :
       /\ pluginRows' = IF Applied(o)
                          THEN [pluginRows EXCEPT ![j][i] = UnparsedRow(@)]
                          ELSE pluginRows
       /\ IF Raised(o) THEN Proceed(w, "handler") ELSE NextPlugin(w, TRUE)
       /\ Doubt(j, o)
  /\ UNCHANGED <<requestVars, brokerVars, jobVars, artifacts, findings, iocRows,
                 reportRow, objectVars, claims, abandoned>>

\* Rule evaluation, plugin context and process summaries in one transaction.
Detect(w) ==
  LET j == cur[w] IN
  /\ pc[w] = "detect"
  /\ \/ \E o \in Outcome :
          /\ findings' = IF Applied(o)
                           THEN [findings EXCEPT ![j] = @ \cup {"rules"}]
                           ELSE findings
          /\ Proceed(w, IF Raised(o) THEN "detect_error" ELSE "ioc")
          /\ Doubt(j, o)
     \/ /\ "stage" \in Faults
        /\ Proceed(w, "detect_error")
        /\ UNCHANGED <<findings, inDoubt>>
  /\ UNCHANGED <<requestVars, brokerVars, jobVars, pluginRows, artifacts,
                 iocRows, reportRow, objectVars, claims, abandoned>>

\* A detection failure becomes a finding of its own, in a second transaction
\* that the stage does not guard.
RecordDetectionError(w) ==
  LET j == cur[w] IN
  /\ pc[w] = "detect_error"
  /\ \E o \in Outcome :
       /\ findings' = IF Applied(o)
                        THEN [findings EXCEPT ![j] = @ \cup {"stage_error"}]
                        ELSE findings
       /\ Proceed(w, IF Raised(o) THEN "handler" ELSE "ioc")
       /\ Doubt(j, o)
  /\ UNCHANGED <<requestVars, brokerVars, jobVars, pluginRows, artifacts,
                 iocRows, reportRow, objectVars, claims, abandoned>>

\* Mutated form: the report comes before the job's completion.
ReportBeforeCompletion == "report"
AfterIocs == "complete"

\* The IOC transaction is open from here to CommitIocs: rows are inserted, then
\* the JSON and the CSV export are uploaded.  A failed upload is recorded and
\* the transaction goes on; any other failure rolls it back and is logged.
ExportIocs(w) ==
  LET j == cur[w] IN
  /\ pc[w] = "ioc"
  /\ \/ /\ Proceed(w, "ioc_commit")
        /\ \E done \in IF "storage" \in Faults THEN {{}, {"json"}, Export}
                                               ELSE {Export} :
             iocObjects' = [iocObjects EXCEPT ![j] = @ \cup done]
     \/ /\ "stage" \in Faults
        /\ Proceed(w, AfterIocs)
        /\ UNCHANGED iocObjects
  /\ UNCHANGED <<requestVars, brokerVars, jobVars, resultVars, rawObject,
                 parsedObject, reportObject, historyVars>>

\* An IOC failure of any kind does not fail the job.
CommitIocs(w) ==
  LET j == cur[w] IN
  /\ pc[w] = "ioc_commit"
  /\ \E o \in Outcome :
       /\ iocRows' = IF Applied(o) THEN [iocRows EXCEPT ![j] = TRUE] ELSE iocRows
       /\ Doubt(j, o)
  /\ Proceed(w, AfterIocs)
  /\ UNCHANGED <<requestVars, brokerVars, jobVars, pluginRows, artifacts,
                 findings, reportRow, objectVars, claims, abandoned>>

\* UPDATE analysis_jobs by id only: the status it replaces is not looked at.
SetStatus(j, status, error) ==
  /\ jobStatus' = [jobStatus EXCEPT ![j] = status]
  /\ jobError'  = [jobError EXCEPT ![j] = error]

MarkCompleted(w) ==
  LET j == cur[w] IN
  /\ pc[w] = "complete"
  /\ \E o \in Outcome :
       /\ IF Applied(o) THEN SetStatus(j, "completed", "none")
                        ELSE UNCHANGED jobVars
       /\ Proceed(w, IF Raised(o) THEN "handler" ELSE "report")
       /\ Doubt(j, o)
  /\ UNCHANGED <<requestVars, brokerVars, resultVars, objectVars, claims,
                 abandoned>>

\* The report transaction reads everything the job has, renders it and uploads
\* the object, before the metadata row is written.
UploadReport(w) ==
  LET j == cur[w]
      rendered == [status |-> jobStatus[j], rows |-> pluginRows[j],
                   findings |-> findings[j], iocs |-> iocRows[j]]
      stored == [reportObject EXCEPT ![j] = rendered]
  IN
  /\ pc[w] = "report"
  /\ \/ Proceed(w, "report_commit") /\ reportObject' = stored
     \/ /\ Faults \cap {"stage", "storage"} # {}
        /\ EndTask(w)
        /\ reportObject' \in {stored, reportObject}
  /\ UNCHANGED <<requestVars, brokerVars, jobVars, resultVars, rawObject,
                 parsedObject, iocObjects, historyVars>>

\* The report row is inserted, or updated when there is one.  A failure is
\* logged, and the task returns either way.
CommitReport(w) ==
  LET j == cur[w] IN
  /\ pc[w] = "report_commit"
  /\ \E o \in Outcome :
       /\ reportRow' = IF Applied(o) THEN [reportRow EXCEPT ![j] = TRUE]
                                     ELSE reportRow
       /\ Doubt(j, o)
  /\ EndTask(w)
  /\ UNCHANGED <<requestVars, brokerVars, jobVars, pluginRows, artifacts,
                 findings, iocRows, objectVars, claims, abandoned>>

\* No plugin succeeded.
MarkAllFailed(w) ==
  LET j == cur[w] IN
  /\ pc[w] = "mark_failed"
  /\ \E o \in Outcome :
       /\ IF Applied(o) THEN SetStatus(j, "failed", "all_plugins")
                        ELSE UNCHANGED jobVars
       /\ IF Raised(o) THEN Proceed(w, "handler") ELSE EndTask(w)
       /\ Doubt(j, o)
  /\ UNCHANGED <<requestVars, brokerVars, resultVars, objectVars, claims,
                 abandoned>>

\* The handler around the whole task stores the failure; when that transaction
\* raises too, the task ends with the row as it is.
HandleTaskError(w) ==
  LET j == cur[w] IN
  /\ pc[w] = "handler"
  /\ \E o \in Outcome :
       /\ IF Applied(o) THEN SetStatus(j, "failed", "task")
                        ELSE UNCHANGED jobVars
       /\ abandoned' = IF Raised(o) THEN abandoned \cup {j} ELSE abandoned
       /\ Doubt(j, o)
  /\ EndTask(w)
  /\ UNCHANGED <<requestVars, brokerVars, resultVars, objectVars, claims>>

-----------------------------------------------------------------------------
RequestStep(j) ==
  CreateJob(j) \/ Dispatch(j) \/ DispatchError(j) \/ MarkDispatchFailed(j)

Pipeline(w) ==
  \/ Prepare(w) \/ RunPlugin(w) \/ UploadRaw(w) \/ InsertPluginResult(w)
  \/ ParseOutput(w) \/ StoreArtifacts(w) \/ RecordParseError(w)
  \/ Detect(w) \/ RecordDetectionError(w) \/ ExportIocs(w) \/ CommitIocs(w)
  \/ MarkCompleted(w) \/ UploadReport(w) \/ CommitReport(w)
  \/ MarkAllFailed(w) \/ HandleTaskError(w)

WorkerStep(w) == Receive(w) \/ StartTask(w) \/ Claim(w) \/ Pipeline(w)

Next ==
  \/ \E j \in Job : RequestStep(j) \/ RequestDies(j)
  \/ \E w \in Worker : WorkerStep(w) \/ Crash(w)

Spec == Init /\ [][Next]_vars

\* A request thread and a worker process that have a step to take take it.
\* The strong fairness says that a worker is not killed each time it is about to
\* start a task.  Nothing is promised about users submitting jobs, about other
\* faults, or about which of several waiting messages is delivered first.
Fairness ==
  /\ \A j \in Job : WF_vars(request[j] # "new" /\ RequestStep(j))
  /\ \A w \in Worker : WF_vars(WorkerStep(w)) /\ SF_vars(StartTask(w))

FairSpec == Spec /\ Fairness

-----------------------------------------------------------------------------
(***************************************************************************)
(* Properties.                                                             *)
(***************************************************************************)

FindingKind == {"rules", "stage_error"}
Snapshot == [status : Status, rows : Seq(Row), findings : SUBSET FindingKind,
             iocs : BOOLEAN]

BrokerOK == queue \in [Job -> Nat] /\ copies \in [Job -> Nat]

TaskOK ==
  /\ pc        \in [Worker -> TaskStep]
  /\ cur       \in [Worker -> Job]
  /\ step      \in [Worker -> Nat]
  /\ \A w \in Worker : /\ step[w] \in Positions(cur[w])
                       /\ ~Active(w) => step[w] = 1
  /\ run       \in [Worker -> PluginRun]
  /\ succeeded \in [Worker -> BOOLEAN]

JobOK == jobStatus \in [Job -> Status] /\ jobError \in [Job -> ErrorKind]

ResultOK ==
  /\ pluginRows \in [Job -> Seq(Row)]
  /\ artifacts  \in [Job -> SUBSET Nat]
  /\ findings   \in [Job -> SUBSET FindingKind]
  /\ iocRows    \in [Job -> BOOLEAN]
  /\ reportRow  \in [Job -> BOOLEAN]

ObjectOK ==
  /\ rawObject    \in [Job -> [Plugin -> Nat]]
  /\ parsedObject \in [Job -> SUBSET Plugin]
  /\ iocObjects   \in [Job -> SUBSET Export]
  /\ reportObject \in [Job -> Snapshot]

HistoryOK ==
  claims \in [Job -> Nat] /\ abandoned \subseteq Job /\ inDoubt \subseteq Job

\* The tables, objects, messages and task locals have the shapes above, and a
\* task that has not claimed its job stands before the first plugin.
TypeOK ==
  /\ request \in [Job -> Request]
  /\ BrokerOK
  /\ TaskOK
  /\ JobOK
  /\ ResultOK
  /\ ObjectOK
  /\ HistoryOK

\* Whatever messages are duplicated, redelivered or retried, the pipeline of a
\* job starts at most once, and no two workers are ever inside it together:
\* the promise of claim_queued_job's conditional UPDATE.
AnalysedAtMostOnce ==
  \A j \in Job :
    /\ claims[j] <= 1
    /\ \A w1, w2 \in Worker :
         Active(w1) /\ Active(w2) /\ cur[w1] = j /\ cur[w2] = j => w1 = w2

\* What the claim decides, strong enough to be kept by every step: a job nobody
\* claimed is new or queued or was rejected, and the worker inside its pipeline
\* is the only one and found it queued.
ClaimInv ==
  /\ \A j \in Job :
       /\ request[j] = "new" => jobStatus[j] = "none"
       /\ jobStatus[j] \in {"none", "queued"} => claims[j] = 0
       /\ claims[j] <= 1
  /\ \A w \in Worker :
       /\ Active(w) => jobStatus[cur[w]] \notin {"none", "queued"}
       /\ pc[w] \in {"report", "report_commit"} => jobStatus[cur[w]] \in Terminal
  /\ \A w1, w2 \in Worker :
       Active(w1) /\ Active(w2) /\ cur[w1] = cur[w2] => w1 = w2

\* Every plugin of the plan has its row, and one of them at least completed.
Analysed(j) ==
  /\ Len(pluginRows[j]) = Len(Plan[j])
  /\ \E i \in Positions(j) : pluginRows[j][i].status = "completed"

\* A job that reads as completed, or that has findings, IOCs, exports or a
\* report, had every plugin recorded before, one row per plugin and one of them
\* successful, however its stages failed or its claim was contested.
ResultsRestOnPlugins ==
  \A j \in Job :
    \/ jobStatus[j] = "completed"
    \/ findings[j] # {} \/ iocRows[j] \/ iocObjects[j] # {} \/ reportRow[j]
    => Analysed(j)

\* Every plugin recorded as completed has its own raw output in the bucket,
\* even when its parsing or any later stage fails.
RawOutputKept ==
  \A j \in Job : \A i \in 1..Len(pluginRows[j]) :
    pluginRows[j][i].status = "completed"
    => pluginRows[j][i].raw /\ rawObject[j][Plan[j][i]] = i

\* Artifact rows and the plugin row's pointer to the parsed output appear
\* together and only over an uploaded parsed object of a completed plugin; a
\* record count is dropped again only when a commit was left in doubt.
ArtifactsAccounted ==
  \A j \in Job :
    /\ artifacts[j] \subseteq 1..Len(pluginRows[j])
    /\ \A i \in 1..Len(pluginRows[j]) :
         LET row == pluginRows[j][i] IN
         /\ i \in artifacts[j] <=> row.parsed
         /\ row.parsed => /\ row.status = "completed"
                          /\ Plan[j][i] \in parsedObject[j]
                          /\ row.count = "stored" \/ j \in inDoubt
         /\ row.count = "stored" => row.parsed

\* A report that is listed shows what the tables hold: it was rendered after
\* the job's plugin, finding and IOC rows were final, and as a completed job
\* unless a rejected dispatch wrote failed in between.
ReportIsCurrent ==
  \A j \in Job : reportRow[j] =>
    /\ reportObject[j].rows     = pluginRows[j]
    /\ reportObject[j].findings = findings[j]
    /\ reportObject[j].iocs     = iocRows[j]
    /\ \/ reportObject[j].status = "completed"
       \/ reportObject[j].status = "failed" /\ request[j] \in {"rejected", "lost"}

\* The tables of a job and its objects agree at every moment of the pipeline, for every
\* order in which their transactions and uploads fail.
ResultsAccounted ==
  RawOutputKept /\ ArtifactsAccounted /\ ResultsRestOnPlugins /\ ReportIsCurrent

\* Nobody is left who could move the job on.
Stranded(j) ==
  \/ /\ jobStatus[j] = "queued"
     /\ request[j] \notin {"dispatch", "compensate"}
     /\ queue[j] = 0
     /\ ~ \E w \in Worker : pc[w] \in {"received", "claim"} /\ cur[w] = j
  \/ /\ jobStatus[j] = "running"
     /\ ~ \E w \in Worker : Active(w) /\ cur[w] = j

\* A queued or running job is stranded only when a process died, or raised out
\* of its last handler, while it owed the job a step: no interleaving of
\* duplicates, noops and handled failures strands one.
StrandedOnlyByFault ==
  \A j \in Job : Stranded(j) => j \in abandoned

\* A terminal status changes only to the other one, and only when a rejected
\* dispatch overwrites the worker's result, the worker overwrites a rejected
\* dispatch, or the handler overwrites a completion whose commit was in doubt.
TerminalStatusKept ==
  [][\A j \in Job :
       jobStatus[j] \in Terminal /\ jobStatus'[j] # jobStatus[j] =>
         /\ jobStatus'[j] \in Terminal
         /\ \/ request[j] = "compensate" /\ jobError'[j] = "dispatch"
            \/ jobStatus[j] = "failed" /\ jobError[j] = "dispatch"
            \/ j \in inDoubt /\ jobError'[j] = "task"]_vars

\* Every queued job comes to completed or failed unless it is abandoned.
JobSettles ==
  \A j \in Job :
    jobStatus[j] = "queued" ~> jobStatus[j] \in Terminal \/ j \in abandoned

\* The module implements JobLifecycle.  The analysis of a job is to come until
\* a claim takes effect, and under way while a worker owns the job.
AnalysisPhase(j) ==
  IF claims[j] = 0 THEN "to come"
  ELSE IF \E w \in Worker : Active(w) /\ cur[w] = j THEN "under way"
  ELSE "over"

Lifecycle == INSTANCE JobLifecycle WITH
  Size     <- [j \in Job |-> Len(Plan[j])],
  status   <- jobStatus,
  analysis <- [j \in Job |-> AnalysisPhase(j)],
  outcomes <- [j \in Job |-> [i \in 1..Len(pluginRows[j]) |->
                                 pluginRows[j][i].status]]

\* Every step of the API, the broker and the workers is a step clients of the
\* job may see, or none: the job lifecycle of JobLifecycle is kept.
ImplementsLifecycle == Lifecycle!Spec

\* It implements JobResults as well: what the tables show of a job in which order.
\* Plugin rows count once all are there, findings by the stage that wrote them.
ResultPhase(j) ==
  IF \E w \in Worker : pc[w] \in {"report", "report_commit"} /\ cur[w] = j
    THEN "reporting"
  ELSE IF \E w \in Worker : pc[w] = "handler" /\ cur[w] = j THEN "failing"
  ELSE IF AnalysisPhase(j) = "under way" THEN "storing" ELSE AnalysisPhase(j)

StoredKinds(j) ==
  findings[j] \cup (IF iocRows[j] THEN {"iocs"} ELSE {})
              \cup (IF reportRow[j] THEN {"report"} ELSE {})
              \cup (IF Len(pluginRows[j]) = Len(Plan[j]) THEN {"artifacts"} ELSE {})

Results == INSTANCE JobResults WITH
  Result <- FindingKind \cup {"artifacts", "iocs"},
  status <- jobStatus,
  phase  <- [j \in Job |-> ResultPhase(j)],
  stored <- [j \in Job |-> StoredKinds(j)]

\* Readers of the tables see the results of a job in JobResults' order: whatever
\* fails or is repeated, a completed job gains nothing but its report.
ImplementsResults == Results!Spec

=============================================================================
