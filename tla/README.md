# RAMSight in TLA+

RAMSight triages Windows memory dumps: an analyst uploads a dump, starts an
analysis job, a worker runs Volatility plugins over the dump, parses their output,
scores what it finds and writes a report. This directory models the parts of it
whose correctness depends on the order in which processes, transactions, uploads
and messages interleave, from the browser pages to the worker, and the three pure
algorithms that decide what an analyst looks at first: risk scoring, IOC extraction
and what the report shows of both. TLC checks the models; TLAPS proves most of their
safety properties, and both refinements, for every value of the constants.
Paths below are relative to the repository.

## 1. The system

| Component | State it keeps | Operations | Interacts with |
| --- | --- | --- | --- |
| Job request (`backend/app/services/analysis_job_service.py`, `job_dispatcher.py`) | the `analysis_jobs` row | create, commit, push, mark failed on a dispatch error | PostgreSQL, Redis |
| Broker and worker process (`worker/app/celery_app.py`, Celery on Redis) | waiting and unacknowledged messages | deliver, acknowledge at start, redeliver | request, worker |
| Worker pipeline (`worker/app/tasks/analysis.py`) | task locals; `plugin_results`, artifact tables, `risk_findings`, `iocs`, `reports`; raw, parsed, export and report objects | claim, run and record each plugin, parse, detect, extract IOCs, complete, report, fail | PostgreSQL, MinIO, Volatility |
| Multipart upload (`backend/app/services/evidence_multipart_upload_service.py`) | session directory with a JSON manifest, S3 upload, `evidences` row and object | initiate, presign, record part, complete, abort | browser, MinIO, PostgreSQL |
| Chunked upload (`backend/app/services/evidence_upload_session_service.py`) | session directory with manifest and a partial dump | initiate, write chunk, complete, cancel, clean up | client, MinIO, PostgreSQL |
| Direct upload, registration (`evidence_service.py`) | `evidences` row and object | upload, register | client, MinIO, PostgreSQL |
| Upload page (`frontend/src/pages/EvidenceUploadPage.tsx`) | part queue, retries, cancel flag | two part workers, complete, cancel | multipart upload, MinIO |
| Job status page (`frontend/src/pages/AnalysisJobStatusPage.tsx`) | job, fetched results | poll while active, fetch results once terminal | API |
| Risk scoring (`worker/app/detection/scoring.py`) | none (pure) | group findings by process, score, cap, gate | detection |
| Detection rules (`worker/app/detection/engine.py` and others) | none of its own; reads the artifact tables | evaluate rules on artifacts, link rows of one process | pipeline, scoring |
| IOC extraction, deduplication (`worker/app/ioc`) | none (pure) | extract, keep the most confident duplicate | pipeline |
| Review and notes (`risk_finding_service.py`, `analyst_note_service.py`) | review metadata of a finding, notes | read-modify-write | API clients |
| Report (`worker/app/reports/context.py`, `recommendations.py`) | none (pure) | pick, merge and cut the rows of each section, evidence chains, recommendations | pipeline |
| Parsers, queries, downloads, assistant, rule packs | none, or not of interest | | |

What makes it hard:

- **Processes share tables and objects without a protocol between them.** The API
  request and the worker both write `analysis_jobs.status`; only the claim looks at
  the status it replaces.
- **Two stores, no common transaction.** Objects are uploaded before, inside and
  between database transactions, so a failure between them leaves one without the
  other.
- **At-least-once publishing, at-most-once execution.** A push may be repeated by
  the client library; a message is acknowledged when its task starts, so a killed
  worker takes it along.
- **A page outlives its requests.** Promises of an earlier submission, poll or
  effect are answered while the page is already at something else, and share its refs
  and state.
- **Read-modify-write of files.** Upload handlers load a JSON manifest, work, and
  write the whole of it back, from a thread pool or across `await`s.

What makes each part correct:

- job and pipeline: one analysis per job; nothing downstream of the plugins without
  plugin results; raw output kept for every success; artifacts, row pointers and
  parsed objects agree; the listed report shows the final tables; terminal statuses
  stay terminal; a job is stuck only when some process was lost;
- uploads: an evidence row always has its object, of the recorded size and hash; a
  recorded part is never forgotten; the evidence is registered once;
- upload page: cancelling holds; what a failed submission left running disturbs no
  later one and no finished evidence; everything that was started ends;
- status page: the status shown only advances and becomes terminal when the job's
  does, and the lists of a page at rest show what the worker produced and what its analyst
  saved (the number of high findings beside them does so only in part, see section 3);
- scoring and IOC export: gates, repeats that do not count, evidence that never
  counts against other evidence, and independence of the order in which the database
  returns rows;
- report: what a section cuts or merges is accounted for and never hides the row a finding
  is about behind one nobody reported; a chain lists the evidence it claims; advice is
  given for something the report shows;
- review: a finding's review is one analyst's, however many are at it.

`PROJECT.json` lists the hazards, each at its line, with the properties on it or the
reason none is there yet.

## 2. Modules

| Module | Models |
| --- | --- |
| `AnalysisJob` | request, broker and worker pipeline, composed over the shared tables and objects |
| `JobLifecycle` | the abstract life of a job that its clients may rely on |
| `JobResults` | in which order readers of the tables see a job's status and results |
| `MCAnalysisJob` | the small plans TLC uses |
| `AnalysisJobProofs` | types, claims, stranded jobs, tables, buckets and terminal statuses of `AnalysisJob`, and its two refinements |
| `MultipartUpload` | one multipart upload: API threads, manifest file, S3, row, cleanup script |
| `MCMultipartUpload` | thread symmetry for its TLC runs |
| `MultipartUploadProofs` | theorems about `MultipartUpload` |
| `ChunkedUpload` | one chunked upload: coroutines and threads over the session directory, S3, rows |
| `MCChunkedUpload` | thread symmetry for its TLC runs |
| `ChunkedUploadProofs` | theorems about `ChunkedUpload` |
| `ProcessRisk` | what detection makes of the rows of one Windows process: findings and risk summary |
| `ProcessRiskProofs` | theorems about `ProcessRisk` |
| `IocExport` | the IOCs exported from the same rows; extends `ProcessRisk` |
| `IocExportProofs` | theorems about `IocExport` |
| `ReportContext` | the report's sections on the same rows, findings and IOCs; extends `IocExport` |
| `ReportContextProofs` | theorems about `ReportContext` |
| `MCReportContext` | kinds of rows, YARA rules and limits for the TLC run of all three |
| `UploadPage` | submissions of the upload page: part workers, retries, cancel, over the backend's session |
| `MCUploadPage` | workers and part counts for its TLC runs |
| `UploadPageProofs` | theorems about `UploadPage` |
| `FindingReview` | saves of one finding's review by several panels |
| `JobPage` | the status page, composed with `JobResults` as its backend and `FindingReview` |
| `MCJobPage` | review forms for its TLC runs |
| `JobPageProofs` | theorems about `JobPage` and the `FindingReview` in it |

### AnalysisJob

The unit of interleaving is what other processes can observe: one database
transaction, one object upload, or one broker call per action. Between two actions
any other process may run and this one may die.

| State | In the code |
| --- | --- |
| `request` | the position in `create_analysis_job` of the job's POST request |
| `queue`, `copies` | messages with the job's id in the Redis list; all ever pushed |
| `pc`, `cur`, `step`, `run`, `succeeded` | position and locals of a worker's `run_analysis_job` (`selected_plugins` index, `run_result` with `raw_output`, `successful_plugins > 0`) |
| `jobStatus`, `jobError` | `analysis_jobs.status`, and where `error_message` comes from |
| `pluginRows` | `plugin_results` of the job in insertion order: status, whether the raw and the parsed keys are set, and `parsed_record_count` as zero, stored or NULL |
| `artifacts`, `findings`, `iocRows`, `reportRow` | the artifact tables, `risk_findings`, `iocs`, `reports` |
| `rawObject`, `parsedObject`, `iocObjects`, `reportObject` | objects under the job's deterministic keys; a raw object remembers which run wrote it, the report what it was rendered from |
| `claims`, `abandoned`, `inDoubt` | history variables for the properties, read by no action |

`with engine.begin()` has three outcomes (`Outcome`): it commits, it raises and
rolled back, or it raises although it had committed because the answer to COMMIT was
lost. An upload that raises may have stored its object or not. `Faults` selects the
kinds of failure of an instance, so that a run can isolate one:

| Fault | Where |
| --- | --- |
| `publish` | `send_task` pushes twice, or raises before or after the push |
| `ack` | the acknowledgement of a started task is lost and the message comes again |
| `rollback`, `in_doubt` | any transaction |
| `storage` | any upload |
| `plugin` | a plugin fails, is skipped, or its runner raises |
| `stage` | preparation, parser, detection, IOC stage or rendering raises |
| `crash` | a worker process is killed anywhere |
| `backend` | the API process dies, or `refresh` raises, inside the request |

What the plugins output, which rules fire and how a report looks do not matter to
these properties and are left out; that a stage runs, what it reads, what it writes
and how it fails is kept.

### JobLifecycle

Status, whether the one analysis is to come, under way or over, and the plugin
outcomes so far. `AnalysisJob` maps to it by reading `analysis` off `claims` and the
workers' positions. It says what the status column means: completed comes only from
the analysis and over a full list of outcomes with a success in it, outcomes are
appended only while the analysis is under way, and a rejected dispatch may write
failed at any time without stopping the analysis (which is what the code does; see
the known limits in section 3).

### JobResults

The same job for a reader of its results: status, how far the worker is, and which
kinds of rows the tables hold. It promises that results appear only after running was
written, that completed is written over everything but the report, and that after a
terminal status only the report is added, unless a rejected dispatch wrote failed
over a running job. `AnalysisJob` implements it (`ImplementsResults`, where artifacts
count as stored once every plugin has its row), and `JobPage` runs against it in place
of the worker. What the page shows is thereby shown against everything the pipeline
may do.

### MultipartUpload

The endpoints are synchronous functions, so FastAPI serves them from a thread pool,
and nothing locks a session. The unit of interleaving is a system call on the
manifest, an S3 call or a transaction. Sessions share nothing (directory, S3 upload,
object key and evidence id are the session's own), so one session is modelled.

| State | In the code |
| --- | --- |
| `pc`, `part`, `parts`, `handle` | a request's position, the part it records, the `completed_parts` it loaded, and which file `write_text` has open |
| `dir`, `manifest`, `temp` | the session directory, `manifest.json`, `.manifest.json.tmp` |
| `started`, `expired`, `urls` | the session was initiated, `expires_at` passed, parts with a presigned URL |
| `upload`, `uploaded`, `object` | S3's multipart upload, its parts (an ETag identifies the content), and the object |
| `row` | the `evidences` row |
| `answered`, `cancelled`, `lateError`, `orphaned` | history variables, read by no action |

A handler is cut where another thread can see or change what it uses:

| Code | Actions |
| --- | --- |
| `initiate_multipart_upload` | `CreateUpload`, `WriteFirstManifest`, `DiscardUpload` |
| `presign_upload_part`; the browser's PUT | `Presign`; `PutPart` |
| `record_completed_part` with `_load_manifest` and `_write_manifest` | `RecordLoad`, `RecordOpen`, `RecordWrite`, `RecordReplace` |
| `complete_multipart_upload` | `CompleteLoad`, `CompleteUpload`, `HashObject`, `CommitEvidence`, `RefreshEvidence`, `DeleteObject`, then `Unlink`, `RemoveDir` |
| `abort_multipart_upload` | `AbortLoad`, `AbortUpload`, then `Unlink`, `RemoveDir` |
| `cleanup_expired_upload_sessions` | `Cleanup`, then `Unlink`, `RemoveDir` |

Files behave as POSIX has it, because the code depends on it: opening truncates, a
rename moves the file under writers that have it open, and a shorter text over a
longer one is not JSON. A content is `whole` (the expected size) or `short`; S3 does
not know which size a session expects. A request that is refused changes nothing and
is left out. `Faults` selects storage calls that fail before or after their effect,
a full disk, a rolled-back or in-doubt commit, a failing `refresh`, short parts,
expiry, and the death of the API process.

### ChunkedUpload

`upload_evidence_chunk` is a coroutine: on the one event loop of the API process
(`uvicorn` is started with one worker) it gives way at the awaits of the request body
only. `complete`, `cancel` and the cleanup script are not coroutines and interleave
with every system call. `LoopFree` is this difference.

| State | In the code |
| --- | --- |
| `pc`, `chunk`, `loaded`, `sent`, `handle`, `attempt` | a request's position, its chunk, the `received_chunks` it loaded before the first await, how much of the body it read, whether its open file still has its name, the evidence id of its completion |
| `dir`, `manifest`, `raw`, `temp` | the session directory, `manifest.json`, `evidence.tmp`, the `.chunk-<i>.upload` files |
| `expired`, `cancelled` | `expires_at` passed; the client asked to cancel |
| `attempts`, `hash`, `object`, `row` | evidence ids given out by completions; what was hashed, stored and committed under each |

A chunk's body comes in two pieces and a file is the set of pieces that hold data,
so that a truncated or overlapped temporary file (a hole in the middle, or a missing
end) is told from a whole one; `Merged` is what copying such a file over the dump
leaves there. Saving the manifest is one step here: its writers share the event loop,
and what its temporary file adds is the subject of `MultipartUpload`.

`Habits` says what the client does beyond sending one request after the other:
chunks in parallel, a chunk again while its first request is being served, or
chunks and completions without waiting for a completion or after a cancel. Cancel is
always possible.

### ProcessRisk

The algorithm is pure, so the state machine is what feeds it: plugins store rows
(`StoreRow`, a row of `insert_artifact_batch`), and detection runs once over what is
there (`RunDetection`, `run_detection_for_job`).

| State | In the code |
| --- | --- |
| `benign` | `known_benign_process_context` knows the process |
| `artifacts` | the process's rows of each artifact table, in the order a SELECT returns them |
| `summary` | its `PROCESS_RISK_SUMMARY` finding: severity, score, evidence groups, confidence |

`Findings` evaluates the shipped rules. The code builds a list; here findings form a
set, and `place` (the rank of the rule, then the rows it comes from) is a finding's
position in the list and `key` what `unique_components` compares. A YARA match
passes through `yara_risk_from_metadata` (`YaraSeverity`) test by test. `ProcessSummary`
is `build_process_risk_summaries`: duplicates are dropped, the first `MaxComponents`
stay, each evidence group counts with its best score, evidence of one kind is capped,
and the gates follow: `CriticalAllowed`, `ContextOnly`, `Confidence`.

Texts are reduced to what the rules tell apart: a command is encoded, holds a keyword
of one list or the other, or is plain; a path is in a writable folder, in one of
Microsoft's, or elsewhere; a YARA rule is its metadata's flags. The command
correlation and the keyword rule have different lists of keywords, and a keyword
finding is in a group of its own, which none of the gates mention; both are kept. So
is that the critical gate asks for a trusted match and for a malware-specific match
without asking that they be the same one.

Left out: Linux dumps, findings of the job rather than of a process (`IocExport` and
`ReportContext` have those), exceptions inside a rule, and how a row is resolved to
a process: all rows here resolve to the one modelled.

### IocExport

`extract_iocs_for_job` reads the rows and the findings that detection made of them.
`Reported` are the findings as rows of `risk_findings` (some rules report rows they cannot
tell apart once), `On` is `linked_findings`, and one operator per extractor makes the
drafts of a table: `NetworkIocs` (a connection without a port has its address exported and no
endpoint, `NetworkDrafts`), `CommandIocs`, `ModuleIocs`, `ProcessIocs`, `YaraIocs`,
`RegionIocs`, `PluginReferences`. `Deduplicated` keeps the most confident draft of each key.

The extractor has lists of its own for what is suspicious, and the model keeps how they
differ from the rules': curl and wget (`ListedCommand`), modules in Downloads
(`ListedModule`) and images in a user's folder (`ListedPath`) are exported without any
finding, a malfind region counts as high without one, and what names malware
(`MalwareRule`) is not what detection takes for malware-specific. A value's text and
validity, and hashes and domains found inside texts, are abstracted: a row has the
values its kind stands for.

The export also refers to the plugins behind the findings of the job as a whole: rules
that ask for correlation and find none (`JobSummaries`), and the plugins of the region and
module categories that stored a row (`ContextPlugins`, `plugin_context_findings`).

Two consequences worth knowing follow from the code as it is: an unlinked suspicious
command is exported with 85 where the same command linked to a keyword finding gets 65,
and a non-executable malfind region without a finding gets 85 where a known benign
process's executable one gets 65; so a repeated region row of such a process may raise
its IOC.

### ReportContext

`build_report_context` is called once, after extraction, with everything the tables hold.
The module computes it on the rows, findings and IOCs of the two modules before it:

| Definition | In the code |
| --- | --- |
| `RiskFindings` | the `risk_findings` rows of `load_report_data`: those of the process, of the job, its summary, and `Others` |
| `TopFindings`, `Omitted` | `build_display_top_findings`: summaries only, where there are any |
| `ProcessGroups` | `build_process_finding_groups`: summaries, or groups made up from the findings |
| `NetworkLines`, `ModuleLines` | `build_network_display`, `build_module_display`: score or priority, merged rows, order |
| `YaraLines`, `IocLines` | `build_yara_summary` by rule and plugin, `build_ioc_summary` by type |
| `Chains` | `build_memory_evidence_chains` with `_chain_interpretation` |
| `Recommendations` | `generate_recommendations`, but for the two that every report has |

A line or chain is a record of the rows it stands for, not of their wording. `Limit` holds
the list lengths (`TOP_FINDINGS_LIMIT`, `TOP_PROCESS_LIMIT`, `SECTION_ROW_LIMIT`,
`NETWORK_DISPLAY_LIMIT`, `MODULE_DISPLAY_LIMIT`, the representative limits, three regions to a
chain, 100 IOCs). `Others` are summaries of other processes, which compete for the same lists;
each property is stated with and without them, since one summary anywhere makes the report
leave out every finding that is not a summary. The table of a chain's process holds the rows
of that process only, because `_index_by_pid` gives it no others.

- `ChainsShowEvidence`: a chain that claims memory, or a connection, lists a region or endpoint
  that finding rests on, unless the first rows of the table already fill its list; one that
  claims a connection refers to the indicators of addresses, and to those of endpoints if a
  public connection of its process has a port (`PublicPort`; one without is exported by its
  address alone, and the finding about it needs no port); it claims
  independent signals only over two tables; and a YARA rule exported as a threat because of
  the regions next to it is in a chain with regions that names it.
- `AdviceBacked`: the report advises to isolate a host only with a high or critical finding
  on top, and to hunt connections only with a public endpoint in its table. `Understated` says
  which findings the first leaves out of account.
- `SectionsKeepEvidence`: the counts of the lines and what is reported as omitted add up to all
  rows, findings and IOCs, and no cut keeps a row nobody reported over one that a finding is
  about.

One flag of a connection, `public`, stands for two tests of its address: the one of detection
and extraction (`is_public_remote_address`, `is_public_ip`) and the report's own
(`_is_public_ip`, which asks for `is_global`). They differ for 100.64.0.0/10 and for multicast
addresses, which only one of the two takes for public; rows with such addresses are outside
the model. The report's test decides only which connections its table shows first; the advice
to hunt them follows the indicators of the export.

Plugin status and coverage tables, the YARA status message, texts and the template are left
out.

### UploadPage

JavaScript runs one task at a time: what happens between two awaits is one step, and a
rejected promise is handled (`HandleAbort`, `LeaveUpload`) before the page handles another
event (`Quiet`). Interleaved are the answers of the backend and of the object store, the
user, and the asynchronous calls of one page: `handleSubmit` of a second submission may
run while part workers of the first still wait.

| State | In the code |
| --- | --- |
| `mounted`, `submitting` | the page is shown; the state that disables Submit and shows Cancel |
| `cancelRequested`, `activeUpload`, `activeXhrs` | the three refs of these names, shared by all submissions |
| `at`, `nextPart`, `worker` | per submission: where `handleSubmit` waits, `nextPartNumber`, and each part worker's part, attempt and await |
| `deletes` | the DELETE of a session, sent by `handleCancelUpload` |
| `session` | the backend's session: open, aborted, completed |
| `clean`, `cancelled` | history variables for the properties, read by no action |

| Code | Actions |
| --- | --- |
| `handleSubmit` | `Submit`, `Initiated`, `InitiateFails`, `LeaveUpload`, `Completed`, `CompleteFails` |
| `worker`, `uploadPartWithRetry` | `Presigned`, `PartStored`, `PartRecorded`, `RequestFails`, `HandleAbort` |
| `handleCancelUpload` | `Cancel`, `Deleted` |
| the session's endpoints | `ServeComplete`, `ServeDelete`, and the guards on `session` |

Each endpoint is one step here, because its interleavings are the subject of
`MultipartUpload`; what these may do to a completion (crossing records, another size) is
the answer `refused`. The displayed progress and messages are left out: no request
depends on them.

### FindingReview and JobPage

`update_review` loads the finding, sets its columns and writes back those that differ
from what it loaded, and a note in the same transaction. `FindingReview` cuts it into
`Load`, `Commit` and `Refresh`, so that the saves of two panels cross. `row` counts its
updates; `crossed` and `sent` are history.

`JobPage` is the page's effects over the backend:

| State | In the code |
| --- | --- |
| `status`, `phase`, `stored` | the job, by `JobResults` |
| `row`, `notes`, `save`, `saves`, `sent`, `crossed` | the reviewed finding, by `FindingReview` |
| `load`, `job` | the request for the job, and the `job` state's status |
| `polls` | the statuses read for polls whose answers are under way |
| `request`, `shown`, `failed` | per effect and section its latest request; what each section shows; which show an error |
| `highPriorityTotal` | the state of this name, for one finding, which is a high one |
| `filter`, `savedUnder` | `reviewStatusParam`, and its value in the closure of the rendering that sent a save |
| `overtaken`, `ownSaved`, `unsettled`, `fresh` | history variables, read by no action |

| Code | Actions |
| --- | --- |
| the effect on `jobId` | `Open`, `ReadJob`, `JobLoaded`, `LoadFails` |
| the polling effect | `Poll`, `PollAnswered`, `PollFails` |
| the effects for results, on the filter and on the status | `Read`, `SectionArrives`, `FinalArrives`, `SetFilter` |
| the artifact effect | `ArtifactsArrive` |
| the review panel, `handleFindingUpdated` | `SavePressed`, `SaveAnswered`, `ReviewServed`, `ColleagueReviews` |
| the worker | `WorkerStep`, a step of `JobResults` |

An effect that runs again has `active = false` set for its earlier requests, which is
`Start` forgetting them; a `setState` and the clean-up of the effects that depend on it are
one step, although React renders in between. The first effect waits with the list of findings
for two more requests, the numbers of high and of critical findings, which are one request
here (`With`): both count the same rows by severity, and one that fails takes the list with it
(`SectionFails`). The final effect asks for the list only (`FinalArrives`). `HighPriority` is
what the page shows of it. The totals beside the lists are left out: `findingTotal` and
`iocTotal` are set with their lists, and by nothing else. The process filter, the artifact
browser, downloads and the warning a failed poll shows are left out as well.

## 3. Runs

| Run | Instance | Shows |
| --- | --- | --- |
| `job_faults` | 1 job, 2 workers, 2 plugins, 2 messages, all faults | type, `AnalysedAtMostOnce`, `ResultsAccounted`, `StrandedOnlyByFault`, `TerminalStatusKept` under any fault at any step; `AnalysisJob` implements `JobResults` |
| `job_lifecycle` | 2 jobs, 1 worker, 1 plugin, faults ack, rollback, crash, fairness | `AnalysisJob` implements `JobLifecycle`; `JobSettles` |
| `multipart_races` | 2 parts, 3 threads, 2 recorders, faults storage, in_doubt, refresh, expiry, crash | type, `EvidenceIntact`, `AbortIsFinal`, `NoSilentOrphan` under racing requests |
| `multipart_serial` | 2 parts, 2 threads, 1 recorder, all faults, fairness | `AnsweredPartsKept`, `ObjectSettles` |
| `multipart_parallel` | 2 parts, 2 threads, no fault | violation: see below |
| `chunked_orderly` | 2 chunks, 3 threads, 2 completions, orderly client, all faults | type, `EvidenceWhole`, `AnsweredChunksThere`, `RegisteredOnce` |
| `chunked_retry` | 1 chunk, 2 threads, overlapping retry, no fault | violation: see below |
| `triage` | up to 4 rows of one process, 5 YARA rules, limit of 6 components | of the summary: type, `CriticalIsCorroborated`, `BenignMemoryStaysContext`, `RowOrderIrrelevant`, `RepeatsDoNotInflate`, `MoreEvidenceNeverLowers`; of the export: `FindingsExported`, `ExportOrderIrrelevant`, `IndicatorsStay`; of the report: `ChainsShowEvidence`, `AdviceBacked`, `SectionsKeepEvidence` |
| `upload_page` | 2 submissions, of 3 parts and of 1, 2 part workers, 2 retries, 1 failing request, fairness | type, `CancelHolds`, `CompletedIsQuiet`, `UploadSettles` |
| `upload_cancel` | the same page, no fault | violation: see below |
| `job_page` | 1 job, findings and artifacts, 2 polls under way, 2 saves, 1 filter change or lost request, fairness | type, `ResultsShownAtRest`, `OwnSaveShown`, `ReviewIsWhole`, `ShownStatusAdvances`, `StatusShown` |
| `page_report` | the same page with the report, nothing lost | violation: see below |

**Bounds.** `MaxCopies` bounds the messages ever pushed for a job; two are needed for
a duplicate and a third meets the same claim. Jobs share nothing but the workers, so
one job is enough for the properties of its rows and two where workers and messages
are contended for. Two workers can be inside one job's task at once. Two plugins
give a first and a last pass of the loop, and every mix of success, failure and skip.
Faults recur as often as a behaviour likes; nothing bounds their number.

For the uploads, `MaxRecorders` bounds the requests that record a part at once. Two
make the races on the manifest and its temporary file; the third thread is there to
complete, abort or clean up between their steps. Two parts are what one record can
lose of another; the properties of object and row do not depend on how many there are
(and are proved for any number). With one recorder the manifest is never torn, which
is what `multipart_serial` shows against everything else that touches the directory.

For the chunked upload, two chunks let a record be lost, and the last one decides the
file's size; two completions (`MaxAttempts`) are what registering twice takes; three
threads are a chunk or a completion, a cancel, and an expiry at once.

For the risk summary, four rows are one of each of the kinds of evidence the gates
combine (memory, YARA, network or command) and one more to repeat, reorder or add.
`max_findings_per_process` is 20 as shipped; 6 is exceeded with four rows, so that the
cut is exercised. `RowOrderIrrelevant` and `MoreEvidenceNeverLowers` exempt processes
that exceed the limit, where the cut drops what comes last. `MoreEvidenceNeverLowers`
also exempts a `pslist` row, which clears a process of being hidden, and, for the severity
only, known benign processes and Microsoft's own modules, whose context findings can turn
a high summary into a medium one. `IndicatorsStay` exempts the `pslist` row for the same
reason. `ExportOrderIrrelevant` exempts a wrong path, and a suspicious region, that two
plugins list (`Ambiguous`): `evaluate_system_process_wrong_path` reports a name, a PID and a
path once without looking at the plugin, so that the finding, and the confidence of the
plugin's indicators, goes to the row that the database returns first. These exemptions are
what the code does, not limits of the run.

The report's lists hold one line, two rows of the YARA table or two regions of a chain in
this instance, so that four rows are cut in every section, as 21 connections or 51 matches
are cut by the shipped limits. The connections are a public one with a port, a public one
without, and a listening wildcard. One summary of another process, milder than some and worse
than other summaries of this one, is enough to take the first place or to lose it. The 100
IOCs of the recommendations are not reached by four rows. `AdviceBacked` exempts processes
whose summary takes high findings for context or for YARA matches alone, findings of a
process without a summary next to one that has one, and high findings that
`max_findings_per_process` keeps out of their summary (`CutOff`): the advice then rests on
findings the report does not show. The last takes more rows than the run has, for instance
twenty public endpoints and an image under a wrong path, whose rule runs after theirs; the proof
showed that it is needed. The other exemptions are used in the run.

For the upload page, two submissions (`MaxSubmissions`) are what it takes to share the
refs with a straggler of an earlier one; three parts for two workers leave one at work,
with a part to come, when the other fails, and the second submission has one part, which
is enough to be disturbed.
`MaxFaults` bounds the failures of requests that could have succeeded; a request to a
session that is gone fails without counting. A session has one DELETE under way at a
time.

For the status page, two polls (`MaxPolls`) answered in either order, one analyst's save
crossing a colleague's (`MaxSaves`), and one change of the filter or one lost request
(`MaxEvents`) are the crossings the effects have to survive. `ReviewTime` lets analysts
review when everything is stored and the number of high findings is read, since a review
changes neither that number nor a column of the pipeline, and `WorkerStep` ends with the
first review: what could still change is the status of a rejected dispatch, which a page that
shows completed no longer asks for. One section of results (`Listed`) stands for those with
a request of their own: they are requested and shown alike, and the artifacts, which are
not, are there beside it.
`OwnSaveShown` and `ResultsShownAtRest` say nothing where a list request or a change of the
filter crossed a save (`unsettled`), or the first request for a section came back after
the final one (`overtaken`): the page then shows the older answer, which is what the
code does.

**Deadlock** is not checked: a run stops when no job is left to submit and all
tasks have returned, when no client has to send another request, when detection has
run, or when a page is at rest.

**Fairness** (`Fairness`): weak fairness of a submitted request's thread and of each
worker process, which run until they block; strong fairness of starting a received
message, that is, a worker is not killed every single time between taking a message
and starting it. A job whose process died or gave up is excused by `abandoned`,
which is the code's real limit: nothing ever revisits a queued job that was not sent
or a running one whose worker is gone.

For the uploads (`FairSpec`), weak fairness of each thread's next step: a request that
is being served goes on. Clients owe nothing, and no request has to come.

For the upload page, weak fairness of the answers: while requests are under way, some
request is answered or broken off and its promise handled (the browser and the proxy
have timeouts). The user owes nothing. For the status page, the interval goes on firing
while it is mounted (weak fairness of `Poll`), and polls that are sent again and again
are answered again and again (strong fairness of `PollAnswered`, since one poll may
always be lost).

**Disagreements found.**

- `multipart_parallel`: two records at a time both load the manifest and the second
  to write drops the first one's part, although both were answered with 200. The
  upload page keeps two part uploads in flight, and then completion is refused with
  "multipart upload is missing parts", where the test of completion, which records
  its parts one after the other, expects 201.
- `chunked_retry`: a chunk's temporary file is shared by all requests for the chunk.
  The later request truncates the data of the earlier, which still counts all bytes
  as received, merges a file with a hole or without its end, and records the chunk.
  The size check of the completion need not notice, and the stored hashes are those
  of the damaged dump. The test of retries expects a retried chunk to be accepted.
- `upload_cancel`: Cancel asks the backend to remove the session only if the page has its
  id. Before the initiation is answered it has none, and after an earlier cancellation's
  answer has cleared `activeUploadIdRef` it has none either; the session then stays until
  it expires, where `docs/validation/large-evidence-browser-upload.md` says RAMSight asks
  the backend to remove it.
- `page_report`: polling ends when the job reads completed, and the results are asked for
  once more then; the worker commits the report after that. A page that was quicker shows
  no report link until it is loaded again, where `README.md` lists report links among
  what the dashboard displays.

**Known limits of the code**, which the models contain and the properties exempt or
bound, without a run of their own:

- The request that gets an error from `send_task` marks the job failed and answers 503.
  If the push had reached Redis all the same, a worker claims the job, or has claimed
  it, and completes it afterwards without looking at the status. `JobLifecycle` and
  `JobResults` allow it (`Reject`), and `TerminalStatusKept` bounds it.
- A plugin named twice in `requested_plugins` is run twice (`select_plugins` keeps repeated
  names), and the second upload replaces the object the first `plugin_results` row refers
  to. `RawOutputKept`, a part of `ResultsAccounted`, holds for plans that name a plugin once, as the shipped profiles do.
- `db.refresh` sits between the commit of a completed multipart upload and the end of the
  `try` block, so an exception in it deletes the object of a row that is committed.
  `EvidenceIntact` excuses that case alone (`lateError`).
- `evaluate_yara_process_memory` counts any region row as correlation, the rows of
  `windows.vadinfo`, which lists every VAD of every process, included: a broad YARA rule's
  match keeps its high severity as soon as that plugin is in the profile, where
  `docs/YARA_RULES.md` wants broad rules low or medium unless correlated with stronger
  evidence. `HasRegions` is that reading.
- As soon as one process of a job has a risk summary, `build_display_top_findings` leaves out
  every other finding, a critical one of a process without a summary included, and the
  template says under the table that "similar or lower-priority findings were omitted"
  (`reports/templates/technical_report.html.j2`). `AdviceBacked` exempts it
  (`Understated`), `Omitted` counts it.
- The number under "High priority" is asked for by the effect that runs when the page opens
  or its filter changes (`AnalysisJobStatusPage.tsx`, line 625), not by the one that fetches
  the results of a job that has ended. A page opened while the job was active shows the number
  it counted then, usually 0, beside a list of findings with high ones in it, until it is
  loaded again. `ResultsShownAtRest` claims the number only where the findings were stored when
  the first effect last ran (`fresh`).
- A YARA or plugin IOC carries no PID, so the IOC references of a chain lack the rules that
  the chain itself names; and the YARA summary counts the first 50 matches of the table
  only, however many there are (`ChainReferences`, `YaraLines`).

Each property of a passing run has a mutant in `PROJECT.json`: a plausible bug in one
definition (written next to it as "Mutated form") under which TLC finds the property
violated.

## 4. Proofs

Every theorem holds for all values of the constants that satisfy the named assumptions,
unless it says otherwise. `PROJECT.json` lists them with the property each one states.

### AnalysisJob

For any sets of jobs, workers and plugins, every plan of non-empty length, every message
bound and every subset of faults. `AnalysisJobProofs`:

- `TypeCorrect`: the invariant carries the fact that a task's position is inside its job's
  plan and is the first before the claim; this is needed for the reads of
  `Plan[j][step[w]]`.
- `AnalysedOnce`: not inductive alone. `ClaimInv` adds that a job which is new or queued
  has no claim, that the job of a worker past its claim is neither, and that nothing takes
  a job back to queued. The one dangerous step is the claim itself: it needs a queued job,
  hence no claim and no active worker yet.
- `OnlyFaultsStrand`: inductive with the type invariant: whoever holds the last message,
  request or task of a job hands it on, makes the job terminal, or enters it in `abandoned`.
- `TablesAccounted`: every part of `ResultsAccounted` but which run wrote a raw object. The
  invariant `AccountInv` adds what a task has done of the step it is in (`Progress`): how
  many rows the plan so far has left, that the row it parses for is its own and has no
  artifacts yet, that the parsed object is there before the artifacts, that everything after the plugins
  rests on a full list of rows, and what the report it is about to list was rendered from.
  Only one task is past the claim of a job (`ClaimInv`), so nobody else moves these tables.
- `ResultsKept`: all of `ResultsAccounted`, for `DistinctPlans`, no plugin named twice in a
  plan, since an object's key has the plugin's name in it. `RawInv` carries the object from its
  upload to its row. The shipped profiles satisfy the hypothesis; for a plan that repeats a
  plugin the property is false, as section 3 says.
- `TerminalKept`: `StatusInv` says how a job can read as terminal while a task is still
  at it: failed by a rejected dispatch, or completed by the task's own commit that was left in doubt.
- `LifecycleImplemented`, `ResultsImplemented`: both refinements, initial states and steps.
  A step of one worker maps to one abstract step of its job or to a stutter; the mapping
  reads `analysis` and the reader's position off `pc` and `claims`, so most of the work is that no
  other process's position says something else of the same job, which is
  `ClaimInv`.

### MultipartUpload

For any finite non-empty set of parts, any threads, any `MaxRecorders` and any faults:

- `UploadTypeCorrect`: includes that a thread has a file open exactly while it writes and
  that existing files are in an existing directory. The two lemmas on `Finish` and `End`
  carry most of it.
- `EvidenceStaysIntact`, `OrphansComeFromFaults`, `ConfirmedAbortWins`. None is
  inductive alone. `SessionInv` says that a session nobody was told of is worked on
  by its own handler only, so the abort in `DiscardUpload` cannot meet a completed
  upload. `CompletionInv` says that S3's decision, completed or aborted, is taken
  once, that at most one thread is past a completed upload, and what that thread may
  still assume about row and object at each of its steps. The step lemma has three
  parts: steps that touch none of this (`ElsewhereOK`), steps on an upload that is
  not completed (`UncompletedOK`), and those of the completing thread
  (`CompleterOK`).
- `AnsweredPartsStay`, for `MaxRecorders = 1`: by `RecordInv` the one handler that records
  has loaded every part answered so far, the temporary file is its own, and it is unlinked
  under it only together with the manifest. With two recorders it is false
  (`multipart_parallel`).

### ChunkedUpload

For any number of chunks, threads and completions, and any faults:

- `ChunkTypeCorrect`, for any client.
- `RegisteredDumpsAreWhole`, for a client whose habits are at
  most `parallel`. The invariant `WholeInv` follows a byte from the request body to the
  row: a request's temporary file holds what the request has read (`ReceiverInv`), what
  a live session's manifest lists is in the dump (`ManifestInv`), no chunk is received
  during a completion or, in a live session, during a removal (`PhaseInv`), and so a
  completion sees the whole dump or none at each of its steps (`DumpInv`). `ManifestInv`
  is limited to sessions that are neither cancelled nor expired, because a chunk in flight
  can write a manifest into a directory that is being removed; the checks on expiry at
  the start of a completion are what keeps that manifest from becoming evidence.
  For a client that resends, the theorem is false at the first step of the argument, as
  `chunked_retry` shows.
- `AnsweredChunksKept`, for a client with no habits, that is, one that sends one request
  after the other: with no second chunk under way, a live manifest and what a request has
  loaded of it list every answered chunk (`AnsweredInv`); `WholeInv` has their data in the dump.
- `DumpsRegisteredOnce`, for a client that is not `hasty`, that is, sends nothing during a
  completion or after a cancel: a completion has the session to itself, but for those that
  remove it (`AloneInv`), and where a dump was registered the completion is about to remove
  the files or the manifest is gone for good (`Settled`), unless an exception or a crash came
  between.

### ProcessRisk

For any rows, any YARA rules with any metadata, any component limit and any number of
rows, every property of the module:

- `RiskTypeCorrect`: includes that a row is in the table it belongs to.
- `CriticalGate`: the argument goes backwards. A
  critical summary passed `CriticalAllowed`, so certain groups or flags are among the
  selected findings; `FindingOrigin` says for each finding which rows it comes from
  (`FromMatch`, `FromRows`); `CriticalRows` puts these together to `Grave`, which speaks of
  rows only. Nothing needs to be known of the score.
- `BroadMatchesStayMedium`: an uncorrelated match of a rule that is not malware-specific
  is low or medium, whatever else the metadata says. So the known limit on broad rules comes
  from what the code counts as correlation.
- `BenignStaysContext`: the evidence there is leaves only groups and flags for which the
  summary is context, so a high score is taken down again; nothing needs to be known of it.
- `RepeatsStayQuiet`: a repeated row's findings have the keys of earlier ones and drop out,
  so the components are the same in the same places, also where the limit cuts.
- `RowOrderDoesNotShow`: the components are the same but for their places (`SameRows`), and
  the summary reads no place as long as the limit does not cut.
- `EvidenceAccumulates`: each component is outdone by one under its key after one more row
  (`MatchDominates`, `ComponentsOutdone`); so each group's best score grows, their sum does,
  and the cap and the gates, which read the same components, do not take it back
  (`CapGrows`, `ScoreGrows`, `SeverityGrows`). The sum over groups is a fold over a finite
  set. That it takes one summand after the other and grows with each is proved by taking a smallest
  set on which it fails (`SmallestSet`), since the induction theorems of the
  library take an operator as a parameter.

### IocExport

For any rows, rules and metadata, `IocExportProofs`:

- `NothingFoundIsLost`: `RowExported` finds a draft of the row for each of the rules that
  may be about it, although the extractor decides with lists of its own; `KeyKept` says that
  deduplication keeps a draft of every key, since being preferred is a total
  preorder on a set of drafts (`Preference`).
- `EvidenceStaysExported`: one more row only prolongs the tables (`Prolonged`), and what was
  reported of them still is, with at least its score (`ReportedProlonged`). A row that the
  extractor rates high by itself, a listed command or a malfind region, would get a lower
  rating with its first finding, but gets none that it did not have before
  (`CommandStaysFound`, `MalfindStaysFound`). So each extractor confirms its drafts by drafts
  of the same key (`DraftsProlonged`), and `KeyKept` does the rest.
- `RowOrderKeepsExport`: another order of the rows is a bijection of the places of each table
  (`Rearranged`), and what was reported is reported again, if only about another row
  (`ReportedEchoed`). So every extractor confirms its drafts in the other order
  (`DraftsShuffled`): rows without a finding have a counterpart without one
  (`UnfoundMoved`), and a region or a path reported once is so for the same plugin, unless
  the rows are `Ambiguous`. Confirmed both ways, the drafts that win have the same
  keys and confidences; their roles are equal because the role of a winner is a matter of
  its key (`WinnerRole`), although a match that is not the first of its rule is no threat
  by itself.

### ReportContext

For any rows, rules, metadata and limits, and any finite set of other summaries, in
`ReportContextProofs`:

- `ChainsRestOnRows`: whatever group a summary, or the sum of a process's findings, counts is
  claimed by one of the findings (`GroupsAreClaimed`), and what a finding claims a row of the
  table says (`ClaimsHaveRows`). If the list of a chain is not cut it has that row, and a
  public row is exported by its address and, if it has a port, its endpoint (`EndReferred`).
  Without other summaries the process has a chain
  as soon as it has a finding (`OwnChain`), and a threat has one (`ThreatOrigin`). The
  invariant added is `SummaryMade`: a summary is that of the rows, which nobody changes any more.
- `SectionsAccount`: the lines of a section stand for disjoint sets of rows that together are
  all of them, so their counts add up (`CountsAdd`), and where the code
  drops findings it counts them (`FindingsAccounted`). A cut keeps what a finding is about
  because linked connections score 50 or more and others 30 at most (`ConnectionScores`), and a
  module that a finding is about has priority 50, others 35 at most (`FoundModules`).
- `AdviceHasReasons`: the candidates have a gravest member, which is displayed whatever the
  limit (`GravestShown`). If it is only the summary that is shown, that is as grave as the advice:
  a high finding leads to a component of 8 or more (`GraveComponent`), in a group that no cap
  holds down (`GraveGroups`), so the score is 8 or more (`GraveScore`), unless `Understated`
  (`RisenSummary`). Findings of the job as a whole are never high (`JobQuiet`). An indicator
  that is an address or an endpoint comes from a public connection (`ValueOrigin`), and those are
  displayed first (`PublicFirst`).

### UploadPage

For any number of submissions, workers and parts, and any faults, `UploadPageProofs`:

- `TypeCorrect`: includes that the running XHRs are PUTs of workers, and that nobody works
  on a session that is not open yet.
- `QuietEvidence`: a submission finalizes its session when all its workers have returned, and
  none of them is started again, also when the answer to that request is lost (`QuietInv`).
- `CancelKept`: by `RefsInv` the refs belong to a clean submission while it is live: no other
  call is pending that could take back the cancel flag or wipe the upload id, and once the
  session is known the button names it.

### JobPage and FindingReview

For any number of polls, saves, events, kinds of results and clients, `JobPageProofs`:

- `TypeCorrect`: includes that the last requests for results are under way only when the
  page shows the job as ended (`StagesInv`).
- `StatusAdvances`: statuses on their way to the page are not behind the one it shows, nor
  ahead of the tables (`StatusInv`), because an answer overtaken by another is dropped with
  the effect that polled for it.
- `ReviewsWhole`: a save under way asks for a form that was sent, and a review time that
  its handler has loaded is never taken back (`FormsInv`).
- `OwnSaves`, where the page lists findings (`"findings" \in Listed`): while its analyst
  saves and nothing has crossed the save, no request for the list is under way and the filter
  is the one the save was made with (`CrossInv`); so what the page lists, or is about to
  list, is newer than the version saved last (`OwnInv`).
- `ResultsShown`: completed is nowhere, not even on its way, before the worker is done with
  the results (`LateInv`), and the request sent at that status finds them (`ResultsInv`). This
  is so for every backend that `JobResults` allows, and `ResultsImplemented` makes the worker
  one of them. For the number of high findings it takes `CountInv`: where they were stored when
  the first effect last ran, the answer on its way counts them, and once it is there the number
  is right.

### Assumptions

`Job` is not empty, each plan is a non-empty sequence of
plugins (`select_plugins` never returns an empty list), `MaxCopies` is positive,
`Faults` consists of fault kinds, `Part` is finite and not empty, `ChunkCount` is positive,
each row belongs to a table and each YARA row to a known rule, `MaxComponents` is
positive, the report's limits are positive, the summaries of other processes are finitely many and look
like summaries (`ReportAssumption`), submissions have parts, bounds are natural numbers.
`EndsAssumption` says of connections that an address tells whether it is public, which is all
that `is_public_remote_address` looks at, and that no other indicator reads like an address
or an endpoint. The report links indicators to connections by their text, so without it a
command line or a rule that reads like a private address would mark that
connection as found. TLC checks each assumption on the instances. Hypotheses of single theorems (`DistinctPlans`, one recorder, the
client's habits) are named with them above; each is met by the instance of a run.

### Only model-checked

- Liveness: `JobSettles` and its like rest on fairness and ENABLED, which are outside what
  the prover handles.

## 5. Plan

1. `AnalysisJob`, `JobLifecycle`, `JobResults`: done, every safety property and both
   refinements proved.
2. `MultipartUpload`, `ChunkedUpload`: done, every safety property proved for the clients
   for which it holds.
3. `ProcessRisk`: done, every property proved.
4. `IocExport`, `ReportContext`: done, every property proved.
5. `UploadPage`, `FindingReview`, `JobPage`: done, every safety property proved.
6. Resolution of rows to processes (reused PIDs, rows without a PID), which `ProcessRisk`
   takes as given.

Not modelled:

- **Direct upload and registration**: one request that streams, stores and inserts under an
  id and a key of its own; no other process meets it.
- **Report rendering**: the plugin status and coverage tables, the YARA status message, the
  wording and the template. What the sections show is in `ReportContext`; when the report is
  written, and from what, is in `AnalysisJob`.
- **Parsers, assistant and web enrichment, rule-pack scripts**: text processing and calls to
  external services.
- **Queries, downloads, analyst notes by themselves**: reads, and inserts or updates of one
  row in one transaction.
- **Schema and migrations**: declarations; the columns the models need are in their states.
