------------------------------ MODULE UploadPage ------------------------------
(***************************************************************************)
(* The evidence upload page in a browser, and the multipart sessions it    *)
(* opens.  handleSubmit is an asynchronous function that the user may      *)
(* start again while an earlier call still waits for an answer; its part   *)
(* workers and handleCancelUpload run beside it.  They share three refs:   *)
(* the cancel flag, the active upload id and the set of running XHRs.      *)
(*                                                                         *)
(* JavaScript runs one task at a time, so what happens between two awaits  *)
(* is one step, and a rejected promise is handled before the next event.   *)
(* A session's handlers are those of MultipartUpload, each one step here.  *)
(***************************************************************************)
EXTENDS Naturals, FiniteSets

CONSTANTS
  MaxSubmissions,    \* bound: how often the user submits the form
  Worker,            \* concurrent part workers, 1..MULTIPART_UPLOAD_CONCURRENCY
  PartCount,         \* PartCount[s]: the expected_part_count of submission s
  MAX_PART_RETRIES,
  Faults,            \* the kinds of failure a run may meet
  MaxFaults          \* bound: failures of requests that could have succeeded

PageFault == {"request", "storage"}

ASSUME SubmissionsAssumption == MaxSubmissions \in Nat
ASSUME WorkerAssumption == Worker \subseteq Nat \ {0}
ASSUME CountAssumption == PartCount \in [1..MaxSubmissions -> Nat \ {0}]
ASSUME RetriesAssumption == MAX_PART_RETRIES \in Nat
ASSUME PageFaultsAssumption == Faults \subseteq PageFault /\ MaxFaults \in Nat

VARIABLES
  mounted,          \* the page is on the screen
  submitting,       \* its state of that name: Submit is disabled, Cancel shown
  cancelRequested,  \* cancelRequestedRef
  activeUpload,     \* activeUploadIdRef: the submission it names, or 0
  activeXhrs,       \* activeXhrsRef: the <<submission, worker>> of each PUT in it
  at,               \* submission: where its handleSubmit waits
  nextPart,         \* submission: nextPartNumber
  worker,           \* submission and worker: the part worker's locals
  deletes,          \* submission: where the DELETE of its session stands
  session,          \* backend: the submission's session
  failures,         \* backend and network: failures of that kind so far
  clean,            \* history: submissions made with no earlier call pending
  cancelled         \* history: how far a clean submission was when cancelled

refVars     == <<cancelRequested, activeUpload, activeXhrs>>
viewVars    == <<mounted, submitting>>
submitVars  == <<at, nextPart, worker>>
backendVars == <<session, failures>>
historyVars == <<clean, cancelled>>
vars == <<viewVars, refVars, submitVars, deletes, backendVars, historyVars>>

Submission == 1..MaxSubmissions
Waiting    == {"initiate", "upload", "complete", "refused", "accepted"}
AtWork     == {"presign", "put", "record", "aborted"}
WorkerAt   == {"none", "returned", "threw"} \cup AtWork
Idle       == [at |-> "none", part |-> 1, attempt |-> 0]

Live(s)    == at[s] \in Waiting
Ended(s)   == at[s] \in {"done", "failed"}
Pending(s) == deletes[s] \in {"sent", "served"}

Init ==
  /\ mounted = TRUE /\ submitting = FALSE
  /\ cancelRequested = FALSE /\ activeUpload = 0 /\ activeXhrs = {}
  /\ at        = [s \in Submission |-> "none"]
  /\ nextPart  = [s \in Submission |-> 1]
  /\ worker    = [s \in Submission |-> [w \in Worker |-> Idle]]
  /\ deletes   = [s \in Submission |-> "none"]
  /\ session   = [s \in Submission |-> "none"]
  /\ failures  = 0
  /\ clean     = {}
  /\ cancelled = [s \in Submission |-> "no"]

-----------------------------------------------------------------------------
(***************************************************************************)
(* Promise reactions.  They run before the page handles another event: an  *)
(* aborted PUT first fails its part worker, then Promise.all its caller.   *)
(***************************************************************************)
Aborted(s)   == \E w \in Worker : worker[s][w].at = "aborted"
Threw(s)     == \E w \in Worker : worker[s][w].at = "threw"
\* Mutated form: the first worker that returns is enough.
AnyReturned(s) == \E w \in Worker : worker[s][w].at \in {"none", "returned"}
AllReturned(s) == \A w \in Worker : worker[s][w].at \in {"none", "returned"}
Settled(s)   == at[s] = "upload" /\ (Threw(s) \/ AllReturned(s))
Quiet        == \A s \in Submission : ~Aborted(s) /\ ~Settled(s)

\* Mutated form: a failed attempt does not count.
SameAttempt(n) == n
NextAttempt(n) == n + 1

\* Mutated form: one retry too many.
OneMoreTry(k)  == k.attempt <= MAX_PART_RETRIES
TriesLeft(k)   == k.attempt < MAX_PART_RETRIES

\* The catch block of uploadPartWithRetry, and the check that opens the next
\* attempt; the whole part is sent again from its presigned URL on.
AfterError(k) ==
  IF ~cancelRequested /\ TriesLeft(k)
    THEN [k EXCEPT !.at = "presign", !.attempt = NextAttempt(@)]
    ELSE [Idle EXCEPT !.at = "threw"]

\* One turn of the worker's loop: the next part while there is one and nobody
\* has asked to cancel.
MoreParts(s)  == ~cancelRequested /\ nextPart[s] <= PartCount[s]
Turn(s) == IF MoreParts(s) THEN [Idle EXCEPT !.at = "presign", !.part = nextPart[s]]
                           ELSE [Idle EXCEPT !.at = "returned"]

\* The abort of a PUT rejects its promise.
Abort(xhrs) ==
  [s \in Submission |-> [w \in Worker |->
     IF <<s, w>> \in xhrs THEN [worker[s][w] EXCEPT !.at = "aborted"] ELSE worker[s][w]]]

\* The finally block.
Finally == submitting' = FALSE /\ activeXhrs' = {} /\ cancelRequested' = FALSE

\* The catch block and the finally block of handleSubmit: every running PUT is
\* aborted, the session is left to the backend.
Fail(s) ==
  /\ at'     = [at EXCEPT ![s] = "failed"]
  /\ worker' = Abort(activeXhrs)
  /\ Finally
  /\ UNCHANGED <<mounted, activeUpload, nextPart>>

HandleAbort(s, w) ==
  /\ worker[s][w].at = "aborted"
  /\ worker' = [worker EXCEPT ![s][w] = AfterError(@)]
  /\ UNCHANGED <<mounted, submitting, refVars, at, nextPart, deletes, backendVars,
                 historyVars>>

\* Mutated form: the flag is not looked at again once the workers are done.
ForgetCancel     == FALSE
CancelledMeanwhile == cancelRequested

\* Promise.all rejects as soon as one worker has thrown; the others go on.
LeaveUpload(s) ==
  /\ Settled(s)
  /\ \A t \in Submission : ~Aborted(t)
  /\ IF Threw(s) \/ CancelledMeanwhile
       THEN Fail(s)
       ELSE /\ at'    = [at EXCEPT ![s] = "complete"]
            /\ UNCHANGED <<mounted, submitting, refVars, nextPart, worker>>
  /\ UNCHANGED <<deletes, backendVars, historyVars>>

-----------------------------------------------------------------------------
(***************************************************************************)
(* The user.                                                               *)
(***************************************************************************)

\* handleSubmit up to its first await.  What an earlier submission put in the
\* refs is forgotten, whether or not it has ended.
Submit(s) ==
  /\ Quiet
  /\ mounted /\ ~submitting
  /\ at[s] = "none" /\ \A r \in 1..(s - 1) : at[r] # "none"
  /\ submitting' = TRUE
  /\ cancelRequested' = FALSE /\ activeUpload' = 0 /\ activeXhrs' = {}
  /\ at' = [at EXCEPT ![s] = "initiate"]
  /\ clean' = {r \in clean : Ended(r)} \cup
              IF \E r \in Submission : Live(r) \/ Pending(r) THEN {} ELSE {s}
  /\ UNCHANGED <<mounted, nextPart, worker, deletes, backendVars, cancelled>>

SessionKnown(s) == activeUpload = s

\* handleCancelUpload up to its await.  Without an upload id there is nothing to
\* wait for.  One DELETE of a session is under way at a time.
Cancel ==
  /\ Quiet
  /\ mounted /\ submitting
  /\ activeUpload # 0 => ~Pending(activeUpload)
  /\ cancelRequested' = TRUE
  /\ worker' = Abort(activeXhrs)
  /\ activeXhrs' = {}
  /\ LET known == {s \in Submission : SessionKnown(s)} IN
     /\ deletes' = [s \in Submission |-> IF s \in known THEN "sent" ELSE deletes[s]]
     /\ submitting' = (known # {})
  /\ cancelled' = [s \in Submission |-> IF Live(s) /\ cancelled[s] = "no"
                                        THEN at[s] ELSE cancelled[s]]
  /\ UNCHANGED <<mounted, activeUpload, at, nextPart, backendVars, clean>>

-----------------------------------------------------------------------------
(***************************************************************************)
(* The answers of the backend and of the object store.  A request fails    *)
(* when it is refused, or lost on the way there or back; for the page a    *)
(* DELETE whose answer is lost is like any other.                          *)
(***************************************************************************)
MayFail(kind) == kind \in Faults /\ failures < MaxFaults
Effects == {"served"} \cup (IF MayFail("request") THEN {"lost", "unanswered"} ELSE {})
Count(failed) == failures' = IF failed THEN failures + 1 ELSE failures

\* The session is open, the id is noted, and each worker takes a part.
Initiated(s) ==
  /\ Quiet
  /\ at[s] = "initiate"
  /\ session' = [session EXCEPT ![s] = "open"]
  /\ activeUpload' = s
  /\ at' = [at EXCEPT ![s] = "upload"]
  /\ IF cancelRequested
       THEN UNCHANGED <<nextPart, worker>>
       ELSE LET first == {w \in Worker : w <= PartCount[s]} IN
            /\ worker' = [worker EXCEPT ![s] =
                 [w \in Worker |-> IF w \in first
                    THEN [Idle EXCEPT !.at = "presign", !.part = w] ELSE Idle]]
            /\ nextPart' = [nextPart EXCEPT ![s] = Cardinality(first) + 1]
  /\ UNCHANGED <<mounted, submitting, cancelRequested, activeXhrs, deletes,
                 failures, historyVars>>

InitiateFails(s) ==
  /\ Quiet
  /\ MayFail("request")
  /\ at[s] = "initiate"
  /\ session' \in {session, [session EXCEPT ![s] = "open"]}
  /\ Fail(s)
  /\ Count(TRUE)
  /\ UNCHANGED <<deletes, historyVars>>

\* A worker's request has ended, and the worker is k from now on.
WorkerGoes(s, w, k) ==
  /\ worker' = [worker EXCEPT ![s][w] = k]
  /\ UNCHANGED <<mounted, submitting, cancelRequested, activeUpload, at, deletes,
                 historyVars>>

\* The flag is not looked at between the presigned URL and the PUT.
Presigned(s, w) ==
  /\ Quiet
  /\ worker[s][w].at = "presign"
  /\ session[s] = "open"
  /\ activeXhrs' = activeXhrs \cup {<<s, w>>}
  /\ WorkerGoes(s, w, [worker[s][w] EXCEPT !.at = "put"])
  /\ UNCHANGED <<nextPart, backendVars>>

PartStored(s, w) ==
  /\ Quiet
  /\ worker[s][w].at = "put"
  /\ session[s] = "open"
  /\ activeXhrs' = activeXhrs \ {<<s, w>>}
  /\ WorkerGoes(s, w, [worker[s][w] EXCEPT !.at = "record"])
  /\ UNCHANGED <<nextPart, backendVars>>

PartRecorded(s, w) ==
  /\ Quiet
  /\ worker[s][w].at = "record"
  /\ session[s] = "open"
  /\ nextPart' = IF MoreParts(s) THEN [nextPart EXCEPT ![s] = @ + 1] ELSE nextPart
  /\ WorkerGoes(s, w, Turn(s))
  /\ UNCHANGED <<activeXhrs, backendVars>>

RequestFails(s, w) ==
  LET k == worker[s][w] IN
  /\ Quiet
  /\ k.at \in {"presign", "put", "record"}
  /\ \/ session[s] # "open"
     \/ MayFail(IF k.at = "put" THEN "storage" ELSE "request")
  /\ Count(session[s] = "open")
  /\ activeXhrs' = activeXhrs \ {<<s, w>>}
  /\ WorkerGoes(s, w, AfterError(k))
  /\ UNCHANGED <<nextPart, session>>

\* The backend completes an open session, or refuses: two records that crossed
\* may have lost a part of it, or the object has another size.
ServeComplete(s) ==
  /\ Quiet
  /\ at[s] = "complete"
  /\ \E e \in Effects \cup {"refused"} :
       LET done == e \notin {"lost", "refused"} /\ session[s] = "open" IN
       /\ session' = IF done THEN [session EXCEPT ![s] = "completed"] ELSE session
       /\ at' = [at EXCEPT ![s] = IF done /\ e = "served" THEN "accepted" ELSE "refused"]
       /\ Count(e \in {"lost", "unanswered"})
  /\ UNCHANGED <<viewVars, refVars, nextPart, worker, deletes, historyVars>>

\* The page goes to the case; what still runs goes on behind it.
Completed(s) ==
  /\ Quiet
  /\ at[s] = "accepted"
  /\ at' = [at EXCEPT ![s] = "done"]
  /\ activeUpload' = 0
  /\ mounted' = FALSE
  /\ Finally
  /\ UNCHANGED <<nextPart, worker, deletes, backendVars, historyVars>>

CompleteFails(s) ==
  /\ Quiet
  /\ at[s] = "refused"
  /\ Fail(s)
  /\ UNCHANGED <<deletes, backendVars, historyVars>>

\* The backend aborts an open session and forgets it.
ServeDelete(s) ==
  /\ deletes[s] = "sent"
  /\ \E e \in Effects :
       /\ session' = IF e # "lost" /\ session[s] = "open"
                     THEN [session EXCEPT ![s] = "aborted"] ELSE session
       /\ Count(e # "served")
  /\ deletes' = [deletes EXCEPT ![s] = "served"]
  /\ UNCHANGED <<viewVars, refVars, submitVars, historyVars>>

\* The end of handleCancelUpload, which ignores how the DELETE went and takes the
\* page to be still at the submission it was pressed for.
Deleted(s) ==
  /\ Quiet
  /\ deletes[s] = "served"
  /\ deletes' = [deletes EXCEPT ![s] = "answered"]
  /\ activeUpload' = 0
  /\ submitting' = FALSE
  /\ UNCHANGED <<mounted, cancelRequested, activeXhrs, submitVars, backendVars, historyVars>>

-----------------------------------------------------------------------------
Answer(s) ==
  \/ Initiated(s) \/ InitiateFails(s) \/ LeaveUpload(s)
  \/ ServeComplete(s) \/ Completed(s) \/ CompleteFails(s)
  \/ ServeDelete(s) \/ Deleted(s)

WorkerStep(s, w) ==
  \/ Presigned(s, w) \/ PartStored(s, w) \/ PartRecorded(s, w)
  \/ RequestFails(s, w) \/ HandleAbort(s, w)

Reaction == \E s \in Submission : Answer(s) \/ \E w \in Worker : WorkerStep(s, w)

Next ==
  \/ Cancel
  \/ \E s \in Submission : Submit(s)
  \/ Reaction

Spec == Init /\ [][Next]_vars

\* While a request is under way some request is answered or broken off at last,
\* and its promise handled.  The user owes the page nothing.
FairSpec == Spec /\ WF_vars(Reaction)

-----------------------------------------------------------------------------
WorkerOK(s, k) ==
  /\ k \in [at : WorkerAt, part : 1..PartCount[s], attempt : 0..MAX_PART_RETRIES]
  /\ k.at \in AtWork \/ k = [Idle EXCEPT !.at = k.at]

\* Page, submissions and sessions have these shapes; the running XHRs are PUTs,
\* and only a submission that has its session has workers.
TypeOK ==
  /\ mounted \in BOOLEAN /\ submitting \in BOOLEAN
  /\ cancelRequested \in BOOLEAN /\ activeUpload \in {0} \cup Submission
  /\ activeXhrs \subseteq Submission \X Worker
  /\ at \in [Submission -> {"none", "done", "failed"} \cup Waiting]
  /\ DOMAIN nextPart = Submission
  /\ \A s \in Submission : nextPart[s] \in 1..(PartCount[s] + 1)
  /\ DOMAIN worker = Submission
  /\ \A s \in Submission : /\ DOMAIN worker[s] = Worker
                            /\ \A w \in Worker : WorkerOK(s, worker[s][w])
  /\ deletes \in [Submission -> {"none", "sent", "served", "answered"}]
  /\ session \in [Submission -> {"none", "open", "aborted", "completed"}]
  /\ failures \in 0..MaxFaults
  /\ clean \subseteq Submission
  /\ cancelled \in [Submission -> {"no"} \cup Waiting]
  /\ \A x \in activeXhrs : worker[x[1]][x[2]].at = "put"
  /\ \A s \in Submission : session[s] = "none" =>
       \A w \in Worker : worker[s][w].at \in {"none", "returned"}

\* Cancelling the page's only submission before it is finalizing keeps its dump
\* out of the evidence for good, however its workers' answers arrive and whether
\* or not the DELETE gets through, unless the user submits again meanwhile.  Once
\* the page knows the session, the backend is asked to abort it.
CancelHolds ==
  \A s \in clean : cancelled[s] \in {"initiate", "upload"} =>
    /\ at[s] \notin {"complete", "refused", "accepted", "done"}
    /\ session[s] # "completed"
    /\ cancelled[s] = "upload" => deletes[s] # "none"

\* When a session becomes evidence none of its part workers is still sending to
\* it, not even those that went on after their submission had failed.
CompletedIsQuiet == \A s \in Submission : session[s] = "completed" =>
    \A w \in Worker : worker[s][w].at \in {"none", "returned"}

\* Each submission ends, the form comes back for the next, and every part worker
\* ends, also those of a cancelled or failed submission after the cancel flag has
\* been taken back.
UploadSettles ==
  []<>(~submitting /\ \A s \in Submission :
         ~Live(s) /\ \A w \in Worker : worker[s][w].at \notin AtWork)

\* "If an upload is cancelled, RAMSight asks the backend to remove the temporary
\* upload session."  Pressed before the session's id has arrived, or after an
\* earlier cancellation's answer has wiped it, the button asks nothing.
CancelRemovesSession ==
  \A s \in Submission :
    cancelled[s] # "no" /\ Ended(s) /\ session[s] = "open" => deletes[s] # "none"
=============================================================================
