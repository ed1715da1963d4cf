-------------------------- MODULE UploadPageProofs --------------------------
(***************************************************************************)
(* Theorems about UploadPage for any number of submissions, part workers,  *)
(* parts and retries, and any kinds and number of faults.                  *)
(***************************************************************************)
EXTENDS UploadPage, FiniteSetTheorems, TLAPS

USE DEF NextAttempt, TriesLeft, CancelledMeanwhile, SessionKnown

-----------------------------------------------------------------------------
(* Type correctness.                                                       *)

\* What has a type of its own.
FieldsOK ==
  /\ mounted \in BOOLEAN /\ submitting \in BOOLEAN
  /\ cancelRequested \in BOOLEAN /\ activeUpload \in {0} \cup Submission
  /\ at \in [Submission -> {"none", "done", "failed"} \cup Waiting]
  /\ deletes \in [Submission -> {"none", "sent", "served", "answered"}]
  /\ session \in [Submission -> {"none", "open", "aborted", "completed"}]
  /\ failures \in 0..MaxFaults
  /\ clean \subseteq Submission
  /\ cancelled \in [Submission -> {"no"} \cup Waiting]

PartsOK ==
  /\ DOMAIN nextPart = Submission
  /\ \A s \in Submission : nextPart[s] \in 1..(PartCount[s] + 1)

WorkersOK ==
  /\ DOMAIN worker = Submission
  /\ \A s \in Submission : /\ DOMAIN worker[s] = Worker
                           /\ \A w \in Worker : WorkerOK(s, worker[s][w])

\* The running XHRs are PUTs.
PutsOK ==
  /\ activeXhrs \subseteq Submission \X Worker
  /\ \A s \in Submission, w \in Worker : <<s, w>> \in activeXhrs => worker[s][w].at = "put"

\* A submission opens one session, and works on none before that.
SessionsOK ==
  \A s \in Submission :
    /\ at[s] \in {"none", "initiate"} => session[s] = "none"
    /\ session[s] = "none" => \A w \in Worker : worker[s][w].at \in {"none", "returned"}

PageInv == FieldsOK /\ PartsOK /\ WorkersOK /\ PutsOK /\ SessionsOK

LEMMA PageInvType == PageInv => TypeOK
<1> SUFFICES ASSUME PageInv PROVE TypeOK
  OBVIOUS
<1>1. \A x \in activeXhrs : worker[x[1]][x[2]].at = "put"
  BY DEF PageInv, PutsOK
<1> QED
  BY <1>1 DEF PageInv, FieldsOK, PartsOK, WorkersOK, PutsOK, SessionsOK, TypeOK

LEMMA PartCountType == \A s \in Submission : PartCount[s] \in Nat /\ PartCount[s] >= 1
  BY CountAssumption DEF Submission

LEMMA IdleOK ==
  ASSUME NEW s \in Submission, NEW p \in {"none", "returned", "threw"}
  PROVE  /\ WorkerOK(s, [Idle EXCEPT !.at = p]) /\ [Idle EXCEPT !.at = p].at = p
         /\ WorkerOK(s, Idle) /\ Idle.at = "none"
<1>1. 1 \in 1..PartCount[s] /\ 0 \in 0..MAX_PART_RETRIES
  BY PartCountType, RetriesAssumption
<1>2. /\ [Idle EXCEPT !.at = p] = [at |-> p, part |-> 1, attempt |-> 0]
      /\ Idle = [at |-> "none", part |-> 1, attempt |-> 0]
  BY DEF Idle
<1>3. [Idle EXCEPT !.at = p].at = p /\ Idle.at = "none" /\ Idle = [Idle EXCEPT !.at = Idle.at]
  BY <1>2
<1> QED
  BY <1>1, <1>2, <1>3 DEF WorkerOK, WorkerAt

\* A worker that begins with a part.
LEMMA FirstTryOK ==
  ASSUME NEW s \in Submission, NEW p \in 1..PartCount[s]
  PROVE  /\ WorkerOK(s, [Idle EXCEPT !.at = "presign", !.part = p])
         /\ [Idle EXCEPT !.at = "presign", !.part = p].at = "presign"
<1>1. PICK k : k = Idle
  OBVIOUS
<1>2. WorkerOK(s, k)
  BY <1>1, IdleOK
<1>3. /\ [k EXCEPT !.at = "presign", !.part = p]
           \in [at : WorkerAt, part : 1..PartCount[s], attempt : 0..MAX_PART_RETRIES]
      /\ [k EXCEPT !.at = "presign", !.part = p].at = "presign"
  BY <1>2 DEF WorkerOK, WorkerAt, AtWork
<1> QED
  BY <1>1, <1>3 DEF WorkerOK, AtWork

LEMMA MovesOK ==
  ASSUME NEW s \in Submission, NEW k, WorkerOK(s, k), NEW p \in AtWork, k.at \in AtWork
  PROVE  WorkerOK(s, [k EXCEPT !.at = p]) /\ [k EXCEPT !.at = p].at = p
  BY DEF WorkerOK, WorkerAt, AtWork

LEMMA AfterErrorOK ==
  ASSUME NEW s \in Submission, NEW k, WorkerOK(s, k), k.at \in AtWork
  PROVE  WorkerOK(s, AfterError(k)) /\ AfterError(k).at \in {"presign", "threw"}
<1>1. CASE ~cancelRequested /\ TriesLeft(k)
  <2>1. k.attempt + 1 \in 0..MAX_PART_RETRIES
    BY <1>1, RetriesAssumption DEF WorkerOK
  <2>2. AfterError(k) = [k EXCEPT !.at = "presign", !.attempt = k.attempt + 1]
    BY <1>1 DEF AfterError
  <2> QED BY <2>1, <2>2 DEF WorkerOK, WorkerAt, AtWork
<1>2. CASE ~(~cancelRequested /\ TriesLeft(k))
  BY <1>2, IdleOK DEF AfterError
<1> QED
  BY <1>1, <1>2

LEMMA TurnOK ==
  ASSUME PartsOK, NEW s \in Submission
  PROVE  WorkerOK(s, Turn(s)) /\ Turn(s).at \in {"presign", "returned"}
<1>1. CASE MoreParts(s)
  <2>1. nextPart[s] \in 1..PartCount[s]
    BY <1>1, PartCountType DEF MoreParts, PartsOK
  <2> QED BY <1>1, <2>1, FirstTryOK DEF Turn
<1>2. CASE ~MoreParts(s)
  BY <1>2, IdleOK DEF Turn
<1> QED
  BY <1>1, <1>2

\* A step of one part worker.
LEMMA OneWorkerMoves ==
  ASSUME PageInv, NEW s \in Submission, NEW w \in Worker, NEW k, WorkerOK(s, k),
         worker' = [worker EXCEPT ![s][w] = k]
  PROVE  /\ WorkersOK'
         /\ worker'[s][w] = k
         /\ \A t \in Submission, v \in Worker :
              <<t, v>> # <<s, w>> => worker'[t][v] = worker[t][v]
  BY DEF PageInv, WorkersOK

LEMMA OneWorkerOK ==
  ASSUME PageInv, NEW s \in Submission, NEW w \in Worker, NEW k, WorkerOK(s, k),
         worker' = [worker EXCEPT ![s][w] = k],
         UNCHANGED <<at, session>>, session[s] # "none",
         \/ k.at = "put" /\ activeXhrs' = activeXhrs \cup {<<s, w>>}
         \/ activeXhrs' = activeXhrs \ {<<s, w>>}
         \/ activeXhrs' = activeXhrs /\ <<s, w>> \notin activeXhrs
  PROVE  WorkersOK' /\ PutsOK' /\ SessionsOK'
<1>1. /\ WorkersOK'
      /\ worker'[s][w] = k
      /\ \A t \in Submission, v \in Worker :
           <<t, v>> # <<s, w>> => worker'[t][v] = worker[t][v]
  BY OneWorkerMoves
<1>2. PutsOK'
  BY <1>1 DEF PageInv, PutsOK
<1>3. SessionsOK'
  BY <1>1 DEF PageInv, SessionsOK
<1> QED
  BY <1>1, <1>2, <1>3

\* The abort of every running PUT.
LEMMA AbortMoves ==
  ASSUME PageInv, worker' = Abort(activeXhrs)
  PROVE  /\ WorkersOK'
         /\ \A s \in Submission, w \in Worker :
              \/ worker[s][w].at = "put" /\ worker'[s][w].at = "aborted"
              \/ worker'[s][w] = worker[s][w]
<1>1. DOMAIN worker' = Submission /\ \A s \in Submission : DOMAIN worker'[s] = Worker
  BY DEF Abort
<1>2. ASSUME NEW s \in Submission, NEW w \in Worker
      PROVE  /\ WorkerOK(s, worker'[s][w])
             /\ \/ worker[s][w].at = "put" /\ worker'[s][w].at = "aborted"
                \/ worker'[s][w] = worker[s][w]
  <2>1. WorkerOK(s, worker[s][w])
    BY DEF PageInv, WorkersOK
  <2>2. CASE <<s, w>> \in activeXhrs
    <3>1. worker[s][w].at = "put" /\ worker'[s][w] = [worker[s][w] EXCEPT !.at = "aborted"]
      BY <2>2 DEF Abort, PageInv, PutsOK
    <3>2. /\ WorkerOK(s, [worker[s][w] EXCEPT !.at = "aborted"])
          /\ [worker[s][w] EXCEPT !.at = "aborted"].at = "aborted"
      <4>1. worker[s][w].at \in AtWork /\ "aborted" \in AtWork
        BY <3>1 DEF AtWork
      <4> QED BY <2>1, <4>1, MovesOK
    <3> QED BY <3>1, <3>2
  <2>3. CASE <<s, w>> \notin activeXhrs
    BY <2>1, <2>3 DEF Abort
  <2> QED BY <2>2, <2>3
<1> QED
  BY <1>1, <1>2 DEF WorkersOK

LEMMA AbortOK ==
  ASSUME PageInv, worker' = Abort(activeXhrs), activeXhrs' = {},
         \A s \in Submission : at'[s] \in {"none", "initiate"} => session'[s] = "none",
         \A s \in Submission : session'[s] = "none" => session[s] = "none"
  PROVE  WorkersOK' /\ PutsOK' /\ SessionsOK'
  BY AbortMoves DEF PageInv, PutsOK, SessionsOK

LEMMA FailOK ==
  ASSUME PageInv, NEW s \in Submission, Fail(s), UNCHANGED <<deletes, clean, cancelled>>,
         session' \in {session, [session EXCEPT ![s] = "open"]}, failures' \in 0..MaxFaults
  PROVE  PageInv'
<1>1. FieldsOK'
  BY DEF PageInv, FieldsOK, Fail, Finally
<1>2. PartsOK'
  BY DEF PageInv, PartsOK, Fail
<1>3. WorkersOK' /\ PutsOK' /\ SessionsOK'
  <2>1. worker' = Abort(activeXhrs) /\ activeXhrs' = {}
    BY DEF Fail, Finally
  <2>2. \A t \in Submission : at'[t] \in {"none", "initiate"} => session'[t] = "none"
    BY DEF PageInv, FieldsOK, SessionsOK, Fail
  <2>3. \A t \in Submission : session'[t] = "none" => session[t] = "none"
    BY DEF PageInv, FieldsOK
  <2> QED BY <2>1, <2>2, <2>3, AbortOK
<1> QED
  BY <1>1, <1>2, <1>3 DEF PageInv

\* A step that leaves the workers alone.
LEMMA WorkersStand ==
  ASSUME PageInv, UNCHANGED worker, activeXhrs' \in {{}, activeXhrs},
         \A s \in Submission : at'[s] \in {"none", "initiate"} => session'[s] = "none",
         \A s \in Submission : session'[s] = "none" => session[s] = "none"
  PROVE  WorkersOK' /\ PutsOK' /\ SessionsOK'
  BY DEF PageInv, WorkersOK, PutsOK, SessionsOK

LEMMA CountOK ==
  ASSUME failures \in 0..MaxFaults, NEW b \in BOOLEAN, Count(b), b => failures < MaxFaults
  PROVE  failures' \in 0..MaxFaults
  BY PageFaultsAssumption DEF Count

LEMMA InitiatedOK ==
  ASSUME PageInv, NEW s \in Submission, Initiated(s)
  PROVE  PageInv'
<1>1. FieldsOK'
  BY DEF PageInv, FieldsOK, Initiated, Waiting, historyVars
<1>2. session[s] = "none" /\ \A w \in Worker : worker[s][w].at \in {"none", "returned"}
  BY DEF PageInv, SessionsOK, Initiated
<1>3. \A w \in Worker : <<s, w>> \notin activeXhrs
  BY <1>2 DEF PageInv, PutsOK
<1>4. /\ \A t \in Submission : at'[t] \in {"none", "initiate"} => session'[t] = "none"
      /\ \A t \in Submission : session'[t] = "none" => session[t] = "none" /\ t # s
  BY DEF PageInv, FieldsOK, SessionsOK, Initiated
<1>5. activeXhrs' = activeXhrs
  BY DEF Initiated
<1>6. CASE cancelRequested
  <2>1. UNCHANGED <<nextPart, worker>>
    BY <1>6 DEF Initiated
  <2>2. PartsOK'
    BY <2>1 DEF PageInv, PartsOK
  <2> QED BY <1>1, <1>4, <1>5, <2>1, <2>2, WorkersStand DEF PageInv
<1>7. CASE ~cancelRequested
  <2> DEFINE first == {w \in Worker : w <= PartCount[s]}
             begun == [w \in Worker |-> IF w \in first
                         THEN [Idle EXCEPT !.at = "presign", !.part = w] ELSE Idle]
  <2>1. /\ worker' = [worker EXCEPT ![s] = begun]
        /\ nextPart' = [nextPart EXCEPT ![s] = Cardinality(first) + 1]
    BY <1>7 DEF Initiated
  <2>0. PICK n \in Nat : n = PartCount[s]
    BY PartCountType
  <2>2. ASSUME NEW w \in first PROVE w \in 1..n
    <3>1. w \in Nat \ {0} /\ w <= n
      BY <2>0, WorkerAssumption
    <3> QED BY <3>1
  <2>3. Cardinality(first) \in 0..n
    <3>1. IsFiniteSet(1..n) /\ Cardinality(1..n) = n
      <4>1. 1 \in Int /\ n \in Int /\ (1 > n => n = 0)
        OBVIOUS
      <4> QED BY <4>1, FS_Interval
    <3>2. IsFiniteSet(first) /\ Cardinality(first) <= n
      <4>1. first \subseteq 1..n
        BY <2>2
      <4> QED BY <3>1, <4>1, FS_Subset
    <3> QED BY <3>2, FS_CardinalityType
  <2>4. PartsOK'
    <3>1. Cardinality(first) + 1 \in 1..(n + 1)
      BY <2>3
    <3> HIDE DEF first
    <3> QED BY <2>0, <2>1, <3>1 DEF PageInv, PartsOK
  <2>5. ASSUME NEW w \in Worker PROVE WorkerOK(s, begun[w])
    BY <2>0, <2>2, FirstTryOK, IdleOK
  <2> HIDE DEF begun, first
  <2>6. DOMAIN begun = Worker
    BY DEF begun
  <2>7. DOMAIN worker' = Submission /\ worker'[s] = begun
        /\ \A t \in Submission \ {s} : worker'[t] = worker[t]
    BY <2>1 DEF PageInv, WorkersOK
  <2>8. WorkersOK'
    BY <2>5, <2>6, <2>7 DEF PageInv, WorkersOK
  <2>9. PutsOK'
    BY <1>3, <1>5, <2>7 DEF PageInv, PutsOK
  <2>10. SessionsOK'
    BY <1>4, <2>7 DEF PageInv, SessionsOK
  <2> QED BY <1>1, <2>4, <2>8, <2>9, <2>10 DEF PageInv
<1> QED
  BY <1>6, <1>7

\* The answers to the submissions' own requests.
LEMMA AnswerOK ==
  ASSUME PageInv, NEW s \in Submission, Answer(s)
  PROVE  PageInv'
<1> USE DEF PageInv
<1>1. CASE Initiated(s)
  BY <1>1, InitiatedOK
<1>2. CASE InitiateFails(s)
  <2>1. failures' \in 0..MaxFaults
    BY <1>2, CountOK DEF InitiateFails, MayFail, FieldsOK
  <2> QED BY <1>2, <2>1, FailOK DEF InitiateFails, historyVars
<1>3. CASE LeaveUpload(s)
  <2>1. CASE Fail(s)
    BY <1>3, <2>1, FailOK DEF LeaveUpload, backendVars, historyVars, FieldsOK
  <2>2. CASE ~Fail(s)
    <3>1. /\ at' = [at EXCEPT ![s] = "complete"]
          /\ UNCHANGED <<mounted, submitting, refVars, nextPart, worker, deletes,
                         backendVars, historyVars>>
      BY <1>3, <2>2 DEF LeaveUpload
    <3>2. FieldsOK' /\ PartsOK'
      BY <3>1 DEF FieldsOK, PartsOK, refVars, backendVars, historyVars, Waiting
    <3>3. WorkersOK' /\ PutsOK' /\ SessionsOK'
      <4>1. \A t \in Submission : at'[t] \in {"none", "initiate"} => session'[t] = "none"
        BY <3>1 DEF FieldsOK, SessionsOK, backendVars
      <4> QED BY <3>1, <4>1, WorkersStand DEF refVars, backendVars
    <3> QED BY <3>2, <3>3
  <2> QED BY <2>1, <2>2
<1>4. CASE ServeComplete(s)
  <2>1. PICK e \in Effects \cup {"refused"} :
          /\ session' = IF e \notin {"lost", "refused"} /\ session[s] = "open"
                        THEN [session EXCEPT ![s] = "completed"] ELSE session
          /\ at' \in {[at EXCEPT ![s] = "accepted"], [at EXCEPT ![s] = "refused"]}
          /\ Count(e \in {"lost", "unanswered"})
    BY <1>4 DEF ServeComplete
  <2>2. UNCHANGED <<viewVars, refVars, nextPart, worker, deletes, historyVars>>
    BY <1>4 DEF ServeComplete
  <2>3. failures' \in 0..MaxFaults
    <3>1. PICK b \in BOOLEAN : b <=> e \in {"lost", "unanswered"}
      OBVIOUS
    <3>2. Count(b) /\ (b => failures < MaxFaults)
      BY <2>1, <3>1 DEF Effects, MayFail, Count
    <3> QED BY <3>2, CountOK DEF FieldsOK
  <2>4. FieldsOK' /\ PartsOK'
    BY <2>1, <2>2, <2>3 DEF FieldsOK, PartsOK, viewVars, refVars, historyVars, Waiting
  <2>5. \A t \in Submission : at'[t] \in {"none", "initiate"} => session'[t] = "none"
    BY <1>4, <2>1 DEF FieldsOK, SessionsOK, ServeComplete
  <2>6. \A t \in Submission : session'[t] = "none" => session[t] = "none"
    BY <2>1 DEF FieldsOK
  <2>7. WorkersOK' /\ PutsOK' /\ SessionsOK'
    BY <2>2, <2>5, <2>6, WorkersStand DEF refVars
  <2> QED BY <2>4, <2>7
<1>5. CASE Completed(s)
  <2>1. FieldsOK' /\ PartsOK'
    BY <1>5 DEF Completed, Finally, FieldsOK, PartsOK, backendVars, historyVars
  <2>2. \A t \in Submission : at'[t] \in {"none", "initiate"} => session'[t] = "none"
    BY <1>5 DEF FieldsOK, SessionsOK, Completed, backendVars
  <2>3. WorkersOK' /\ PutsOK' /\ SessionsOK'
    BY <1>5, <2>2, WorkersStand DEF Completed, Finally, backendVars
  <2> QED BY <2>1, <2>3
<1>6. CASE CompleteFails(s)
  BY <1>6, FailOK DEF CompleteFails, backendVars, historyVars, FieldsOK
<1>7. CASE ServeDelete(s)
  <2>1. PICK e \in Effects :
          /\ session' = IF e # "lost" /\ session[s] = "open"
                        THEN [session EXCEPT ![s] = "aborted"] ELSE session
          /\ Count(e # "served")
    BY <1>7 DEF ServeDelete
  <2>2. failures' \in 0..MaxFaults
    <3>1. PICK b \in BOOLEAN : b <=> e # "served"
      OBVIOUS
    <3>2. Count(b) /\ (b => failures < MaxFaults)
      BY <2>1, <3>1 DEF Effects, MayFail, Count
    <3> QED BY <3>2, CountOK DEF FieldsOK
  <2>3. FieldsOK' /\ PartsOK'
    BY <1>7, <2>1, <2>2 DEF FieldsOK, PartsOK, ServeDelete, viewVars, refVars, submitVars,
       historyVars
  <2>4. \A t \in Submission : at'[t] \in {"none", "initiate"} => session'[t] = "none"
    BY <1>7, <2>1 DEF FieldsOK, SessionsOK, ServeDelete, submitVars
  <2>5. \A t \in Submission : session'[t] = "none" => session[t] = "none"
    BY <2>1 DEF FieldsOK
  <2>6. WorkersOK' /\ PutsOK' /\ SessionsOK'
    BY <1>7, <2>4, <2>5, WorkersStand DEF ServeDelete, refVars, submitVars
  <2> QED BY <2>3, <2>6
<1>8. CASE Deleted(s)
  <2>1. FieldsOK' /\ PartsOK'
    BY <1>8 DEF Deleted, FieldsOK, PartsOK, submitVars, backendVars, historyVars
  <2>2. WorkersOK' /\ PutsOK' /\ SessionsOK'
    BY <1>8, WorkersStand DEF Deleted, SessionsOK, submitVars, backendVars
  <2> QED BY <2>1, <2>2
<1> QED
  BY <1>1, <1>2, <1>3, <1>4, <1>5, <1>6, <1>7, <1>8 DEF Answer

\* The answers to the part workers' requests.
LEMMA WorkerStepOK ==
  ASSUME PageInv, NEW s \in Submission, NEW w \in Worker, WorkerStep(s, w)
  PROVE  PageInv'
<1> USE DEF PageInv
<1>1. /\ WorkerOK(s, worker[s][w]) /\ worker[s][w].at \in AtWork
      /\ session[s] # "none"
  <2>1. worker[s][w].at \in AtWork
    BY DEF WorkerStep, Presigned, PartStored, PartRecorded, RequestFails, HandleAbort, AtWork
  <2> QED BY <2>1 DEF WorkersOK, SessionsOK, AtWork
<1>2. /\ UNCHANGED <<mounted, submitting, cancelRequested, activeUpload, at, deletes, session,
                     historyVars>>
      /\ failures' \in 0..MaxFaults
  <2>1. CASE RequestFails(s, w)
    <3>1. failures' \in 0..MaxFaults
      BY <2>1, CountOK DEF RequestFails, MayFail, FieldsOK
    <3> QED BY <2>1, <3>1 DEF RequestFails, WorkerGoes
  <2>2. CASE ~RequestFails(s, w)
    BY <2>2 DEF WorkerStep, Presigned, PartStored, PartRecorded, HandleAbort, WorkerGoes,
       backendVars, refVars, FieldsOK
  <2> QED BY <2>1, <2>2
<1>3. FieldsOK'
  BY <1>2 DEF FieldsOK, historyVars
<1>4. CASE Presigned(s, w)
  <2>1. PICK k : k = [worker[s][w] EXCEPT !.at = "put"]
    OBVIOUS
  <2>2. WorkerOK(s, k) /\ k.at = "put"
    BY <1>1, <2>1, MovesOK DEF AtWork
  <2>3. WorkersOK' /\ PutsOK' /\ SessionsOK'
    BY <1>1, <1>2, <1>4, <2>1, <2>2, OneWorkerOK DEF Presigned, WorkerGoes
  <2> QED BY <1>3, <1>4, <2>3 DEF Presigned, PartsOK
<1>5. CASE PartStored(s, w)
  <2>1. PICK k : k = [worker[s][w] EXCEPT !.at = "record"]
    OBVIOUS
  <2>2. WorkerOK(s, k)
    BY <1>1, <2>1, MovesOK DEF AtWork
  <2>3. WorkersOK' /\ PutsOK' /\ SessionsOK'
    BY <1>1, <1>2, <1>5, <2>1, <2>2, OneWorkerOK DEF PartStored, WorkerGoes
  <2> QED BY <1>3, <1>5, <2>3 DEF PartStored, PartsOK
<1>6. CASE PartRecorded(s, w)
  <2>1. PICK k : k = Turn(s)
    OBVIOUS
  <2>2. WorkerOK(s, k)
    BY <2>1, TurnOK
  <2>3. <<s, w>> \notin activeXhrs
    BY <1>6 DEF PartRecorded, PutsOK
  <2>4. WorkersOK' /\ PutsOK' /\ SessionsOK'
    BY <1>1, <1>2, <1>6, <2>1, <2>2, <2>3, OneWorkerOK DEF PartRecorded, WorkerGoes
  <2>5. PartsOK'
    <3>1. PICK n \in Nat : n = PartCount[s]
      BY PartCountType
    <3>2. nextPart[s] \in 1..(n + 1)
      BY <3>1 DEF PartsOK
    <3> QED BY <1>6, <3>1, <3>2 DEF PartRecorded, PartsOK, MoreParts
  <2> QED BY <1>3, <2>4, <2>5
<1>7. CASE RequestFails(s, w)
  <2>1. PICK k : k = AfterError(worker[s][w])
    OBVIOUS
  <2>2. WorkerOK(s, k)
    BY <1>1, <2>1, AfterErrorOK
  <2>3. WorkersOK' /\ PutsOK' /\ SessionsOK'
    BY <1>1, <1>2, <1>7, <2>1, <2>2, OneWorkerOK DEF RequestFails, WorkerGoes
  <2> QED BY <1>3, <1>7, <2>3 DEF RequestFails, PartsOK
<1>8. CASE HandleAbort(s, w)
  <2>1. PICK k : k = AfterError(worker[s][w])
    OBVIOUS
  <2>2. WorkerOK(s, k)
    BY <1>1, <2>1, AfterErrorOK
  <2>3. <<s, w>> \notin activeXhrs /\ activeXhrs' = activeXhrs
    BY <1>8 DEF HandleAbort, PutsOK, refVars
  <2>4. worker' = [worker EXCEPT ![s][w] = k]
    BY <1>8, <2>1 DEF HandleAbort
  <2>5. WorkersOK' /\ PutsOK' /\ SessionsOK'
    BY <1>1, <1>2, <2>2, <2>3, <2>4, OneWorkerOK
  <2> QED BY <1>3, <1>8, <2>5 DEF HandleAbort, PartsOK
<1> QED
  BY <1>4, <1>5, <1>6, <1>7, <1>8 DEF WorkerStep

LEMMA PageStep == PageInv /\ [Next]_vars => PageInv'
<1> SUFFICES ASSUME PageInv, [Next]_vars PROVE PageInv'
  OBVIOUS
<1> USE DEF PageInv
<1>1. CASE Cancel
  <2>1. FieldsOK' /\ PartsOK'
    BY <1>1 DEF Cancel, FieldsOK, PartsOK, backendVars, Live, Waiting
  <2>2. WorkersOK' /\ PutsOK' /\ SessionsOK'
    BY <1>1, AbortOK DEF Cancel, SessionsOK, backendVars
  <2> QED BY <2>1, <2>2
<1>2. ASSUME NEW s \in Submission, Submit(s) PROVE PageInv'
  <2>1. FieldsOK' /\ PartsOK'
    BY <1>2 DEF Submit, FieldsOK, PartsOK, backendVars, Waiting
  <2>2. \A t \in Submission : at'[t] \in {"none", "initiate"} => session'[t] = "none"
    BY <1>2 DEF Submit, FieldsOK, SessionsOK, backendVars
  <2>3. WorkersOK' /\ PutsOK' /\ SessionsOK'
    BY <1>2, <2>2, WorkersStand DEF Submit, backendVars
  <2> QED BY <2>1, <2>3
<1>3. ASSUME NEW s \in Submission, Answer(s) PROVE PageInv'
  BY <1>3, AnswerOK
<1>4. ASSUME NEW s \in Submission, NEW w \in Worker, WorkerStep(s, w) PROVE PageInv'
  BY <1>4, WorkerStepOK
<1>5. CASE UNCHANGED vars
  <2>1. FieldsOK' /\ PartsOK'
    BY <1>5 DEF vars, viewVars, refVars, submitVars, backendVars, historyVars, FieldsOK, PartsOK
  <2>2. WorkersOK' /\ PutsOK' /\ SessionsOK'
    BY <1>5, WorkersStand
       DEF vars, viewVars, refVars, submitVars, backendVars, historyVars, SessionsOK
  <2> QED BY <2>1, <2>2
<1> QED
  BY <1>1, <1>2, <1>3, <1>4, <1>5 DEF Next, Reaction

LEMMA PageInit == Init => PageInv
<1> SUFFICES ASSUME Init PROVE PageInv
  OBVIOUS
<1>1. FieldsOK
  <2>1. failures \in 0..MaxFaults
    BY PageFaultsAssumption DEF Init
  <2>2. /\ at \in [Submission -> {"none"}] /\ deletes \in [Submission -> {"none"}]
        /\ session \in [Submission -> {"none"}] /\ cancelled \in [Submission -> {"no"}]
    BY DEF Init
  <2> QED BY <2>1, <2>2 DEF Init, FieldsOK
<1>2. PartsOK
  BY PartCountType DEF Init, PartsOK
<1>3. WorkersOK
  BY IdleOK DEF Init, WorkersOK
<1>4. PutsOK /\ SessionsOK
  BY DEF Init, PutsOK, SessionsOK, Idle
<1> QED
  BY <1>1, <1>2, <1>3, <1>4 DEF PageInv

LEMMA PageCorrect == Spec => []PageInv
  BY PageInit, PageStep, PTL DEF Spec

\* The page, its submissions and the sessions keep their shapes, whatever is
\* submitted, cancelled or failing: running XHRs are PUTs of workers in a session.
THEOREM TypeCorrect == Spec => []TypeOK
  BY PageCorrect, PageInvType, PTL

-----------------------------------------------------------------------------
(* Nobody sends to evidence.                                               *)

\* A submission finalizes its session when all its workers have returned, and none
\* of them is started again, also when the answer to that request is lost.
QuietInv ==
  \A s \in Submission :
    at[s] \in {"complete", "refused", "accepted", "done"} \/ session[s] = "completed"
      => AllReturned(s)

\* Workers that have returned are not reached by an abort.
LEMMA AbortKeepsReturned ==
  ASSUME PageInv, worker' = Abort(activeXhrs), NEW s \in Submission, AllReturned(s)
  PROVE  AllReturned(s)'
<1>1. \A w \in Worker : \/ worker[s][w].at = "put" /\ worker'[s][w].at = "aborted"
                        \/ worker'[s][w] = worker[s][w]
  BY AbortMoves
<1> QED
  BY <1>1 DEF AllReturned

\* Steps that start no worker and finalize nothing.
LEMMA QuietKept ==
  ASSUME PageInv, QuietInv, UNCHANGED worker \/ worker' = Abort(activeXhrs),
         \A s \in Submission :
           \/ at'[s] \notin {"complete", "refused", "accepted", "done"}
           \/ at[s] \in {"complete", "refused", "accepted", "done"}
           \/ AllReturned(s),
         \A s \in Submission : session'[s] = "completed"
           => session[s] = "completed" \/ at[s] = "complete"
  PROVE  QuietInv'
<1> SUFFICES ASSUME NEW s \in Submission,
                    \/ at'[s] \in {"complete", "refused", "accepted", "done"}
                    \/ session'[s] = "completed"
             PROVE  AllReturned(s)'
  BY DEF QuietInv
<1>1. AllReturned(s)
  BY DEF QuietInv
<1>2. CASE UNCHANGED worker
  BY <1>1, <1>2 DEF AllReturned
<1>3. CASE worker' = Abort(activeXhrs)
  BY <1>1, <1>3, AbortKeepsReturned
<1> QED
  BY <1>2, <1>3

LEMMA QuietAnswer ==
  ASSUME PageInv, QuietInv, NEW s \in Submission, Answer(s)
  PROVE  QuietInv'
<1>0. /\ at \in [Submission -> {"none", "done", "failed"} \cup Waiting]
      /\ session \in [Submission -> {"none", "open", "aborted", "completed"}]
  BY DEF PageInv, FieldsOK
<1>1. CASE Initiated(s)
  <2>1. at'[s] = "upload" /\ session'[s] = "open"
    BY <1>0, <1>1 DEF Initiated
  <2>2. ASSUME NEW t \in Submission \ {s}
        PROVE  at'[t] = at[t] /\ session'[t] = session[t] /\ worker'[t] = worker[t]
    BY <1>0, <1>1 DEF Initiated, PageInv, WorkersOK
  <2> QED BY <2>1, <2>2 DEF QuietInv, AllReturned
<1>2. CASE InitiateFails(s) \/ CompleteFails(s)
  <2>1. worker' = Abort(activeXhrs)
    BY <1>2 DEF InitiateFails, CompleteFails, Fail
  <2>2. at' = [at EXCEPT ![s] = "failed"]
    BY <1>2 DEF InitiateFails, CompleteFails, Fail
  <2>3. session' \in {session, [session EXCEPT ![s] = "open"]}
    BY <1>2 DEF InitiateFails, CompleteFails, backendVars
  <2> QED BY <1>0, <2>1, <2>2, <2>3, QuietKept
<1>3. CASE LeaveUpload(s)
  <2>1. session' = session
    BY <1>3 DEF LeaveUpload, backendVars
  <2>2. CASE Fail(s)
    BY <1>0, <2>1, <2>2, QuietKept DEF Fail
  <2>3. CASE ~Fail(s)
    <3>1. at' = [at EXCEPT ![s] = "complete"] /\ UNCHANGED worker /\ AllReturned(s)
      BY <1>3, <2>3 DEF LeaveUpload, Settled
    <3> QED BY <1>0, <2>1, <3>1, QuietKept
  <2> QED BY <2>2, <2>3
<1>4. CASE ServeComplete(s)
  <2>1. /\ at[s] = "complete" /\ UNCHANGED worker
        /\ session' \in {session, [session EXCEPT ![s] = "completed"]}
        /\ at' \in {[at EXCEPT ![s] = "accepted"], [at EXCEPT ![s] = "refused"]}
    BY <1>4 DEF ServeComplete
  <2> QED BY <1>0, <2>1, QuietKept
<1>5. CASE Completed(s)
  <2>1. /\ at[s] = "accepted" /\ at' = [at EXCEPT ![s] = "done"]
        /\ UNCHANGED <<worker, session>>
    BY <1>5 DEF Completed, backendVars
  <2> QED BY <1>0, <2>1, QuietKept
<1>6. CASE ServeDelete(s)
  <2>1. /\ UNCHANGED <<worker, at>>
        /\ session' \in {session, [session EXCEPT ![s] = "aborted"]}
    BY <1>6 DEF ServeDelete, submitVars
  <2> QED BY <1>0, <2>1, QuietKept
<1>7. CASE Deleted(s)
  <2>1. UNCHANGED <<worker, at, session>>
    BY <1>7 DEF Deleted, submitVars, backendVars
  <2> QED BY <2>1, QuietKept
<1> QED
  BY <1>1, <1>2, <1>3, <1>4, <1>5, <1>6, <1>7 DEF Answer

LEMMA QuietStep == PageInv /\ QuietInv /\ [Next]_vars => QuietInv'
<1> SUFFICES ASSUME PageInv, QuietInv, [Next]_vars PROVE QuietInv'
  OBVIOUS
<1>1. CASE Cancel
  BY <1>1, QuietKept DEF Cancel, backendVars
<1>2. ASSUME NEW s \in Submission, Submit(s) PROVE QuietInv'
  <2>1. at' = [at EXCEPT ![s] = "initiate"] /\ UNCHANGED <<worker, session>>
    BY <1>2 DEF Submit, backendVars
  <2> QED BY <2>1, QuietKept DEF PageInv, FieldsOK
<1>3. ASSUME NEW s \in Submission, Answer(s) PROVE QuietInv'
  BY <1>3, QuietAnswer
<1>4. ASSUME NEW s \in Submission, NEW w \in Worker, WorkerStep(s, w) PROVE QuietInv'
  <2>1. PICK k : worker' = [worker EXCEPT ![s][w] = k]
    BY <1>4 DEF WorkerStep, Presigned, PartStored, PartRecorded, RequestFails, HandleAbort,
       WorkerGoes
  <2>2. UNCHANGED <<at, session>> /\ worker[s][w].at \in AtWork
    BY <1>4 DEF WorkerStep, Presigned, PartStored, PartRecorded, RequestFails, HandleAbort,
       WorkerGoes, AtWork, backendVars
  <2>3. ~AllReturned(s)
    BY <2>2 DEF AllReturned, AtWork
  <2>4. \A t \in Submission \ {s} : worker'[t] = worker[t]
    BY <2>1 DEF PageInv, WorkersOK
  <2> QED BY <2>2, <2>3, <2>4 DEF QuietInv, AllReturned
<1>5. CASE UNCHANGED vars
  BY <1>5, QuietKept DEF vars, submitVars, backendVars
<1> QED
  BY <1>1, <1>2, <1>3, <1>4, <1>5 DEF Next, Reaction

\* A session becomes evidence only when no part worker of the page is still sending
\* to it, not even one that outlived its submission.
THEOREM QuietEvidence == Spec => []CompletedIsQuiet
<1>1. Init => QuietInv
  BY DEF Init, QuietInv
<1>2. QuietInv => CompletedIsQuiet
  BY DEF QuietInv, CompletedIsQuiet, AllReturned
<1> QED
  BY <1>1, <1>2, QuietStep, PageCorrect, PTL DEF Spec

-----------------------------------------------------------------------------
(* A cancellation holds.                                                   *)

\* The refs belong to a clean submission while it is live: no other call is pending
\* that could take back the flag or wipe the upload id, and once the session is
\* known the button names it.  Only a live submission can be named by the button,
\* so a DELETE follows a cancellation.
RefsInv ==
  /\ submitting /\ activeUpload # 0 => Live(activeUpload)
  /\ \A s \in Submission : /\ deletes[s] # "none" => cancelled[s] # "no"
                           /\ at[s] = "none" => cancelled[s] = "no"
                           /\ session[s] = "completed"
                                => at[s] \notin {"none", "initiate", "upload"}
  /\ \A s \in clean : at[s] # "none"
  /\ \A s \in clean : Live(s) =>
       /\ \A t \in Submission \ {s} : ~Live(t) /\ ~Pending(t)
       /\ at[s] = "upload" /\ cancelled[s] = "no" => activeUpload = s
       /\ cancelled[s] \in {"initiate", "upload"} => cancelRequested

CancelInv == RefsInv /\ CancelHolds

\* A step of one submission, of which others only see the refs.
LEMMA AnswerKeepsCancel ==
  ASSUME PageInv, CancelInv, NEW s \in Submission, Answer(s)
  PROVE  CancelInv'
<1> USE DEF PageInv, FieldsOK, CancelInv, RefsInv, CancelHolds, Live, Pending, Waiting
<1>0. /\ at \in [Submission -> {"none", "done", "failed"} \cup Waiting]
      /\ session \in [Submission -> {"none", "open", "aborted", "completed"}]
      /\ deletes \in [Submission -> {"none", "sent", "served", "answered"}]
      /\ 0 \notin Submission
  BY DEF Submission
<1>1. CASE Initiated(s)
  <2>1. /\ at[s] = "initiate" /\ at' = [at EXCEPT ![s] = "upload"]
        /\ session' = [session EXCEPT ![s] = "open"] /\ activeUpload' = s
        /\ UNCHANGED <<submitting, cancelRequested, deletes, clean, cancelled>>
    BY <1>1 DEF Initiated, historyVars
  <2>2. \A t \in clean : Live(t) => t = s
    BY <2>1
  <2> QED BY <1>0, <2>1, <2>2
<1>2. CASE Fail(s) /\ UNCHANGED <<deletes, clean, cancelled>>
           /\ session' \in {session, [session EXCEPT ![s] = "open"]}
           /\ at[s] \in Waiting
  <2>1. /\ at' = [at EXCEPT ![s] = "failed"] /\ submitting' = FALSE
        /\ UNCHANGED <<activeUpload, deletes, clean, cancelled>>
    BY <1>2 DEF Fail, Finally
  <2>2. \A t \in clean : Live(t) => t = s
    BY <1>2
  <2>3. \A t \in clean : ~Live(t)'
    BY <1>0, <2>1, <2>2
  <2>4. \A t \in Submission : session'[t] = "completed" => session[t] = "completed"
    BY <1>0, <1>2
  <2>5. RefsInv'
    BY <1>0, <2>1, <2>3, <2>4
  <2>6. CancelHolds'
    BY <1>0, <2>1, <2>4
  <2> QED BY <2>5, <2>6
<1>3. CASE LeaveUpload(s)
  <2>1. CASE Fail(s)
    BY <1>2, <1>3, <2>1 DEF LeaveUpload, Settled, backendVars, historyVars
  <2>2. CASE ~Fail(s)
    <3>1. /\ at[s] = "upload" /\ at' = [at EXCEPT ![s] = "complete"] /\ ~cancelRequested
          /\ UNCHANGED <<submitting, cancelRequested, activeUpload, session, deletes, clean,
                         cancelled>>
      BY <1>3, <2>2 DEF LeaveUpload, Settled, refVars, backendVars, historyVars
    <3>2. s \in clean => cancelled[s] \notin {"initiate", "upload"}
      BY <3>1
    <3> QED BY <1>0, <3>1, <3>2
  <2> QED BY <2>1, <2>2
<1>4. CASE ServeComplete(s)
  <2>1. /\ at[s] = "complete"
        /\ session' \in {session, [session EXCEPT ![s] = "completed"]}
        /\ at' \in {[at EXCEPT ![s] = "accepted"], [at EXCEPT ![s] = "refused"]}
        /\ UNCHANGED <<submitting, cancelRequested, activeUpload, deletes, clean, cancelled>>
    BY <1>4 DEF ServeComplete, viewVars, refVars, historyVars
  <2>2. s \in clean => cancelled[s] \notin {"initiate", "upload"}
    BY <2>1
  <2> QED BY <1>0, <2>1, <2>2
<1>5. CASE Completed(s)
  <2>1. /\ at[s] = "accepted" /\ at' = [at EXCEPT ![s] = "done"] /\ submitting' = FALSE
        /\ UNCHANGED <<session, deletes, clean, cancelled>>
    BY <1>5 DEF Completed, Finally, backendVars, historyVars
  <2>2. s \in clean => cancelled[s] \notin {"initiate", "upload"}
    BY <2>1
  <2>3. \A t \in clean : ~Live(t)'
    BY <1>0, <2>1
  <2>4. RefsInv'
    BY <1>0, <2>1, <2>3
  <2>5. CancelHolds'
    BY <1>0, <2>1, <2>2
  <2> QED BY <2>4, <2>5
<1>6. CASE ServeDelete(s)
  <2>1. /\ deletes[s] = "sent" /\ deletes' = [deletes EXCEPT ![s] = "served"]
        /\ session' \in {session, [session EXCEPT ![s] = "aborted"]}
        /\ UNCHANGED <<at, submitting, cancelRequested, activeUpload, clean, cancelled>>
    BY <1>6 DEF ServeDelete, viewVars, refVars, submitVars, historyVars
  <2> QED BY <1>0, <2>1
<1>7. CASE Deleted(s)
  <2>1. /\ deletes[s] = "served" /\ deletes' = [deletes EXCEPT ![s] = "answered"]
        /\ submitting' = FALSE /\ activeUpload' = 0
        /\ UNCHANGED <<at, session, cancelRequested, clean, cancelled>>
    BY <1>7 DEF Deleted, submitVars, backendVars, historyVars
  <2>2. \A t \in clean : Live(t) /\ at[t] = "upload" => cancelled[t] # "no"
    BY <2>1
  <2> QED BY <1>0, <2>1, <2>2
<1>8. CASE InitiateFails(s)
  BY <1>2, <1>8 DEF InitiateFails, historyVars
<1>9. CASE CompleteFails(s)
  BY <1>2, <1>9 DEF CompleteFails, backendVars, historyVars
<1> QED
  BY <1>1, <1>3, <1>4, <1>5, <1>6, <1>7, <1>8, <1>9 DEF Answer

LEMMA CancelStep == PageInv /\ CancelInv /\ [Next]_vars => CancelInv'
<1> SUFFICES ASSUME PageInv, CancelInv, [Next]_vars PROVE CancelInv'
  OBVIOUS
<1> USE DEF PageInv, FieldsOK, CancelInv, RefsInv, CancelHolds, Live, Pending, Waiting
<1>0. /\ at \in [Submission -> {"none", "done", "failed"} \cup Waiting]
      /\ deletes \in [Submission -> {"none", "sent", "served", "answered"}]
      /\ cancelled \in [Submission -> {"no"} \cup Waiting]
      /\ 0 \notin Submission /\ clean \subseteq Submission
  BY DEF Submission
<1>1. CASE Cancel
  <2>1. /\ submitting /\ cancelRequested' = TRUE
        /\ UNCHANGED <<activeUpload, at, session, clean>>
    BY <1>1 DEF Cancel, backendVars
  <2>2. /\ deletes' = [s \in Submission |-> IF activeUpload = s THEN "sent" ELSE deletes[s]]
        /\ cancelled' = [s \in Submission |-> IF Live(s) /\ cancelled[s] = "no"
                                              THEN at[s] ELSE cancelled[s]]
    BY <1>1 DEF Cancel
  <2>3. \A s \in Submission : deletes'[s] # "none" => cancelled'[s] # "no"
    BY <1>0, <2>1, <2>2
  <2>4. \A s \in Submission : at'[s] = "none" => cancelled'[s] = "no"
    BY <1>0, <2>1, <2>2
  <2>5. ASSUME NEW s \in clean, Live(s)
        PROVE  /\ \A t \in Submission \ {s} : ~Live(t)' /\ ~Pending(t)'
               /\ cancelled'[s] # "no"
               /\ cancelled'[s] = "upload" => deletes'[s] # "none"
    <3>1. \A t \in Submission \ {s} : ~Live(t) /\ ~Pending(t) /\ activeUpload # t
      BY <1>0, <2>1, <2>5
    <3>2. cancelled[s] = "no" /\ at[s] = "upload" => activeUpload = s
      BY <2>5
    <3>3. cancelled[s] = "upload" => deletes[s] # "none"
      OBVIOUS
    <3> QED BY <1>0, <2>1, <2>2, <2>5, <3>1, <3>2, <3>3
  <2>6. RefsInv'
    BY <1>0, <2>1, <2>3, <2>4, <2>5
  <2>7. CancelHolds'
    BY <1>0, <2>1, <2>2, <2>5
  <2> QED BY <2>6, <2>7
<1>2. ASSUME NEW s \in Submission, Submit(s) PROVE CancelInv'
  <2>1. /\ at[s] = "none" /\ at' = [at EXCEPT ![s] = "initiate"] /\ activeUpload' = 0
        /\ UNCHANGED <<session, deletes, cancelled>>
        /\ clean' = {r \in clean : Ended(r)} \cup
             IF \E r \in Submission : Live(r) \/ Pending(r) THEN {} ELSE {s}
    BY <1>2 DEF Submit, backendVars
  <2>2. ASSUME NEW t \in clean'
        PROVE  \/ t \in clean /\ t # s /\ at'[t] = at[t] /\ ~Live(t)'
               \/ /\ t = s /\ at'[s] = "initiate" /\ cancelled'[s] = "no"
                  /\ \A r \in Submission \ {s} : ~Live(r)' /\ ~Pending(r)'
    BY <1>0, <2>1 DEF Ended
  <2>3. RefsInv'
    BY <1>0, <2>1, <2>2
  <2>4. CancelHolds'
    BY <1>0, <2>1, <2>2
  <2> QED BY <2>3, <2>4
<1>3. ASSUME NEW s \in Submission, Answer(s) PROVE CancelInv'
  BY <1>3, AnswerKeepsCancel
<1>4. ASSUME NEW s \in Submission, NEW w \in Worker, WorkerStep(s, w) PROVE CancelInv'
  <2>1. UNCHANGED <<submitting, cancelRequested, activeUpload, at, session, deletes, clean,
                    cancelled>>
    BY <1>4 DEF WorkerStep, Presigned, PartStored, PartRecorded, RequestFails, HandleAbort,
       WorkerGoes, refVars, backendVars, historyVars
  <2> QED BY <2>1
<1>5. CASE UNCHANGED vars
  BY <1>5 DEF vars, viewVars, refVars, submitVars, backendVars, historyVars
<1> QED
  BY <1>1, <1>2, <1>3, <1>4, <1>5 DEF Next, Reaction

\* A cancelled submission whose refs nobody else took over never becomes evidence,
\* and the backend is asked to abort its session once the page knows it.
THEOREM CancelKept == Spec => []CancelHolds
<1>1. Init => CancelInv
  BY DEF Init, CancelInv, RefsInv, CancelHolds
<1>2. CancelInv => CancelHolds
  BY DEF CancelInv
<1> QED
  BY <1>1, <1>2, CancelStep, PageCorrect, PTL DEF Spec

=============================================================================
