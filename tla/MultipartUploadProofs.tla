----------------------- MODULE MultipartUploadProofs -----------------------
(***************************************************************************)
(* Theorems about MultipartUpload for any number of parts and threads, any *)
(* number of concurrent records, and any kinds of faults.                  *)
(***************************************************************************)
EXTENDS MultipartUpload, FiniteSetTheorems, TLAPS

USE DEF Content, Recorded, Recording, Completing, Step, AfterS3Completion,
        SizeAsDeclared, AfterBadObject, AbortedUpload, DirIsEmpty, WithPart

\* The first part number, which an idle thread's local holds, is a part, and a
\* manifest without parts is well formed.
LEMMA Defaults == (CHOOSE p \in Part : TRUE) \in Part /\ NoParts \in Recorded
<1>1. \E p \in Part : TRUE
  BY PartAssumption
<1> QED
  BY <1>1 DEF NoParts

\* The size of a manifest is a natural number.
LEMMA SizeType == ASSUME NEW m \in Recorded PROVE Size(m) \in Nat
<1>1. IsFiniteSet({p \in Part : m[p] # "none"})
  BY PartAssumption, FS_Subset
<1> QED
  BY <1>1, FS_CardinalityType DEF Size

\* An unlinked file, a truncated one, and what a write leaves of it.
LEMMA FileForms ==
  /\ FileOK(Absent) /\ ~Absent.exists
  /\ FileOK(Truncated) /\ Truncated.exists
  /\ Size(NoParts) = 0
  /\ FileOK(File(NoParts, 0, TRUE)) /\ File(NoParts, 0, TRUE).exists
<1>1. {p \in Part : NoParts[p] # "none"} = {}
  BY DEF NoParts
<1>2. Size(NoParts) = 0
  BY <1>1, FS_EmptySet DEF Size
<1> QED
  BY <1>2, Defaults DEF FileOK, Absent, Truncated, File

LEMMA WrittenFile ==
  ASSUME NEW f, FileOK(f), NEW m \in Recorded
  PROVE  FileOK(Over(f, m)) /\ Over(f, m).exists
<1>1. Size(m) \in Nat /\ f.size \in Nat
  BY SizeType DEF FileOK
<1>2. CASE f.size <= Size(m)
  <2>1. Over(f, m) = [exists |-> TRUE, parts |-> m, size |-> Size(m), json |-> TRUE]
    BY <1>2 DEF Over, File
  <2> QED BY <1>1, <2>1 DEF FileOK
<1>3. CASE ~(f.size <= Size(m))
  <2>1. Over(f, m) = [exists |-> TRUE, parts |-> NoParts, size |-> f.size, json |-> FALSE]
    BY <1>3 DEF Over, File
  <2> QED BY <1>1, <2>1, Defaults DEF FileOK
<1> QED
  BY <1>2, <1>3

\* How a step moves its thread.
LEMMA GotoOK ==
  ASSUME ThreadOK, NEW t \in Thread, NEW next \in Step \ {"write"}, Goto(t, next),
         pc[t] # "write"
  PROVE  ThreadOK' /\ handle' = handle
  BY DEF ThreadOK, Goto

LEMMA FinishOK ==
  ASSUME ThreadOK, NEW t \in Thread, Finish(t)
  PROVE  ThreadOK' /\ handle' = [handle EXCEPT ![t] = "none"]
  BY Defaults DEF ThreadOK, Finish

LEMMA EndOK ==
  ASSUME ThreadOK, NEW t \in Thread, NEW next \in Step \ {"write"}, End(t, next),
         pc[t] # "write"
  PROVE  ThreadOK' /\ handle' = handle
<1>1. CASE next = "idle"
  <2>1. Finish(t)
    BY <1>1 DEF End
  <2>2. handle[t] = "none"
    BY DEF ThreadOK
  <2> QED BY <2>1, <2>2, FinishOK DEF ThreadOK
<1>2. CASE next # "idle"
  BY <1>2, GotoOK DEF End
<1> QED BY <1>1, <1>2

LEMMA UploadTypeInit == Init => TypeOK
  BY Defaults, FileForms DEF Init, TypeOK, ThreadOK, FilesOK, StoreOK, HistoryOK

-----------------------------------------------------------------------------
LEMMA UploadTypeStep == TypeOK /\ [Next]_vars => TypeOK'
<1> SUFFICES ASSUME TypeOK, [Next]_vars PROVE TypeOK'
  OBVIOUS
<1> USE DEF TypeOK, clientVars, fileVars, s3Vars, historyVars
<1>1. ASSUME NEW t \in Thread, Arrive(t) PROVE TypeOK'
  <2>1. pc[t] = "idle" /\ handle[t] = "none"
    BY <1>1 DEF Arrive, ThreadOK
  <2>2. CASE CreateUpload(t)
    <3>1. PICK way \in Ways("storage") :
            /\ upload' = IF Effect(way) THEN "open" ELSE "none"
            /\ Goto(t, IF way = "done" THEN "mkdir" ELSE "idle")
      BY <2>2 DEF CreateUpload
    <3>2. ThreadOK' /\ handle' = handle
      BY <2>1, <3>1, GotoOK
    <3> QED BY <2>2, <3>1, <3>2 DEF CreateUpload, FilesOK, StoreOK, HistoryOK
  <2>3. CASE \E p \in Part : RecordLoad(t, p)
    <3>1. PICK p \in Part : RecordLoad(t, p)
      BY <2>3
    <3>2. [manifest.parts EXCEPT ![p] = uploaded[p]] \in Recorded
      BY <3>1 DEF FilesOK, FileOK, StoreOK
    <3>3. ThreadOK'
      BY <2>1, <3>1, <3>2 DEF ThreadOK, RecordLoad
    <3> QED BY <3>1, <3>3 DEF RecordLoad, FilesOK, StoreOK, HistoryOK
  <2>4. CASE CompleteLoad(t)
    <3>1. ThreadOK'
      BY <2>1, <2>4 DEF ThreadOK, CompleteLoad, FilesOK, FileOK
    <3> QED BY <2>4, <3>1 DEF CompleteLoad, FilesOK, StoreOK, HistoryOK
  <2>5. CASE AbortLoad(t)
    <3>1. ThreadOK' /\ handle' = handle
      BY <2>1, <2>5, GotoOK DEF AbortLoad
    <3> QED BY <2>5, <3>1 DEF AbortLoad, FilesOK, StoreOK, HistoryOK
  <2>6. CASE Cleanup(t)
    <3>1. ThreadOK' /\ handle' = handle
      BY <2>1, <2>6, GotoOK DEF Cleanup
    <3> QED BY <2>6, <3>1 DEF Cleanup, FilesOK, StoreOK, HistoryOK
  <2> QED BY <1>1, <2>2, <2>3, <2>4, <2>5, <2>6 DEF Arrive
<1>2. ASSUME NEW t \in Thread, Continue(t) PROVE TypeOK'
  <2>1. CASE WriteFirstManifest(t)
    <3>1. ThreadOK' /\ handle' = handle
      BY <2>1, GotoOK DEF WriteFirstManifest
    <3>2. FilesOK'
      BY <2>1, <3>1, FileForms DEF WriteFirstManifest, FilesOK
    <3> QED BY <2>1, <3>1, <3>2 DEF WriteFirstManifest, StoreOK, HistoryOK
  <2>2. CASE DiscardUpload(t)
    <3>1. ThreadOK' /\ handle' = handle
      BY <2>2, GotoOK DEF DiscardUpload
    <3> QED BY <2>2, <3>1 DEF DiscardUpload, FilesOK, StoreOK, HistoryOK
  <2>3. CASE RecordOpen(t)
    <3>1. CASE dir
      <4>1. ThreadOK'
        BY <2>3, <3>1 DEF RecordOpen, ThreadOK
      <4>2. FilesOK'
        BY <2>3, <3>1, FileForms DEF RecordOpen, FilesOK, ThreadOK
      <4> QED BY <2>3, <4>1, <4>2 DEF RecordOpen, StoreOK, HistoryOK
    <3>2. CASE ~dir
      <4>1. Finish(t) /\ UNCHANGED temp
        BY <2>3, <3>2 DEF RecordOpen
      <4>2. ThreadOK' /\ handle' = [handle EXCEPT ![t] = "none"]
        BY <4>1, FinishOK
      <4>3. FilesOK'
        BY <2>3, <4>1, <4>2 DEF RecordOpen, FilesOK, ThreadOK
      <4> QED BY <2>3, <4>2, <4>3 DEF RecordOpen, StoreOK, HistoryOK
    <3> QED BY <3>1, <3>2 DEF FilesOK
  <2>4. CASE RecordWrite(t)
    <3>1. ThreadOK'
      BY <2>4 DEF RecordWrite, ThreadOK
    <3>2. parts[t] \in Recorded
      BY DEF ThreadOK
    <3>3. FilesOK'
      BY <2>4, <3>2, WrittenFile DEF RecordWrite, FilesOK, ThreadOK
    <3> QED BY <2>4, <3>1, <3>3 DEF RecordWrite, StoreOK, HistoryOK
  <2>5. CASE RecordReplace(t)
    <3>1. CASE temp.exists
      <4>1. ThreadOK'
        <5>1. handle' \in [Thread -> {"none", "temp", "manifest", "unlinked"}]
          BY <2>5, <3>1 DEF RecordReplace, ThreadOK, Renamed
        <5>2. \A u \in Thread : handle'[u] = "none" <=> handle[u] = "none"
          BY <2>5, <3>1 DEF RecordReplace, ThreadOK, Renamed
        <5>3. handle[t] = "none"
          BY <2>5 DEF RecordReplace, ThreadOK
        <5>4. /\ pc' = [pc EXCEPT ![t] = "idle"]
              /\ part' = [part EXCEPT ![t] = CHOOSE p \in Part : TRUE]
              /\ parts' = [parts EXCEPT ![t] = NoParts]
          BY <2>5, <3>1 DEF RecordReplace
        <5>5. pc' \in [Thread -> Step]
          BY <5>4 DEF ThreadOK
        <5>6. part' \in [Thread -> Part] /\ parts' \in [Thread -> Recorded]
          BY <5>4, Defaults DEF ThreadOK
        <5>7. \A u \in Thread : handle'[u] = "none" <=> pc'[u] # "write"
          BY <5>2, <5>3, <5>4 DEF ThreadOK
        <5> QED
          BY <5>1, <5>5, <5>6, <5>7 DEF ThreadOK
      <4>2. FilesOK'
        BY <2>5, <3>1, FileForms DEF RecordReplace, FilesOK, ThreadOK, Renamed
      <4>3. HistoryOK'
        BY <2>5, <3>1 DEF RecordReplace, HistoryOK, ThreadOK
      <4> QED BY <2>5, <4>1, <4>2, <4>3 DEF RecordReplace, StoreOK
    <3>2. CASE ~temp.exists
      <4>1. Finish(t) /\ UNCHANGED <<manifest, temp, answered>>
        BY <2>5, <3>2 DEF RecordReplace
      <4>2. ThreadOK' /\ handle' = [handle EXCEPT ![t] = "none"]
        BY <4>1, FinishOK
      <4>3. FilesOK'
        BY <2>5, <4>1, <4>2 DEF RecordReplace, FilesOK, ThreadOK
      <4> QED BY <2>5, <4>1, <4>2, <4>3 DEF RecordReplace, StoreOK, HistoryOK
    <3> QED BY <3>1, <3>2
  <2>6. CASE CompleteUpload(t)
    <3>1. ThreadOK' /\ handle' = handle
      BY <2>6, GotoOK, EndOK DEF CompleteUpload
    <3> QED BY <2>6, <3>1 DEF CompleteUpload, FilesOK, StoreOK, HistoryOK
  <2>7. CASE HashObject(t)
    <3>1. ThreadOK' /\ handle' = handle
      BY <2>7, GotoOK, EndOK DEF HashObject
    <3> QED BY <2>7, <3>1 DEF HashObject, FilesOK, StoreOK, HistoryOK
  <2>8. CASE CommitEvidence(t)
    <3>1. ThreadOK' /\ handle' = handle
      BY <2>8, GotoOK DEF CommitEvidence
    <3> QED BY <2>8, <3>1 DEF CommitEvidence, FilesOK, StoreOK, HistoryOK
  <2>9. CASE RefreshEvidence(t)
    <3>1. ThreadOK' /\ handle' = handle
      BY <2>9, GotoOK DEF RefreshEvidence
    <3> QED BY <2>9, <3>1 DEF RefreshEvidence, FilesOK, StoreOK, HistoryOK
  <2>10. CASE DeleteObject(t)
    <3>1. ThreadOK' /\ handle' = [handle EXCEPT ![t] = "none"]
      BY <2>10, FinishOK DEF DeleteObject
    <3>2. FilesOK'
      BY <2>10, <3>1 DEF DeleteObject, FilesOK, ThreadOK
    <3> QED BY <2>10, <3>1, <3>2 DEF DeleteObject, StoreOK, HistoryOK
  <2>11. CASE AbortUpload(t)
    <3>1. ThreadOK' /\ handle' = handle
      BY <2>11, GotoOK DEF AbortUpload
    <3> QED BY <2>11, <3>1 DEF AbortUpload, FilesOK, StoreOK, HistoryOK
  <2>12. CASE Unlink(t)
    <3>1. ThreadOK'
      BY <2>12 DEF Unlink, ThreadOK
    <3>2. FilesOK'
      BY <2>12, FileForms DEF Unlink, FilesOK
    <3> QED BY <2>12, <3>1, <3>2 DEF Unlink, StoreOK, HistoryOK
  <2>13. CASE RemoveDir(t)
    <3>1. ThreadOK' /\ handle' = [handle EXCEPT ![t] = "none"]
      BY <2>13, FinishOK DEF RemoveDir
    <3>2. FilesOK'
      BY <2>13, <3>1 DEF RemoveDir, FilesOK, ThreadOK
    <3> QED BY <2>13, <3>1, <3>2 DEF RemoveDir, StoreOK, HistoryOK
  <2> QED BY <1>2, <2>1, <2>2, <2>3, <2>4, <2>5, <2>6, <2>7, <2>8, <2>9, <2>10,
             <2>11, <2>12, <2>13 DEF Continue
<1>3. ASSUME NEW p \in Part, Presign(p) \/ PutPart(p) PROVE TypeOK'
  <2>1. CASE Presign(p)
    BY <2>1 DEF Presign, threadVars, ThreadOK, FilesOK, StoreOK, HistoryOK
  <2>2. CASE PutPart(p)
    <3>1. StoreOK'
      BY <2>2 DEF PutPart, StoreOK
    <3> QED BY <2>2, <3>1 DEF PutPart, threadVars, ThreadOK, FilesOK, HistoryOK
  <2> QED BY <1>3, <2>1, <2>2
<1>4. CASE Expire
  BY <1>4 DEF Expire, threadVars, ThreadOK, FilesOK, StoreOK, HistoryOK
<1>5. CASE Crash
  <2>1. ThreadOK'
    BY <1>5, Defaults DEF Crash, ThreadOK
  <2> QED BY <1>5, <2>1 DEF Crash, FilesOK, StoreOK, HistoryOK
<1>6. CASE UNCHANGED vars
  BY <1>6 DEF vars, threadVars, ThreadOK, FilesOK, StoreOK, HistoryOK
<1> QED BY <1>1, <1>2, <1>3, <1>4, <1>5, <1>6 DEF Next

\* Threads, files, S3 and rows keep their shapes, and a writer's handle always
\* names an existing file or an unlinked one.
THEOREM UploadTypeCorrect == Spec => []TypeOK
<1> QED BY UploadTypeInit, UploadTypeStep, PTL DEF Spec

-----------------------------------------------------------------------------
LEMMA SessionInit == Init => SessionInv
  BY DEF Init, SessionInv

\* Nothing but the initiating handler moves while it alone has the session id.
LEMMA SessionStep == TypeOK /\ SessionInv /\ [Next]_vars => SessionInv'
<1> SUFFICES ASSUME TypeOK, SessionInv, [Next]_vars PROVE SessionInv'
  OBVIOUS
<1> USE DEF clientVars, fileVars, s3Vars
<1>1. pc \in [Thread -> Step] /\ (manifest.exists => dir)
  BY DEF TypeOK, ThreadOK, FilesOK
<1>2. ASSUME NEW t \in Thread, CreateUpload(t) PROVE SessionInv'
  <2>1. PICK way \in Ways("storage") :
          /\ upload' = IF Effect(way) THEN "open" ELSE "none"
          /\ Goto(t, IF way = "done" THEN "mkdir" ELSE "idle")
    BY <1>2 DEF CreateUpload
  <2>2. ~started /\ started' /\ ~dir /\ dir' = dir /\ \A u \in Thread : pc[u] = "idle"
    BY <1>2 DEF CreateUpload, SessionInv
  <2>3. way = "done" => upload' = "open"
    BY <2>1 DEF Effect
  <2>4. pc' = [pc EXCEPT ![t] = IF way = "done" THEN "mkdir" ELSE "idle"]
    BY <2>1 DEF Goto
  <2> QED BY <1>1, <2>2, <2>3, <2>4 DEF SessionInv
<1>3. ASSUME dir, UNCHANGED started,
             \A u \in Thread : pc'[u] \in {"mkdir", "discard"} => pc'[u] = pc[u]
      PROVE  SessionInv'
  BY <1>3 DEF SessionInv
<1>4. ASSUME NEW t \in Thread, Arrive(t) PROVE SessionInv'
  <2>1. CASE \E p \in Part : RecordLoad(t, p)
    BY <1>1, <1>3, <2>1 DEF RecordLoad, Active, Readable
  <2>2. CASE CompleteLoad(t)
    BY <1>1, <1>3, <2>2 DEF CompleteLoad, Active, Readable
  <2>3. CASE AbortLoad(t)
    BY <1>1, <1>3, <2>3 DEF AbortLoad, Readable, Goto
  <2>4. CASE Cleanup(t)
    BY <1>1, <1>3, <2>4 DEF Cleanup, Goto
  <2> QED BY <1>2, <1>4, <2>1, <2>2, <2>3, <2>4 DEF Arrive
<1>5. ASSUME NEW t \in Thread, WriteFirstManifest(t) PROVE SessionInv'
  <2>1. /\ started /\ started' /\ upload = "open" /\ upload' = upload
        /\ \A u \in Thread : u # t => pc[u] = "idle"
    BY <1>5 DEF WriteFirstManifest, SessionInv
  <2>2. \/ pc' = [pc EXCEPT ![t] = "idle"]
        \/ pc' = [pc EXCEPT ![t] = "discard"] /\ ~dir'
    BY <1>5 DEF WriteFirstManifest, Goto, SessionInv
  <2> QED BY <1>1, <2>1, <2>2 DEF SessionInv
<1>6. ASSUME NEW t \in Thread, DiscardUpload(t) PROVE SessionInv'
  <2>1. started /\ started' /\ \A u \in Thread : u # t => pc[u] = "idle"
    BY <1>6 DEF DiscardUpload, SessionInv
  <2>2. pc' = [pc EXCEPT ![t] = "idle"]
    BY <1>6 DEF DiscardUpload, Goto
  <2> QED BY <1>1, <2>1, <2>2 DEF SessionInv
<1>7. ASSUME NEW t \in Thread, pc[t] \notin {"idle", "mkdir", "discard"},
             UNCHANGED started,
             NEW next \in Step \ {"mkdir", "discard"}, pc' = [pc EXCEPT ![t] = next]
      PROVE  SessionInv'
  <2>1. started /\ \A u \in Thread : pc[u] \notin {"mkdir", "discard"}
    BY <1>7 DEF SessionInv
  <2> QED BY <1>1, <1>7, <2>1 DEF SessionInv
<1>8. ASSUME NEW t \in Thread, Continue(t) PROVE SessionInv'
  <2>1. CASE RecordOpen(t) \/ RecordWrite(t) \/ RecordReplace(t)
    BY <1>7, <2>1 DEF RecordOpen, RecordWrite, RecordReplace, Finish
  <2>2. CASE CompleteUpload(t) \/ HashObject(t)
    BY <1>7, <2>2 DEF CompleteUpload, HashObject, End, Finish, Goto
  <2>3. CASE CommitEvidence(t) \/ RefreshEvidence(t) \/ DeleteObject(t)
    BY <1>7, <2>3 DEF CommitEvidence, RefreshEvidence, DeleteObject, Finish, Goto
  <2>4. CASE AbortUpload(t) \/ RemoveDir(t)
    BY <1>7, <2>4 DEF AbortUpload, RemoveDir, Finish, Goto
  <2>5. CASE Unlink(t)
    BY <1>7, <2>5 DEF Unlink, Goto
  <2> QED BY <1>5, <1>6, <1>8, <2>1, <2>2, <2>3, <2>4, <2>5 DEF Continue
<1>9. CASE \E p \in Part : Presign(p) \/ PutPart(p)
  BY <1>9 DEF Presign, PutPart, threadVars, SessionInv
<1>10. CASE Expire
  BY <1>10 DEF Expire, threadVars, SessionInv
<1>11. CASE Crash
  <2>1. started
    BY <1>11 DEF Crash, SessionInv
  <2> QED BY <1>11, <2>1 DEF Crash, SessionInv
<1>12. CASE UNCHANGED vars
  BY <1>12 DEF vars, threadVars, SessionInv
<1> QED BY <1>4, <1>8, <1>9, <1>10, <1>11, <1>12 DEF Next

-----------------------------------------------------------------------------
LEMMA CompletionInit == Init => CompletionInv
  BY DEF Init, CompletionInv, EvidenceIntact, NoSilentOrphan

\* What does not touch the upload, the object or the row, and moves no thread
\* into or out of a completion, keeps what completing decided.
LEMMA ElsewhereOK ==
  ASSUME CompletionInv, UNCHANGED <<upload, object, row, cancelled, lateError, orphaned>>,
         \A u \in Thread : pc[u] \in Completing \/ pc'[u] \in Completing => pc'[u] = pc[u]
  PROVE  CompletionInv'
  BY DEF CompletionInv, EvidenceIntact, NoSilentOrphan

\* A request that a completed upload cannot have waiting for it.
LEMMA UncompletedOK ==
  ASSUME CompletionInv, upload # "completed",
         UNCHANGED <<object, row, lateError, orphaned>>,
         cancelled' => upload' = "aborted",
         \A u \in Thread : pc'[u] \in Completing => pc[u] = pc'[u]
  PROVE  CompletionInv'
<1>1. object = "none" /\ ~row /\ \A u \in Thread : pc[u] \notin Completing
  BY DEF CompletionInv
<1>2. \A u \in Thread : pc'[u] \notin Completing
  BY <1>1
<1> QED
  BY <1>1, <1>2 DEF CompletionInv, EvidenceIntact, NoSilentOrphan

\* The steps of the one thread that completes the upload.
LEMMA CompleterOK ==
  ASSUME TypeOK, CompletionInv, NEW t \in Thread,
         \/ HashObject(t) \/ CommitEvidence(t) \/ RefreshEvidence(t) \/ DeleteObject(t)
  PROVE  CompletionInv'
<1> USE DEF clientVars, fileVars, s3Vars, historyVars, EvidenceIntact, NoSilentOrphan
<1>1. pc \in [Thread -> Step]
  BY DEF TypeOK, ThreadOK
<1>2. pc[t] \in Completing
  BY DEF HashObject, CommitEvidence, RefreshEvidence, DeleteObject
<1>3. upload = "completed" /\ \A u \in Thread : u # t => pc[u] \notin Completing
  BY <1>2 DEF CompletionInv
<1>4. ~cancelled
  BY <1>3 DEF CompletionInv
<1>5. CASE HashObject(t)
  <2>1. \/ object = "whole" /\ pc' = [pc EXCEPT ![t] = "commit"]
        \/ pc' = [pc EXCEPT ![t] = "undo"]
    BY <1>5 DEF HashObject, End, Goto
  <2>2. UNCHANGED <<upload, object, row, cancelled, lateError, orphaned>> /\ ~row
    BY <1>5 DEF HashObject, CompletionInv
  <2> QED BY <1>1, <1>2, <1>3, <1>4, <2>1, <2>2 DEF CompletionInv
<1>6. CASE CommitEvidence(t)
  <2>1. object = "whole" /\ ~row
    BY <1>6 DEF CommitEvidence, CompletionInv
  <2>2. \/ row' /\ pc' = [pc EXCEPT ![t] = "refresh"] /\ lateError' = lateError
        \/ row' /\ pc' = [pc EXCEPT ![t] = "undo"] /\ lateError'
        \/ ~row' /\ pc' = [pc EXCEPT ![t] = "undo"] /\ lateError' = lateError
    BY <1>6, <2>1 DEF CommitEvidence, Goto
  <2>3. UNCHANGED <<upload, object, cancelled, orphaned>>
    BY <1>6 DEF CommitEvidence
  <2> QED BY <1>1, <1>2, <1>3, <1>4, <2>1, <2>2, <2>3 DEF CompletionInv
<1>7. CASE RefreshEvidence(t)
  <2>1. row
    BY <1>7 DEF RefreshEvidence, CompletionInv
  <2>2. \/ pc' = [pc EXCEPT ![t] = "unlink"] /\ lateError' = lateError
        \/ pc' = [pc EXCEPT ![t] = "undo"] /\ lateError'
    BY <1>7 DEF RefreshEvidence, Goto
  <2>3. UNCHANGED <<upload, object, row, cancelled, orphaned>>
    BY <1>7 DEF RefreshEvidence
  <2> QED BY <1>1, <1>2, <1>3, <1>4, <2>1, <2>2, <2>3 DEF CompletionInv
<1>8. CASE DeleteObject(t)
  <2>1. ~row \/ lateError
    BY <1>8 DEF DeleteObject, CompletionInv
  <2>2. pc' = [pc EXCEPT ![t] = "idle"]
    BY <1>8 DEF DeleteObject, Finish
  <2>3. UNCHANGED <<upload, row, cancelled, lateError>>
    BY <1>8 DEF DeleteObject
  <2>4. \/ object' = "none" /\ orphaned' = orphaned
        \/ object' = object /\ orphaned'
    BY <1>8 DEF DeleteObject, TypeOK, HistoryOK
  <2> QED BY <1>1, <1>2, <1>3, <1>4, <2>1, <2>2, <2>3, <2>4 DEF CompletionInv
<1> QED BY <1>5, <1>6, <1>7, <1>8

LEMMA CompletionStep ==
  TypeOK /\ SessionInv /\ CompletionInv /\ [Next]_vars => CompletionInv'
<1> SUFFICES ASSUME TypeOK, SessionInv, CompletionInv, [Next]_vars
             PROVE  CompletionInv'
  OBVIOUS
<1> USE DEF clientVars, fileVars, s3Vars, historyVars
<1>1. pc \in [Thread -> Step]
  BY DEF TypeOK, ThreadOK
<1>2. ASSUME NEW t \in Thread, pc[t] \notin Completing,
             NEW next \in Step \ Completing, pc' = [pc EXCEPT ![t] = next],
             UNCHANGED <<upload, object, row, cancelled, lateError, orphaned>>
      PROVE  CompletionInv'
  <2>1. pc'[t] \notin Completing /\ \A u \in Thread : u # t => pc'[u] = pc[u]
    BY <1>1, <1>2
  <2>2. \A u \in Thread : pc[u] \in Completing \/ pc'[u] \in Completing => pc'[u] = pc[u]
    BY <1>2, <2>1
  <2> QED BY <1>2, <2>2, ElsewhereOK
<1>3. ASSUME NEW t \in Thread, Arrive(t) PROVE CompletionInv'
  <2>1. pc[t] = "idle"
    BY <1>3 DEF Arrive
  <2>2. CASE CreateUpload(t)
    <3>1. ~started /\ upload = "none" /\ ~cancelled
      BY <2>2 DEF CreateUpload, SessionInv, CompletionInv
    <3>2. \E next \in {"mkdir", "idle"} : pc' = [pc EXCEPT ![t] = next]
      BY <2>2 DEF CreateUpload, Goto
    <3>3. UNCHANGED <<object, row, cancelled, lateError, orphaned>>
      BY <2>2 DEF CreateUpload
    <3> QED BY <1>1, <3>1, <3>2, <3>3, UncompletedOK
  <2>3. CASE \E p \in Part : RecordLoad(t, p)
    BY <1>2, <2>1, <2>3 DEF RecordLoad
  <2>4. CASE CompleteLoad(t)
    BY <1>2, <2>1, <2>4 DEF CompleteLoad
  <2>5. CASE AbortLoad(t) \/ Cleanup(t)
    BY <1>2, <2>1, <2>5 DEF AbortLoad, Cleanup, Goto
  <2> QED BY <1>3, <2>2, <2>3, <2>4, <2>5 DEF Arrive
<1>4. ASSUME NEW t \in Thread, CompleteUpload(t) PROVE CompletionInv'
  <2>1. CASE upload = "open" /\ upload' = "completed"
    <3>1. object = "none" /\ ~row /\ ~cancelled /\ \A u \in Thread : pc[u] \notin Completing
      BY <2>1 DEF CompletionInv
    <3>2. \/ pc' = [pc EXCEPT ![t] = "hash"] /\ orphaned' = orphaned
          \/ pc' = [pc EXCEPT ![t] = "idle"] /\ orphaned'
          \/ object' = object /\ pc' = [pc EXCEPT ![t] = "idle"] /\ orphaned' = orphaned
      BY <1>4 DEF CompleteUpload, Goto, End, Finish
    <3>3. UNCHANGED <<row, cancelled, lateError>>
      BY <1>4 DEF CompleteUpload
    <3> QED BY <1>1, <2>1, <3>1, <3>2, <3>3 DEF CompletionInv, EvidenceIntact, NoSilentOrphan
  <2>2. CASE ~(upload = "open" /\ upload' = "completed")
    <3>1. UNCHANGED <<upload, object, row, cancelled, lateError, orphaned>>
      BY <1>4, <2>2 DEF CompleteUpload
    <3>2. pc' = [pc EXCEPT ![t] = "idle"] /\ pc[t] = "complete"
      BY <1>4, <2>2 DEF CompleteUpload, End, Finish
    <3> QED BY <1>2, <3>1, <3>2
  <2> QED BY <2>1, <2>2
<1>5. ASSUME NEW t \in Thread, AbortUpload(t) PROVE CompletionInv'
  <2>1. pc[t] = "abort" /\ pc' = [pc EXCEPT ![t] = "unlink"]
    BY <1>5 DEF AbortUpload, Goto
  <2>2. UNCHANGED <<object, row, lateError, orphaned>>
    BY <1>5 DEF AbortUpload
  <2>3. CASE upload = "open"
    <3>1. ~cancelled /\ (cancelled' => upload' = "aborted")
      BY <1>5, <2>3 DEF AbortUpload, CompletionInv, Effect, TypeOK, HistoryOK
    <3> QED BY <1>1, <2>1, <2>2, <2>3, <3>1, UncompletedOK
  <2>4. CASE upload # "open"
    <3>1. UNCHANGED <<upload, cancelled>>
      BY <1>5, <2>4 DEF AbortUpload
    <3> QED BY <1>2, <2>1, <2>2, <3>1
  <2> QED BY <2>3, <2>4
<1>6. ASSUME NEW t \in Thread, DiscardUpload(t) PROVE CompletionInv'
  <2>1. upload = "open" /\ ~cancelled
    BY <1>6 DEF DiscardUpload, SessionInv, CompletionInv
  <2>2. pc' = [pc EXCEPT ![t] = "idle"]
    BY <1>6 DEF DiscardUpload, Goto
  <2>3. UNCHANGED <<object, row, cancelled, lateError, orphaned>>
    BY <1>6 DEF DiscardUpload
  <2> QED BY <1>1, <2>1, <2>2, <2>3, UncompletedOK
<1>7. ASSUME NEW t \in Thread, Continue(t) PROVE CompletionInv'
  <2>1. CASE WriteFirstManifest(t)
    BY <1>2, <2>1 DEF WriteFirstManifest, Goto
  <2>2. CASE RecordOpen(t) \/ RecordWrite(t) \/ RecordReplace(t)
    BY <1>2, <2>2 DEF RecordOpen, RecordWrite, RecordReplace, Finish
  <2>3. CASE HashObject(t) \/ CommitEvidence(t) \/ RefreshEvidence(t) \/ DeleteObject(t)
    BY <2>3, CompleterOK
  <2>4. CASE Unlink(t) \/ RemoveDir(t)
    BY <1>2, <2>4 DEF Unlink, RemoveDir, Finish
  <2> QED BY <1>4, <1>5, <1>6, <1>7, <2>1, <2>2, <2>3, <2>4 DEF Continue
<1>8. CASE \E p \in Part : Presign(p) \/ PutPart(p)
  <2>1. UNCHANGED <<pc, upload, object, row, cancelled, lateError, orphaned>>
    BY <1>8 DEF Presign, PutPart, threadVars
  <2> QED BY <2>1, ElsewhereOK
<1>9. CASE Expire
  <2>1. UNCHANGED <<pc, upload, object, row, cancelled, lateError, orphaned>>
    BY <1>9 DEF Expire, threadVars
  <2> QED BY <2>1, ElsewhereOK
<1>10. CASE Crash
  <2>1. \A u \in Thread : pc'[u] = "idle"
    BY <1>10 DEF Crash
  <2>2. /\ UNCHANGED <<upload, object, row, cancelled, lateError>>
        /\ orphaned' = (orphaned \/ (object # "none" /\ ~row))
    BY <1>10 DEF Crash
  <2> QED BY <2>1, <2>2 DEF CompletionInv, EvidenceIntact, NoSilentOrphan
<1>11. CASE UNCHANGED vars
  <2>1. UNCHANGED <<pc, upload, object, row, cancelled, lateError, orphaned>>
    BY <1>11 DEF vars, threadVars
  <2> QED BY <2>1, ElsewhereOK
<1> QED BY <1>3, <1>7, <1>8, <1>9, <1>10, <1>11 DEF Next

\* What holds of every reachable state, and is kept by each step on its own.
LEMMA UploadInvariant == Spec => [](TypeOK /\ SessionInv /\ CompletionInv)
<1> QED
  BY UploadTypeInit, UploadTypeStep, SessionInit, SessionStep, CompletionInit,
     CompletionStep, PTL DEF Spec

\* Whichever requests race with the completion of an upload, and whatever fails
\* before the commit, a registered dump has its complete object.
THEOREM EvidenceStaysIntact == Spec => []EvidenceIntact
<1>1. CompletionInv => EvidenceIntact
  BY DEF CompletionInv
<1> QED BY <1>1, UploadInvariant, PTL

\* Only a failing storage call or the death of the process leaves an object
\* behind that nobody will register or delete.
THEOREM OrphansComeFromFaults == Spec => []NoSilentOrphan
<1>1. CompletionInv => NoSilentOrphan
  BY DEF CompletionInv
<1> QED BY <1>1, UploadInvariant, PTL

\* A confirmed abort is the end of the upload: no object, no row, for ever.
THEOREM ConfirmedAbortWins == Spec => []AbortIsFinal
<1>1. CompletionInv => AbortIsFinal
  BY DEF CompletionInv, AbortIsFinal
<1> QED BY <1>1, UploadInvariant, PTL

-----------------------------------------------------------------------------
(***************************************************************************)
(* Records that arrive one at a time.                                      *)
(***************************************************************************)

\* A manifest, or what is to become one, has every part answered so far.
Keeps(m) == \A p \in answered : m[p] # "none"

\* The one handler that records has loaded all that was answered; the temporary
\* file is its own, and unlinked under it only together with the manifest.
RecordInv ==
  /\ AnsweredPartsKept
  /\ ~started \/ (\E t \in Thread : pc[t] = "mkdir") => answered = {}
  /\ \A t, u \in Thread : pc[t] \in Recording /\ pc[u] \in Recording => t = u
  /\ \A t \in Thread :
       /\ pc[t] \in Recording => Keeps(parts[t]) /\ parts[t][part[t]] # "none"
       /\ handle[t] # "manifest"
       /\ handle[t] = "temp" => temp = Truncated
       /\ handle[t] = "unlinked" => ~temp.exists
       /\ pc[t] = "replace" /\ temp.exists => temp.json /\ temp.parts = parts[t]

LEMMA RecordInit == Init => RecordInv
  BY DEF Init, RecordInv, AnsweredPartsKept, Absent

\* What neither records nor touches the files.
LEMMA FilesAsideOK ==
  ASSUME TypeOK, RecordInv, SessionInv, UNCHANGED <<temp, answered>>,
         started => started',
         manifest' = manifest \/ (manifest'.json /\ answered = {}),
         \A t \in Thread : handle'[t] = handle[t],
         \A t \in Thread : pc'[t] \in Recording =>
           pc'[t] = pc[t] /\ parts'[t] = parts[t] /\ part'[t] = part[t],
         \A t \in Thread : pc'[t] = "mkdir" => pc[t] = "mkdir" \/ ~started
  PROVE  RecordInv'
<1>1. ~started' \/ (\E t \in Thread : pc'[t] = "mkdir") => answered' = {}
  BY DEF RecordInv
<1>2. AnsweredPartsKept'
  BY DEF RecordInv, AnsweredPartsKept
<1> QED BY <1>1, <1>2 DEF RecordInv, Keeps

LEMMA RecordStep ==
  ASSUME MaxRecorders = 1, TypeOK, SessionInv, RecordInv, [Next]_vars
  PROVE  RecordInv'
<1> USE DEF clientVars, fileVars, s3Vars, historyVars
<1>0. ThreadOK /\ FilesOK /\ answered \subseteq Part
  BY DEF TypeOK, HistoryOK
<1>1. ASSUME NEW t \in Thread, NEW p \in Part, RecordLoad(t, p), pc[t] = "idle" PROVE RecordInv'
  <2>1. \A u \in Thread : pc[u] \notin Recording
    <3>1. SUFFICES ASSUME NEW u \in Thread, pc[u] \in Recording PROVE FALSE
      OBVIOUS
    <3>2. Recorders = {u}
      BY <3>1 DEF Recorders, RecordInv
    <3>3. Cardinality({u}) = 1
      BY FS_Singleton
    <3>4. Cardinality(Recorders) = 1
      BY <3>2, <3>3
    <3> QED BY <1>1, <3>4 DEF RecordLoad
  <2>2. manifest.exists /\ manifest.json /\ Keeps(manifest.parts)
    BY <1>1 DEF RecordLoad, Active, Readable, RecordInv, AnsweredPartsKept, Keeps
  <2>3. manifest.parts \in Recorded /\ uploaded[p] # "none"
    BY <1>0, <1>1 DEF RecordLoad, FilesOK, FileOK
  <2>4. /\ pc' = [pc EXCEPT ![t] = "open"] /\ part' = [part EXCEPT ![t] = p]
        /\ parts' = [parts EXCEPT ![t] = [manifest.parts EXCEPT ![p] = uploaded[p]]]
        /\ UNCHANGED <<handle, manifest, temp, started, answered>>
    BY <1>1 DEF RecordLoad
  <2>5. (\A q \in answered' : parts'[t][q] # "none") /\ parts'[t][part'[t]] # "none"
    <3> DEFINE m == [manifest.parts EXCEPT ![p] = uploaded[p]]
    <3>1. parts'[t] = m /\ part'[t] = p /\ answered' = answered
      BY <1>0, <2>4 DEF ThreadOK
    <3>2. m[p] # "none" /\ \A q \in Part \ {p} : m[q] = manifest.parts[q]
      BY <2>3
    <3>3. \A q \in answered : m[q] # "none"
      BY <1>0, <2>2, <3>2 DEF Keeps
    <3> HIDE DEF m
    <3> QED BY <3>1, <3>2, <3>3
  <2>6. \A u \in Thread : pc'[u] \in Recording => u = t
    BY <1>0, <2>1, <2>4 DEF ThreadOK
  <2>7. pc'[t] = "open" /\ \A u \in Thread : pc'[u] = "mkdir" => pc[u] = "mkdir"
    BY <1>0, <2>4 DEF ThreadOK
  <2>8. AnsweredPartsKept'
    BY <2>4 DEF RecordInv, AnsweredPartsKept
  <2>9. started /\ \A u \in Thread : pc'[u] # "mkdir"
    BY <1>1, <2>2, <2>7 DEF RecordLoad, Active, SessionInv, TypeOK, FilesOK
  <2> QED BY <2>4, <2>5, <2>6, <2>7, <2>8, <2>9 DEF RecordInv, Keeps
<1>2. ASSUME NEW t \in Thread, Arrive(t) PROVE RecordInv'
  <2>1. pc[t] = "idle"
    BY <1>2 DEF Arrive
  <2>2. CASE CreateUpload(t)
    <3>1. /\ UNCHANGED <<temp, answered, manifest, handle, part, parts>> /\ ~started
          /\ pc' \in {[pc EXCEPT ![t] = "mkdir"], [pc EXCEPT ![t] = "idle"]}
      BY <2>2 DEF CreateUpload, Goto
    <3>2. \A u \in Thread : pc'[u] \in Recording => pc'[u] = pc[u]
      BY <1>0, <3>1 DEF ThreadOK
    <3> QED BY <3>1, <3>2, FilesAsideOK
  <2>3. CASE CompleteLoad(t)
    <3>1. /\ UNCHANGED <<temp, answered, manifest, handle, part, started>>
          /\ pc' = [pc EXCEPT ![t] = "complete"]
          /\ \A u \in Thread : u # t => parts'[u] = parts[u]
      BY <1>0, <2>3 DEF CompleteLoad, ThreadOK
    <3>2. \A u \in Thread : u # t => pc'[u] = pc[u]
      BY <3>1
    <3>3. pc'[t] = "complete"
      BY <1>0, <3>1 DEF ThreadOK
    <3> QED BY <3>1, <3>2, <3>3, FilesAsideOK
  <2>4. CASE AbortLoad(t) \/ Cleanup(t)
    <3>1. /\ UNCHANGED <<temp, answered, manifest, handle, part, parts, started>>
          /\ pc' \in {[pc EXCEPT ![t] = "abort"], [pc EXCEPT ![t] = "unlink"]}
      BY <2>4 DEF AbortLoad, Cleanup, Goto
    <3>2. \A u \in Thread : pc'[u] \in Recording \cup {"mkdir"} => pc'[u] = pc[u]
      BY <1>0, <3>1 DEF ThreadOK
    <3> QED BY <3>1, <3>2, FilesAsideOK
  <2> QED BY <1>1, <1>2, <2>1, <2>2, <2>3, <2>4 DEF Arrive
<1>3. ASSUME NEW t \in Thread, WriteFirstManifest(t) PROVE RecordInv'
  <2>1. /\ UNCHANGED <<temp, answered, handle, part, parts, started>> /\ answered = {}
        /\ pc' \in {[pc EXCEPT ![t] = "idle"], [pc EXCEPT ![t] = "discard"]}
        /\ manifest' \in {manifest, File(NoParts, 0, TRUE)}
    BY <1>3 DEF WriteFirstManifest, Goto, RecordInv
  <2>2. \A u \in Thread : pc'[u] \in Recording \cup {"mkdir"} => pc'[u] = pc[u]
    BY <1>0, <2>1 DEF ThreadOK
  <2>3. File(NoParts, 0, TRUE).json
    BY DEF File
  <2> QED BY <2>1, <2>2, <2>3, FilesAsideOK
<1>4. ASSUME NEW t \in Thread, RecordOpen(t) PROVE RecordInv'
  <2>1. pc[t] = "open" /\ \A u \in Thread : pc[u] \in Recording => u = t
    BY <1>4 DEF RecordOpen, RecordInv
  <2>2. \A u \in Thread \ {t} : handle[u] = "none"
    BY <1>0, <2>1 DEF ThreadOK
  <2>3. CASE dir
    <3>1. /\ temp' = Truncated /\ pc' = [pc EXCEPT ![t] = "write"]
          /\ handle' = [handle EXCEPT ![t] = "temp"]
          /\ UNCHANGED <<part, parts, manifest, started, answered>>
      BY <1>4, <2>3 DEF RecordOpen
    <3>2. handle'[t] = "temp" /\ \A u \in Thread \ {t} : handle'[u] = "none"
      BY <1>0, <2>2, <3>1 DEF ThreadOK
    <3>3. pc'[t] = "write" /\ \A u \in Thread \ {t} : pc'[u] = pc[u]
      BY <1>0, <3>1 DEF ThreadOK
    <3> QED BY <2>1, <3>1, <3>2, <3>3 DEF RecordInv, AnsweredPartsKept, Keeps
  <2>4. CASE ~dir
    <3>1. Finish(t) /\ UNCHANGED <<temp, manifest, started, answered>>
      BY <1>4, <2>4 DEF RecordOpen
    <3>2. \A u \in Thread : /\ u # t => pc'[u] = pc[u] /\ parts'[u] = parts[u] /\ part'[u] = part[u]
                            /\ handle'[u] = handle[u] /\ pc'[t] = "idle"
      BY <1>0, <2>1, <3>1 DEF Finish, ThreadOK
    <3> QED BY <3>1, <3>2, FilesAsideOK
  <2> QED BY <2>3, <2>4
<1>5. ASSUME NEW t \in Thread, RecordWrite(t) PROVE RecordInv'
  <2>1. pc[t] = "write" /\ \A u \in Thread : pc[u] \in Recording => u = t
    BY <1>5 DEF RecordWrite, RecordInv
  <2>2. handle[t] \in {"temp", "unlinked"}
    BY <1>0, <2>1 DEF ThreadOK, RecordInv
  <2>3. /\ pc' = [pc EXCEPT ![t] = "replace"] /\ handle' = [handle EXCEPT ![t] = "none"]
        /\ UNCHANGED <<part, parts, manifest, started, answered>>
        /\ temp' = IF handle[t] = "temp" THEN Over(temp, parts[t]) ELSE temp
    BY <1>5, <2>2 DEF RecordWrite
  <2>4. temp'.exists => temp'.json /\ temp'.parts = parts[t]
    <3>1. CASE handle[t] = "temp"
      <4>1. temp = Truncated /\ Size(parts[t]) \in Nat
        BY <1>0, <3>1, SizeType DEF RecordInv, ThreadOK
      <4>2. temp.size <= Size(parts[t])
        BY <4>1 DEF Truncated, File
      <4>3. temp' = File(parts[t], Size(parts[t]), TRUE)
        BY <2>3, <3>1, <4>2 DEF Over
      <4> QED BY <4>3 DEF File
    <3>2. CASE handle[t] = "unlinked"
      BY <2>3, <3>2 DEF RecordInv
    <3> QED BY <2>2, <3>1, <3>2
  <2>5. pc'[t] = "replace" /\ \A u \in Thread \ {t} : pc'[u] = pc[u]
    BY <1>0, <2>3 DEF ThreadOK
  <2>6. \A u \in Thread : handle'[u] = "none"
    BY <1>0, <2>1, <2>3 DEF ThreadOK
  <2> QED BY <2>1, <2>3, <2>4, <2>5, <2>6 DEF RecordInv, AnsweredPartsKept, Keeps
<1>6. ASSUME NEW t \in Thread, RecordReplace(t) PROVE RecordInv'
  <2>1. pc[t] = "replace" /\ \A u \in Thread : pc[u] \in Recording => u = t
    BY <1>6 DEF RecordReplace, RecordInv
  <2>2. \A u \in Thread : handle[u] = "none"
    BY <1>0, <2>1 DEF ThreadOK
  <2>3. CASE temp.exists
    <3>1. /\ manifest' = temp /\ temp' = Absent
          /\ handle' = [u \in Thread |-> Renamed(handle[u])]
          /\ answered' = answered \cup {part[t]}
          /\ pc' = [pc EXCEPT ![t] = "idle"] /\ started' = started
      BY <1>6, <2>3 DEF RecordReplace
    <3>2. temp.json /\ temp.parts = parts[t] /\ Keeps(parts[t]) /\ parts[t][part[t]] # "none"
      BY <2>1, <2>3 DEF RecordInv
    <3>3. \A u \in Thread : handle'[u] = "none"
      BY <2>2, <3>1 DEF Renamed
    <3>4. pc'[t] = "idle" /\ \A u \in Thread \ {t} : pc'[u] = pc[u]
      BY <1>0, <3>1 DEF ThreadOK
    <3>5. AnsweredPartsKept'
      BY <3>1, <3>2 DEF AnsweredPartsKept, Keeps
    <3>6. started /\ \A u \in Thread : pc[u] # "mkdir"
      BY <2>1 DEF SessionInv
    <3>7. \A u \in Thread : pc'[u] \notin Recording \cup {"mkdir"}
      BY <2>1, <3>4, <3>6
    <3> QED BY <3>1, <3>3, <3>5, <3>6, <3>7 DEF RecordInv
  <2>4. CASE ~temp.exists
    <3>1. Finish(t) /\ UNCHANGED <<temp, manifest, started, answered>>
      BY <1>6, <2>4 DEF RecordReplace
    <3>2. \A u \in Thread : /\ u # t => pc'[u] = pc[u] /\ parts'[u] = parts[u] /\ part'[u] = part[u]
                            /\ handle'[u] = handle[u] /\ pc'[t] = "idle"
      BY <1>0, <2>2, <3>1 DEF Finish, ThreadOK
    <3> QED BY <3>1, <3>2, FilesAsideOK
  <2> QED BY <2>3, <2>4
<1>7. ASSUME NEW t \in Thread, Unlink(t) PROVE RecordInv'
  <2>1. /\ ~manifest'.exists /\ ~temp'.exists /\ UNCHANGED <<part, parts, started, answered>>
        /\ pc' = [pc EXCEPT ![t] = "rmdir"]
        /\ handle' = [u \in Thread |-> IF handle[u] = "none" THEN "none" ELSE "unlinked"]
    BY <1>7 DEF Unlink, Absent
  <2>2. \A u \in Thread : pc'[u] \in Recording \cup {"mkdir"} => pc'[u] = pc[u]
    BY <1>0, <2>1 DEF ThreadOK
  <2>3. \A u \in Thread : handle'[u] \in {"none", "unlinked"}
    BY <2>1
  <2>4. AnsweredPartsKept'
    BY <2>1 DEF AnsweredPartsKept
  <2> QED BY <2>1, <2>2, <2>3, <2>4 DEF RecordInv, Keeps
<1>8. ASSUME NEW t \in Thread, UNCHANGED <<temp, answered, manifest, started>>,
             Finish(t) \/ \E next \in Step \ (Recording \cup {"mkdir"}) : Goto(t, next),
             handle[t] = "none"
      PROVE  RecordInv'
  <2>1. \A u \in Thread : handle'[u] = handle[u]
    BY <1>0, <1>8 DEF Finish, Goto, ThreadOK
  <2>2. \A u \in Thread : u # t => pc'[u] = pc[u] /\ parts'[u] = parts[u] /\ part'[u] = part[u]
    <3>1. CASE Finish(t)
      BY <1>0, <3>1 DEF Finish, ThreadOK
    <3>2. CASE \E next \in Step : Goto(t, next)
      BY <1>0, <3>2 DEF Goto, ThreadOK
    <3> QED BY <1>8, <3>1, <3>2
  <2>3. pc'[t] \notin Recording \cup {"mkdir"}
    BY <1>0, <1>8 DEF Finish, Goto, ThreadOK
  <2> QED BY <1>8, <2>1, <2>2, <2>3, FilesAsideOK
<1>9. ASSUME NEW t \in Thread,
             \/ DiscardUpload(t) \/ CompleteUpload(t) \/ HashObject(t) \/ CommitEvidence(t)
             \/ RefreshEvidence(t) \/ DeleteObject(t) \/ AbortUpload(t) \/ RemoveDir(t)
      PROVE  RecordInv'
  <2>1. UNCHANGED <<temp, answered, manifest, started>> /\ pc[t] # "write"
    BY <1>9 DEF DiscardUpload, CompleteUpload, HashObject, CommitEvidence, RefreshEvidence,
       DeleteObject, AbortUpload, RemoveDir
  <2>2. handle[t] = "none"
    BY <1>0, <2>1 DEF ThreadOK
  <2>3. Finish(t) \/ \E next \in Step \ (Recording \cup {"mkdir"}) : Goto(t, next)
    BY <1>9 DEF DiscardUpload, CompleteUpload, HashObject, CommitEvidence, RefreshEvidence,
       DeleteObject, AbortUpload, RemoveDir, End
  <2> QED BY <1>8, <2>1, <2>2, <2>3
<1>10. CASE (\E p \in Part : Presign(p) \/ PutPart(p)) \/ Expire \/ UNCHANGED vars
  <2>1. UNCHANGED <<temp, answered, manifest, started, pc, part, parts, handle>>
    BY <1>10 DEF Presign, PutPart, Expire, vars, threadVars
  <2> QED BY <2>1, FilesAsideOK
<1>11. CASE Crash
  <2>1. /\ UNCHANGED <<temp, answered, manifest, started>> /\ started
        /\ \A u \in Thread : pc'[u] = "idle" /\ handle'[u] = "none"
    BY <1>11 DEF Crash, SessionInv
  <2> QED BY <2>1 DEF RecordInv, AnsweredPartsKept
<1> QED BY <1>2, <1>3, <1>4, <1>5, <1>6, <1>7, <1>9, <1>10, <1>11 DEF Next, Continue

\* When records arrive one at a time, no part answered with 200 is ever missing from
\* a manifest, and that can always be parsed, for any number of parts and of handlers
\* that complete, abort, clean up and die around the records.
THEOREM AnsweredPartsStay ==
  ASSUME MaxRecorders = 1
  PROVE  Spec => []AnsweredPartsKept
<1>1. TypeOK /\ SessionInv /\ RecordInv /\ [Next]_vars => RecordInv'
  BY RecordStep
<1>2. RecordInv => AnsweredPartsKept
  BY DEF RecordInv
<1> QED BY <1>1, <1>2, RecordInit, UploadInvariant, PTL DEF Spec
=============================================================================
