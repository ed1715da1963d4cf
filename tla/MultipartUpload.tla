-------------------------- MODULE MultipartUpload --------------------------
(***************************************************************************)
(* One direct multipart upload of a memory dump: the handlers of the       *)
(* upload API as concurrent threads, the session directory with its JSON   *)
(* manifest, the multipart upload and the object in S3, the evidences row, *)
(* and the cleanup script.                                                 *)
(*                                                                         *)
(* Handlers run in a thread pool and take no lock.  Every system call on   *)
(* the manifest, every S3 call and every transaction is a step, between    *)
(* any two of which other threads run.  Sessions share nothing, so one is  *)
(* modelled; clients may call in any order and more than once.             *)
(***************************************************************************)
EXTENDS Naturals, FiniteSets

CONSTANTS
  Part,          \* part numbers of the upload, 1..expected_part_count
  Thread,        \* threads that may serve a request, or run the cleanup
  MaxRecorders,  \* bound: requests that record a part at the same time
  Faults         \* the kinds of failure a run may meet

UploadFault == {"storage", "disk", "rollback", "in_doubt", "refresh", "short",
                "expiry", "crash"}

ASSUME PartAssumption == IsFiniteSet(Part) /\ Part # {}
ASSUME RecordersAssumption == MaxRecorders \in Nat \ {0}
ASSUME UploadFaultsAssumption == Faults \subseteq UploadFault

VARIABLES
  pc,         \* thread: the next step of its handler
  part,       \* thread: the part it records
  parts,      \* thread: completed_parts of the manifest it loaded
  handle,     \* thread: the file it has open for writing
  started,    \* the session was initiated
  dir,        \* the session directory exists
  manifest,   \* manifest.json
  temp,       \* .manifest.json.tmp, one name for all writers
  expired,    \* the session's expires_at has passed
  urls,       \* parts with a presigned URL
  upload,     \* S3: the multipart upload
  uploaded,   \* S3: content of each uploaded part, which its ETag identifies
  object,     \* S3: the evidence object
  row,        \* the evidences row is committed
  answered,   \* history: parts whose record was answered with 200
  cancelled,  \* history: S3 confirmed the abort of the upload
  lateError,  \* history: an exception followed the commit of the row
  orphaned    \* history: an exception or a crash hid the object from cleanup

threadVars  == <<pc, part, parts, handle>>
fileVars    == <<dir, manifest, temp>>
clientVars  == <<started, expired, urls>>
s3Vars      == <<upload, uploaded, object>>
historyVars == <<answered, cancelled, lateError, orphaned>>
vars == <<threadVars, fileVars, clientVars, s3Vars, row, historyVars>>

Content    == {"whole", "short"}    \* of the expected size, or less
Recorded   == [Part -> Content \cup {"none"}]
NoParts    == [p \in Part |-> "none"]
Recording  == {"open", "write", "replace"}
Completing == {"hash", "commit", "refresh", "undo"}
Step       == {"idle", "mkdir", "discard", "complete", "abort", "unlink", "rmdir"}
              \cup Recording \cup Completing

\* A manifest's text grows with its parts.  What is written last lies over what
\* the file held, so a shorter text over a longer one is not JSON any more.
Size(m)      == Cardinality({p \in Part : m[p] # "none"})
File(m, n, valid) == [exists |-> TRUE, parts |-> m, size |-> n, json |-> valid]
Absent       == [exists |-> FALSE, parts |-> NoParts, size |-> 0, json |-> FALSE]
Truncated    == File(NoParts, 0, FALSE)
Over(old, m) == IF old.size <= Size(m) THEN File(m, Size(m), TRUE)
                                       ELSE File(NoParts, old.size, FALSE)

\* _load_manifest: the file is there and parses, and has not expired.
Readable == manifest.exists /\ manifest.json
Active   == Readable /\ ~expired

Goto(t, next) == pc' = [pc EXCEPT ![t] = next] /\ UNCHANGED <<part, parts, handle>>

\* The handler answers, and its locals are gone.
Finish(t) ==
  /\ pc'     = [pc EXCEPT ![t] = "idle"]
  /\ part'   = [part EXCEPT ![t] = CHOOSE p \in Part : TRUE]
  /\ parts'  = [parts EXCEPT ![t] = NoParts]
  /\ handle' = [handle EXCEPT ![t] = "none"]

\* A call that may fail, without effect or after it.
Ways(kind) == {"done"} \cup (IF kind \in Faults THEN {"failed", "done_failed"} ELSE {})
Effect(way) == way # "failed"

Init ==
  /\ pc        = [t \in Thread |-> "idle"]
  /\ part      = [t \in Thread |-> CHOOSE p \in Part : TRUE]
  /\ parts     = [t \in Thread |-> NoParts]
  /\ handle    = [t \in Thread |-> "none"]
  /\ started   = FALSE
  /\ dir       = FALSE
  /\ manifest  = Absent
  /\ temp      = Absent
  /\ expired   = FALSE
  /\ urls      = {}
  /\ upload    = "none"
  /\ uploaded  = NoParts
  /\ object    = "none"
  /\ row       = FALSE
  /\ answered  = {}
  /\ cancelled = FALSE
  /\ lateError = FALSE
  /\ orphaned  = FALSE

-----------------------------------------------------------------------------
(***************************************************************************)
(* initiate_multipart_upload, presign_upload_part, and the client's upload *)
(* of a part straight to S3.                                               *)
(***************************************************************************)

\* When the call raises there is no upload id to abort with.
CreateUpload(t) ==
  /\ ~started
  /\ started' = TRUE
  /\ \E way \in Ways("storage") :
       /\ upload' = IF Effect(way) THEN "open" ELSE "none"
       /\ Goto(t, IF way = "done" THEN "mkdir" ELSE "idle")
  /\ UNCHANGED <<fileVars, expired, urls, uploaded, object, row, historyVars>>

\* The directory and the first manifest.  Nobody has the session id yet.
WriteFirstManifest(t) ==
  /\ pc[t] = "mkdir"
  /\ \/ /\ dir' = TRUE
        /\ manifest' = File(NoParts, 0, TRUE)
        /\ Goto(t, "idle")
     \/ /\ "disk" \in Faults
        /\ Goto(t, "discard")
        /\ UNCHANGED <<dir, manifest>>
  /\ UNCHANGED <<temp, clientVars, s3Vars, row, historyVars>>

\* Its except branch: the abort's own failure is ignored, the directory removed.
DiscardUpload(t) ==
  /\ pc[t] = "discard"
  /\ \E way \in Ways("storage") :
       upload' = IF Effect(way) THEN "aborted" ELSE upload
  /\ Goto(t, "idle")
  /\ UNCHANGED <<fileVars, clientVars, uploaded, object, row, historyVars>>

Presign(p) ==
  /\ Active
  /\ urls' = urls \cup {p}
  /\ UNCHANGED <<threadVars, fileVars, started, expired, s3Vars, row, historyVars>>

\* S3 takes a part while the upload is open, a repeated one over the first, and
\* does not know which size the session expects of it.
PutPart(p) ==
  /\ p \in urls
  /\ upload = "open"
  /\ \E c \in IF "short" \in Faults THEN Content ELSE {"whole"} :
       uploaded' = [uploaded EXCEPT ![p] = c]
  /\ UNCHANGED <<threadVars, fileVars, clientVars, upload, object, row, historyVars>>

-----------------------------------------------------------------------------
(***************************************************************************)
(* record_completed_part: load the manifest, add the part, write the whole *)
(* of it to the temporary file, and rename that over the manifest.         *)
(***************************************************************************)

Recorders == {t \in Thread : pc[t] \in Recording}

\* Mutated form: the record starts from an empty completed_parts.
ForgetOthers(m, p, etag) == [q \in Part |-> IF q = p THEN etag ELSE "none"]
WithPart(m, p, etag) == [m EXCEPT ![p] = etag]

\* The client sends the ETag it got from S3 for the part.
RecordLoad(t, p) ==
  /\ Active
  /\ uploaded[p] # "none"
  /\ Cardinality(Recorders) < MaxRecorders
  /\ pc'    = [pc EXCEPT ![t] = "open"]
  /\ part'  = [part EXCEPT ![t] = p]
  /\ parts' = [parts EXCEPT ![t] = WithPart(manifest.parts, p, uploaded[p])]
  /\ UNCHANGED <<handle, fileVars, clientVars, s3Vars, row, historyVars>>

\* write_text opens the temporary file for writing, which truncates it.
RecordOpen(t) ==
  /\ pc[t] = "open"
  /\ IF dir
       THEN /\ temp'   = Truncated
            /\ pc'     = [pc EXCEPT ![t] = "write"]
            /\ handle' = [handle EXCEPT ![t] = "temp"]
            /\ UNCHANGED <<part, parts>>
       ELSE Finish(t) /\ UNCHANGED temp
  /\ UNCHANGED <<dir, manifest, clientVars, s3Vars, row, historyVars>>

\* The text goes to the opened file, whatever its name is by now.
RecordWrite(t) ==
  /\ pc[t] = "write"
  /\ temp'     = IF handle[t] = "temp" THEN Over(temp, parts[t]) ELSE temp
  /\ manifest' = IF handle[t] = "manifest" THEN Over(manifest, parts[t]) ELSE manifest
  /\ pc'       = [pc EXCEPT ![t] = "replace"]
  /\ handle'   = [handle EXCEPT ![t] = "none"]
  /\ UNCHANGED <<part, parts, dir, clientVars, s3Vars, row, historyVars>>

\* The rename takes what the temporary name stands for.  Writers that have that
\* file open now write into the manifest.  Mutated form: the text is copied, and
\* they go on with the temporary name.
Copied(file)  == file
Renamed(file) == IF file = "temp" THEN "manifest"
                 ELSE IF file = "manifest" THEN "unlinked" ELSE file

RecordReplace(t) ==
  /\ pc[t] = "replace"
  /\ IF temp.exists
       THEN /\ manifest' = temp
            /\ temp'     = Absent
            /\ handle'   = [u \in Thread |-> Renamed(handle[u])]
            /\ answered' = answered \cup {part[t]}
            /\ pc'       = [pc EXCEPT ![t] = "idle"]
            /\ part'     = [part EXCEPT ![t] = CHOOSE p \in Part : TRUE]
            /\ parts'    = [parts EXCEPT ![t] = NoParts]
       ELSE Finish(t) /\ UNCHANGED <<manifest, temp, answered>>
  /\ UNCHANGED <<dir, clientVars, s3Vars, row, cancelled, lateError, orphaned>>

-----------------------------------------------------------------------------
(***************************************************************************)
(* complete_multipart_upload.                                              *)
(***************************************************************************)

End(t, next) == IF next = "idle" THEN Finish(t) ELSE Goto(t, next)

\* Every expected part must be in the manifest.
CompleteLoad(t) ==
  /\ Active
  /\ \A p \in Part : manifest.parts[p] # "none"
  /\ pc'    = [pc EXCEPT ![t] = "complete"]
  /\ parts' = [parts EXCEPT ![t] = manifest.parts]
  /\ UNCHANGED <<part, handle, fileVars, clientVars, s3Vars, row, historyVars>>

\* Mutated form: storage_completed is set before the call, not after it.
DeleteAnyway      == "undo"
AfterS3Completion == "idle"

\* S3 joins the parts of an open upload whose ETags it recognises, and may
\* refuse short ones.  The object is then looked up; when that raises, or the
\* answer is lost, storage_completed is still false and the object stays.
CompleteUpload(t) ==
  /\ pc[t] = "complete"
  /\ \/ /\ upload = "open"
        /\ parts[t] = uploaded
        /\ upload' = "completed"
        /\ object' = IF \A p \in Part : uploaded[p] = "whole" THEN "whole" ELSE "short"
        /\ \/ Goto(t, "hash") /\ UNCHANGED orphaned
           \/ /\ "storage" \in Faults
              /\ End(t, AfterS3Completion)
              /\ orphaned' = TRUE
     \/ /\ \/ upload # "open"
           \/ parts[t] # uploaded
           \/ \E p \in Part : uploaded[p] = "short"
           \/ "storage" \in Faults
        /\ End(t, AfterS3Completion)
        /\ UNCHANGED <<upload, object, orphaned>>
  /\ UNCHANGED <<fileVars, clientVars, uploaded, row, answered, cancelled, lateError>>

\* Mutated form: any object will do.
AnySize        == object # "none"
SizeAsDeclared == object = "whole"

\* Mutated form: an object that fails the check is left where it is.
ObjectLeft     == "idle"
AfterBadObject == "undo"

\* The object is read back and hashed; its size must be the declared one.
HashObject(t) ==
  /\ pc[t] = "hash"
  /\ \/ SizeAsDeclared /\ Goto(t, "commit")
     \/ (~SizeAsDeclared \/ "storage" \in Faults) /\ End(t, AfterBadObject)
  /\ UNCHANGED <<fileVars, clientVars, s3Vars, row, historyVars>>

\* The evidence id is the session's, so the row can be there only once.
CommitEvidence(t) ==
  /\ pc[t] = "commit"
  /\ \/ /\ ~row
        /\ row' = TRUE
        /\ \/ Goto(t, "refresh") /\ UNCHANGED lateError
           \/ "in_doubt" \in Faults /\ Goto(t, "undo") /\ lateError' = TRUE
     \/ /\ row \/ "rollback" \in Faults
        /\ Goto(t, "undo")
        /\ UNCHANGED <<row, lateError>>
  /\ UNCHANGED <<fileVars, clientVars, s3Vars, answered, cancelled, orphaned>>

RefreshEvidence(t) ==
  /\ pc[t] = "refresh"
  /\ \/ Goto(t, "unlink") /\ UNCHANGED lateError
     \/ "refresh" \in Faults /\ Goto(t, "undo") /\ lateError' = TRUE
  /\ UNCHANGED <<fileVars, clientVars, s3Vars, row, answered, cancelled, orphaned>>

\* The except branch deletes the completed object, whatever was committed.
DeleteObject(t) ==
  /\ pc[t] = "undo"
  /\ \E way \in Ways("storage") :
       /\ object'   = IF Effect(way) THEN "none" ELSE object
       /\ orphaned' = (orphaned \/ ~Effect(way))
  /\ Finish(t)
  /\ UNCHANGED <<fileVars, clientVars, upload, uploaded, row, answered, cancelled,
                 lateError>>

-----------------------------------------------------------------------------
(***************************************************************************)
(* abort_multipart_upload, the removal of a session directory, which       *)
(* completion, abort and the cleanup script share, and the environment.    *)
(***************************************************************************)

AbortLoad(t) ==
  /\ Readable
  /\ Goto(t, "abort")
  /\ UNCHANGED <<fileVars, clientVars, s3Vars, row, historyVars>>

\* Mutated form: the upload is left to S3's own housekeeping.
UploadKept    == "open"
AbortedUpload == "aborted"

\* The directory goes whether or not S3 confirmed the abort.
AbortUpload(t) ==
  /\ pc[t] = "abort"
  /\ \/ /\ upload = "open"
        /\ \E way \in Ways("storage") :
             /\ upload'    = IF Effect(way) THEN AbortedUpload ELSE upload
             /\ cancelled' = (cancelled \/ way = "done")
     \/ upload # "open" /\ UNCHANGED <<upload, cancelled>>
  /\ Goto(t, "unlink")
  /\ UNCHANGED <<fileVars, clientVars, uploaded, object, row, answered, lateError,
                 orphaned>>

\* cleanup_expired_upload_sessions on this session: expired by its manifest, or,
\* when that cannot be read, by the directory's age.
Cleanup(t) ==
  /\ dir
  /\ expired
  /\ Goto(t, "unlink")
  /\ UNCHANGED <<fileVars, clientVars, s3Vars, row, historyVars>>

\* rmtree unlinks the files it finds and then removes the directory, which
\* fails, ignored, when another handler has created a file meanwhile.
Unlink(t) ==
  /\ pc[t] = "unlink"
  /\ manifest' = Absent
  /\ temp'     = Absent
  /\ pc'       = [pc EXCEPT ![t] = "rmdir"]
  /\ handle'   = [u \in Thread |-> IF handle[u] = "none" THEN "none" ELSE "unlinked"]
  /\ UNCHANGED <<part, parts, dir, clientVars, s3Vars, row, historyVars>>

DirIsEmpty == ~manifest.exists /\ ~temp.exists

RemoveDir(t) ==
  /\ pc[t] = "rmdir"
  /\ dir' = (dir /\ ~DirIsEmpty)
  /\ Finish(t)
  /\ UNCHANGED <<manifest, temp, clientVars, s3Vars, row, historyVars>>

Expire ==
  /\ "expiry" \in Faults
  /\ started /\ ~expired
  /\ expired' = TRUE
  /\ UNCHANGED <<threadVars, fileVars, started, urls, s3Vars, row, historyVars>>

\* The API process dies, and the files it was writing stay as they are.
Crash ==
  /\ "crash" \in Faults
  /\ \E t \in Thread : pc[t] # "idle"
  /\ pc'       = [t \in Thread |-> "idle"]
  /\ part'     = [t \in Thread |-> CHOOSE p \in Part : TRUE]
  /\ parts'    = [t \in Thread |-> NoParts]
  /\ handle'   = [t \in Thread |-> "none"]
  /\ orphaned' = (orphaned \/ (object # "none" /\ ~row))
  /\ UNCHANGED <<fileVars, clientVars, s3Vars, row, answered, cancelled, lateError>>

-----------------------------------------------------------------------------
\* A request arrives at an idle thread.  One that is refused changes nothing.
Arrive(t) ==
  /\ pc[t] = "idle"
  /\ \/ CreateUpload(t)
     \/ \E p \in Part : RecordLoad(t, p)
     \/ CompleteLoad(t)
     \/ AbortLoad(t)
     \/ Cleanup(t)

Continue(t) ==
  \/ WriteFirstManifest(t) \/ DiscardUpload(t)
  \/ RecordOpen(t) \/ RecordWrite(t) \/ RecordReplace(t)
  \/ CompleteUpload(t) \/ HashObject(t) \/ CommitEvidence(t)
  \/ RefreshEvidence(t) \/ DeleteObject(t)
  \/ AbortUpload(t) \/ Unlink(t) \/ RemoveDir(t)

Next ==
  \/ \E t \in Thread : Arrive(t) \/ Continue(t)
  \/ \E p \in Part : Presign(p) \/ PutPart(p)
  \/ Expire
  \/ Crash

Spec == Init /\ [][Next]_vars

\* A thread that serves a request goes on with it.  Requests need not come.
FairSpec == Spec /\ \A t \in Thread : WF_vars(Continue(t))

-----------------------------------------------------------------------------
FileOK(f) ==
  /\ f \in [exists : BOOLEAN, parts : Recorded, size : Nat, json : BOOLEAN]
  /\ f.json => f.exists /\ f.size = Size(f.parts)

ThreadOK ==
  /\ pc     \in [Thread -> Step]
  /\ part   \in [Thread -> Part]
  /\ parts  \in [Thread -> Recorded]
  /\ handle \in [Thread -> {"none", "temp", "manifest", "unlinked"}]
  /\ \A t \in Thread : handle[t] = "none" <=> pc[t] # "write"

FilesOK ==
  /\ dir \in BOOLEAN
  /\ FileOK(manifest)
  /\ FileOK(temp)
  /\ manifest.exists \/ temp.exists => dir
  /\ \A t \in Thread : /\ handle[t] = "temp" => temp.exists
                       /\ handle[t] = "manifest" => manifest.exists

StoreOK ==
  /\ upload   \in {"none", "open", "completed", "aborted"}
  /\ uploaded \in Recorded
  /\ object   \in Content \cup {"none"}
  /\ row      \in BOOLEAN

HistoryOK ==
  /\ answered  \subseteq Part
  /\ cancelled \in BOOLEAN
  /\ lateError \in BOOLEAN
  /\ orphaned  \in BOOLEAN

\* Threads, files, S3 and history have these shapes; a thread has a file open
\* exactly while it writes, and files are in an existing directory.
TypeOK ==
  /\ started \in BOOLEAN /\ expired \in BOOLEAN /\ urls \subseteq Part
  /\ ThreadOK
  /\ FilesOK
  /\ StoreOK
  /\ HistoryOK

\* A committed evidence row has its object, of the declared size, whichever
\* requests race with its completion, unless an exception followed the commit.
EvidenceIntact == row => object = "whole" \/ lateError

\* An object without a row is being hashed, committed or deleted, unless storage
\* failed under the handler or the process died.
NoSilentOrphan ==
  object # "none" /\ ~row => orphaned \/ \E t \in Thread : pc[t] \in Completing

\* Before the session id is known to a client only its own handler is at work.
SessionInv ==
  /\ ~started => /\ upload = "none" /\ ~dir
                 /\ \A t \in Thread : pc[t] = "idle"
  /\ \A t \in Thread : pc[t] \in {"mkdir", "discard"} =>
       /\ started /\ upload = "open" /\ ~dir
       /\ \A u \in Thread : u # t => pc[u] = "idle"

\* What completing an S3 upload decides: only one thread ever does, an abort and
\* a completion exclude each other, and that thread alone moves object and row.
CompletionInv ==
  /\ object # "none" \/ row => upload = "completed"
  /\ cancelled => upload = "aborted"
  /\ \A t \in Thread :
       /\ pc[t] \in Completing => upload = "completed"
       /\ pc[t] \in {"hash", "commit"} => ~row
       /\ pc[t] = "commit" => object = "whole"
       /\ pc[t] = "refresh" => row
       /\ pc[t] = "undo" => ~row \/ lateError
  /\ \A t, u \in Thread : pc[t] \in Completing /\ pc[u] \in Completing => t = u
  /\ EvidenceIntact
  /\ NoSilentOrphan

\* Once S3 has confirmed an abort the session never yields evidence, however
\* far a racing completion had come.
AbortIsFinal == cancelled => ~row /\ object = "none"

\* With records arriving one at a time, the manifest can always be parsed and
\* holds every part whose record was answered, whatever aborts, completions,
\* cleanups and crashes it meets.
AnsweredPartsKept ==
  manifest.exists => manifest.json /\ \A p \in answered : manifest.parts[p] # "none"

\* A completed object ends as registered evidence or is deleted again.
ObjectSettles == object # "none" ~> row \/ object = "none" \/ orphaned

\* What test_complete_multipart_sorts_parts_and_creates_evidence_metadata says:
\* when each part was recorded with 200, completion has its parts.  Two records
\* at a time, as the upload page sends them, make it untrue.
RecordedPartsComplete ==
  answered = Part /\ manifest.exists /\ Recorders = {}
  => manifest.json /\ \A p \in Part : manifest.parts[p] # "none"

=============================================================================
