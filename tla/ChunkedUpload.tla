--------------------------- MODULE ChunkedUpload ---------------------------
(***************************************************************************)
(* One chunked upload of a memory dump: the session directory with its     *)
(* manifest, the dump that grows in it, the temporary file of each chunk,  *)
(* completion, cancel, expiry and the cleanup script.                      *)
(*                                                                         *)
(* Chunks are received by coroutines on one event loop: they interleave at *)
(* the awaits of their request bodies and nowhere else.  Completion and    *)
(* cancel run in threads and the script in a process of its own, so those  *)
(* interleave with everything.  Sessions share nothing; one is modelled.   *)
(***************************************************************************)
EXTENDS Naturals, FiniteSets

CONSTANTS
  ChunkCount,   \* total_chunks of the session
  Thread,       \* requests, or runs of the script, served at the same time
  MaxAttempts,  \* bound: completions that get past the checks
  Habits,       \* what the client does beyond one request after the other
  Faults        \* the kinds of failure a run may meet

ChunkHabit == {"parallel", "resend", "hasty"}
ChunkFault == {"disconnect", "storage", "disk", "rollback", "in_doubt", "refresh",
               "expiry", "crash"}

ASSUME CountAssumption == ChunkCount \in Nat \ {0}
ASSUME AttemptsAssumption == MaxAttempts \in Nat
ASSUME HabitsAssumption == Habits \subseteq ChunkHabit /\ Faults \subseteq ChunkFault

VARIABLES
  pc,         \* thread: the next step of its handler
  chunk,      \* thread: the chunk it receives
  loaded,     \* thread: received_chunks of the manifest it loaded
  sent,       \* thread: pieces of the body it has read
  handle,     \* thread: its open temporary file still has its name, or not
  attempt,    \* thread: the evidence id it completes
  started,    \* the session was initiated
  dir,        \* the session directory exists
  manifest,   \* manifest.json
  raw,        \* evidence.tmp
  temp,       \* chunk: its .chunk-<i>.upload
  expired,    \* the session's expires_at has passed
  cancelled,  \* the client asked to cancel
  attempts,   \* evidence ids given out
  hash,       \* evidence id: the content that was hashed
  object,     \* evidence id: the content stored in S3
  row,        \* evidence id: its row is committed
  answered,   \* history: chunks answered with 200
  lateError   \* history: an exception or a crash followed a commit

threadVars   == <<pc, chunk, loaded, sent, handle, attempt>>
fileVars     == <<dir, manifest, raw, temp>>
sessionVars  == <<started, expired, cancelled>>
evidenceVars == <<attempts, hash, object, row>>
historyVars  == <<answered, lateError>>
vars == <<threadVars, fileVars, sessionVars, evidenceVars, historyVars>>

\* A chunk's body comes in two pieces, and a piece of a file is data or zeros.
Chunk       == 1..ChunkCount
Piece       == 1..2
Attempt     == 1..MaxAttempts
Content     == [Chunk -> SUBSET Piece]
Blank       == [c \in Chunk |-> {}]
Whole       == [c \in Chunk |-> Piece]
NoContent   == << >>
Receiving   == {"open", "receive", "save"}
Completing  == {"hash", "put", "commit", "refresh"}
Removing    == {"unlink", "rmdir"}
Step        == {"idle"} \cup Receiving \cup Completing \cup Removing

NoManifest  == [exists |-> FALSE, received |-> {}]
NoRaw       == [exists |-> FALSE, have |-> Blank]
NoTemp      == [exists |-> FALSE, have |-> {}]

\* Copied over the dump at its offset, a temporary file leaves its data, zeros where
\* it has a hole, and what was there behind its end.
Merged(old, copied) ==
  copied \cup {k \in old : \A l \in copied : l < k}

\* The file ends with its last written byte, and zeros are never at the end.
FullSize == raw.exists /\ 2 \in raw.have[ChunkCount]

Goto(t, next) ==
  /\ pc' = [pc EXCEPT ![t] = next]
  /\ UNCHANGED <<chunk, loaded, sent, handle, attempt>>

Reset(t) ==
  /\ pc'      = [pc EXCEPT ![t] = "idle"]
  /\ chunk'   = [chunk EXCEPT ![t] = 1]
  /\ loaded'  = [loaded EXCEPT ![t] = {}]
  /\ sent'    = [sent EXCEPT ![t] = 0]
  /\ attempt' = [attempt EXCEPT ![t] = 0]

Finish(t) == Reset(t) /\ UNCHANGED handle

\* A call that may fail, without effect or after it.
Ways(kind) == {"done"} \cup (IF kind \in Faults THEN {"failed", "done_failed"} ELSE {})
Effect(way) == way # "failed"

Receivers   == {t \in Thread : pc[t] \in Receiving}
Completers  == {t \in Thread : pc[t] \in Completing \cup Removing}

\* No coroutine is between two awaits.
LoopFree == \A t \in Thread : pc[t] \notin {"open", "save"}

Init ==
  /\ pc        = [t \in Thread |-> "idle"]
  /\ chunk     = [t \in Thread |-> 1]
  /\ loaded    = [t \in Thread |-> {}]
  /\ sent      = [t \in Thread |-> 0]
  /\ handle    = [t \in Thread |-> "none"]
  /\ attempt   = [t \in Thread |-> 0]
  /\ started   = FALSE
  /\ dir       = FALSE
  /\ manifest  = NoManifest
  /\ raw       = NoRaw
  /\ temp      = [c \in Chunk |-> NoTemp]
  /\ expired   = FALSE
  /\ cancelled = FALSE
  /\ attempts  = 0
  /\ hash      = [a \in Attempt |-> NoContent]
  /\ object    = [a \in Attempt |-> NoContent]
  /\ row       = [a \in Attempt |-> FALSE]
  /\ answered  = {}
  /\ lateError = FALSE

\* initiate_upload_session.  A directory whose files could not be written stays.
InitiateSession ==
  /\ ~started
  /\ started' = TRUE
  /\ dir'     = TRUE
  /\ \/ /\ manifest' = [exists |-> TRUE, received |-> {}]
        /\ raw'      = [exists |-> TRUE, have |-> Blank]
     \/ "disk" \in Faults /\ UNCHANGED <<manifest, raw>>
  /\ UNCHANGED <<threadVars, temp, expired, cancelled, evidenceVars, historyVars>>

-----------------------------------------------------------------------------
(***************************************************************************)
(* write_upload_chunk.                                                     *)
(***************************************************************************)

\* An orderly client sends one chunk at a time and nothing after a cancel.
MaySend(c) ==
  /\ "parallel" \in Habits \/ \A t \in Receivers : chunk[t] = c
  /\ "resend" \in Habits   \/ \A t \in Receivers : chunk[t] # c
  /\ "hasty" \in Habits    \/ (Completers = {} /\ ~cancelled)

\* The manifest is loaded before the first await.
ChunkLoad(t, c) ==
  /\ manifest.exists /\ ~expired
  /\ LoopFree
  /\ MaySend(c)
  /\ pc'     = [pc EXCEPT ![t] = "open"]
  /\ chunk'  = [chunk EXCEPT ![t] = c]
  /\ loaded' = [loaded EXCEPT ![t] = manifest.received]
  /\ UNCHANGED <<sent, handle, attempt, fileVars, sessionVars, evidenceVars, historyVars>>

\* Opened for writing: an older request's data is truncated away.
ChunkOpen(t) ==
  /\ pc[t] = "open"
  /\ \/ /\ dir
        /\ temp'   = [temp EXCEPT ![chunk[t]] = [exists |-> TRUE, have |-> {}]]
        /\ handle' = [handle EXCEPT ![t] = "named"]
        /\ pc'     = [pc EXCEPT ![t] = "receive"]
        /\ UNCHANGED <<chunk, loaded, sent, attempt>>
     \/ ~dir /\ Finish(t) /\ UNCHANGED temp
  /\ UNCHANGED <<dir, manifest, raw, sessionVars, evidenceVars, historyVars>>

\* A piece lands at this request's own offset, in the file it has open.
ReceivePiece(t) ==
  /\ pc[t] = "receive"
  /\ LoopFree
  /\ sent[t] < 2
  /\ sent' = [sent EXCEPT ![t] = sent[t] + 1]
  /\ temp' = IF handle[t] = "named"
               THEN [temp EXCEPT ![chunk[t]] =
                       [exists |-> TRUE, have |-> @.have \cup {sent[t] + 1}]]
               ELSE temp
  /\ UNCHANGED <<pc, chunk, loaded, handle, attempt, dir, manifest, raw, sessionVars,
                 evidenceVars, historyVars>>

\* The finally branch unlinks the chunk's temporary file, whoever uses it.
\* Mutated form: there is no finally branch.
KeepName(t) == UNCHANGED <<temp, handle>>
Unname(t) ==
  /\ temp'   = [temp EXCEPT ![chunk[t]] = NoTemp]
  /\ handle' = [u \in Thread |->
                  IF u = t THEN "none"
                  ELSE IF handle[u] = "named" /\ chunk[u] = chunk[t] THEN "unlinked"
                  ELSE handle[u]]

\* The client goes away, or the body is not of the expected size.
AbandonChunk(t) ==
  /\ "disconnect" \in Faults
  /\ pc[t] = "receive"
  /\ LoopFree
  /\ Reset(t)
  /\ Unname(t)
  /\ UNCHANGED <<dir, manifest, raw, sessionVars, evidenceVars, historyVars>>

\* All bytes were read; the dump is opened, created if it is not there, and then
\* the temporary file by its name.
MergeChunk(t) ==
  /\ pc[t] = "receive"
  /\ LoopFree
  /\ sent[t] = 2
  /\ IF dir /\ temp[chunk[t]].exists
       THEN /\ raw' = [exists |-> TRUE,
                       have   |-> [raw.have EXCEPT ![chunk[t]] =
                                     Merged(@, temp[chunk[t]].have)]]
            /\ Goto(t, "save")
            /\ UNCHANGED temp
       ELSE /\ raw' = [exists |-> dir, have |-> raw.have]
            /\ Reset(t)
            /\ Unname(t)
  /\ UNCHANGED <<dir, manifest, sessionVars, evidenceVars, historyVars>>

\* Mutated form: received_chunks starts anew with every chunk.
OnlyThis(received, c)  == {c}
WithChunk(received, c) == received \cup {c}

SaveManifest(t) ==
  /\ pc[t] = "save"
  /\ IF dir
       THEN /\ manifest' = [exists |-> TRUE, received |-> WithChunk(loaded[t], chunk[t])]
            /\ answered' = answered \cup {chunk[t]}
       ELSE UNCHANGED <<manifest, answered>>
  /\ Reset(t)
  /\ Unname(t)
  /\ UNCHANGED <<dir, raw, sessionVars, evidenceVars, lateError>>

-----------------------------------------------------------------------------
(***************************************************************************)
(* complete_upload_session and upload_evidence.                            *)
(***************************************************************************)

\* Mutated form: any chunk will do, for the size is checked as well.
SomeReceived == manifest.received # {}
AllReceived  == manifest.received = Chunk

\* Every completion has an evidence id of its own, given by the flush.
CompleteLoad(t) ==
  /\ manifest.exists /\ ~expired
  /\ AllReceived
  /\ FullSize
  /\ attempts < MaxAttempts
  /\ "hasty" \in Habits \/ (Receivers \cup Completers = {} /\ ~cancelled)
  /\ attempts' = attempts + 1
  /\ pc'       = [pc EXCEPT ![t] = "hash"]
  /\ attempt'  = [attempt EXCEPT ![t] = attempts + 1]
  /\ UNCHANGED <<chunk, loaded, sent, handle, fileVars, sessionVars, hash, object, row,
                 historyVars>>

\* The dump is read once for its hashes and its size, and once more to be stored.
HashDump(t) ==
  /\ pc[t] = "hash"
  /\ IF raw.exists
       THEN hash' = [hash EXCEPT ![attempt[t]] = raw.have] /\ Goto(t, "put")
       ELSE Finish(t) /\ UNCHANGED hash
  /\ UNCHANGED <<fileVars, sessionVars, attempts, object, row, historyVars>>

PutObject(t) ==
  /\ pc[t] = "put"
  /\ \/ /\ raw.exists
        /\ \E way \in Ways("storage") :
             /\ object' = IF Effect(way) THEN [object EXCEPT ![attempt[t]] = raw.have]
                                         ELSE object
             /\ IF way = "done" THEN Goto(t, "commit") ELSE Finish(t)
     \/ ~raw.exists /\ Finish(t) /\ UNCHANGED object
  /\ UNCHANGED <<fileVars, sessionVars, attempts, hash, row, historyVars>>

CommitEvidence(t) ==
  /\ pc[t] = "commit"
  /\ \/ /\ row' = [row EXCEPT ![attempt[t]] = TRUE]
        /\ \/ Goto(t, "refresh") /\ UNCHANGED lateError
           \/ "in_doubt" \in Faults /\ Finish(t) /\ lateError' = TRUE
     \/ "rollback" \in Faults /\ Finish(t) /\ UNCHANGED <<row, lateError>>
  /\ UNCHANGED <<fileVars, sessionVars, attempts, hash, object, answered>>

\* Mutated form: the session directory is left to the cleanup script.
SessionLeft  == "idle"
AfterRefresh == "unlink"

RefreshEvidence(t) ==
  /\ pc[t] = "refresh"
  /\ \/ /\ UNCHANGED lateError
        /\ IF AfterRefresh = "idle" THEN Finish(t) ELSE Goto(t, AfterRefresh)
     \/ "refresh" \in Faults /\ Finish(t) /\ lateError' = TRUE
  /\ UNCHANGED <<fileVars, sessionVars, evidenceVars, answered>>

-----------------------------------------------------------------------------
(***************************************************************************)
(* cancel_upload_session, the removal of a directory, and the environment. *)
(***************************************************************************)

CancelLoad(t) ==
  /\ dir
  /\ cancelled' = TRUE
  /\ Goto(t, "unlink")
  /\ UNCHANGED <<fileVars, started, expired, evidenceVars, historyVars>>

\* Whoever loads an expired manifest removes the session.
Expel(t) ==
  /\ manifest.exists /\ expired
  /\ Goto(t, "unlink")
  /\ UNCHANGED <<fileVars, sessionVars, evidenceVars, historyVars>>

\* cleanup_expired_upload_sessions: by the manifest, or without one by age.
Cleanup(t) ==
  /\ dir /\ expired
  /\ Goto(t, "unlink")
  /\ UNCHANGED <<fileVars, sessionVars, evidenceVars, historyVars>>

\* rmtree unlinks the files it finds, and fails, ignored, to remove a directory
\* that has got new ones.
Unlink(t) ==
  /\ pc[t] = "unlink"
  /\ manifest' = NoManifest
  /\ raw'      = NoRaw
  /\ temp'     = [c \in Chunk |-> NoTemp]
  /\ pc'       = [pc EXCEPT ![t] = "rmdir"]
  /\ handle'   = [u \in Thread |-> IF handle[u] = "named" THEN "unlinked" ELSE handle[u]]
  /\ UNCHANGED <<chunk, loaded, sent, attempt, dir, sessionVars, evidenceVars, historyVars>>

DirIsEmpty == ~manifest.exists /\ ~raw.exists /\ \A c \in Chunk : ~temp[c].exists

RemoveDir(t) ==
  /\ pc[t] = "rmdir"
  /\ dir' = (dir /\ ~DirIsEmpty)
  /\ Finish(t)
  /\ UNCHANGED <<manifest, raw, temp, sessionVars, evidenceVars, historyVars>>

Expire ==
  /\ "expiry" \in Faults
  /\ started /\ ~expired
  /\ expired' = TRUE
  /\ UNCHANGED <<threadVars, fileVars, started, cancelled, evidenceVars, historyVars>>

\* The API process dies and leaves the session's files.
Crash ==
  /\ "crash" \in Faults
  /\ \E t \in Thread : pc[t] # "idle"
  /\ pc'        = [t \in Thread |-> "idle"]
  /\ chunk'     = [t \in Thread |-> 1]
  /\ loaded'    = [t \in Thread |-> {}]
  /\ sent'      = [t \in Thread |-> 0]
  /\ handle'    = [t \in Thread |-> "none"]
  /\ attempt'   = [t \in Thread |-> 0]
  /\ lateError' = (lateError \/ \E t \in Thread : attempt[t] # 0 /\ row[attempt[t]])
  /\ UNCHANGED <<fileVars, sessionVars, evidenceVars, answered>>

-----------------------------------------------------------------------------
\* A request arrives at an idle thread.  One that is refused changes nothing.
Arrive(t) ==
  /\ pc[t] = "idle"
  /\ \/ \E c \in Chunk : ChunkLoad(t, c)
     \/ CompleteLoad(t)
     \/ CancelLoad(t)
     \/ Expel(t)
     \/ Cleanup(t)

Continue(t) ==
  \/ ChunkOpen(t) \/ ReceivePiece(t) \/ AbandonChunk(t)
  \/ MergeChunk(t) \/ SaveManifest(t)
  \/ HashDump(t) \/ PutObject(t) \/ CommitEvidence(t) \/ RefreshEvidence(t)
  \/ Unlink(t) \/ RemoveDir(t)

Next ==
  \/ InitiateSession
  \/ \E t \in Thread : Arrive(t) \/ Continue(t)
  \/ Expire
  \/ Crash

Spec == Init /\ [][Next]_vars

-----------------------------------------------------------------------------
FileFor(data) == [exists : BOOLEAN, have : data]

ThreadOK ==
  /\ pc      \in [Thread -> Step]
  /\ chunk   \in [Thread -> Chunk]
  /\ loaded  \in [Thread -> SUBSET Chunk]
  /\ sent    \in [Thread -> 0..2]
  /\ handle  \in [Thread -> {"none", "named", "unlinked"}]
  /\ attempt \in [Thread -> {0} \cup Attempt]

FilesOK ==
  /\ dir      \in BOOLEAN
  /\ manifest \in [exists : BOOLEAN, received : SUBSET Chunk]
  /\ raw      \in FileFor(Content)
  /\ temp     \in [Chunk -> FileFor(SUBSET Piece)]
  /\ ~DirIsEmpty => dir

EvidenceOK ==
  /\ attempts \in 0..MaxAttempts
  /\ hash     \in [Attempt -> Content \cup {NoContent}]
  /\ object   \in [Attempt -> Content \cup {NoContent}]
  /\ row      \in [Attempt -> BOOLEAN]

RequestOK(t) ==
  /\ handle[t] # "none" <=> pc[t] \in {"receive", "save"}
  /\ handle[t] = "named" => temp[chunk[t]].exists
  /\ pc[t] \in Completing => attempt[t] # 0
  /\ attempt[t] # 0 => pc[t] \in Completing \cup Removing

\* Threads, files and evidence have these shapes; a request has a temporary file
\* exactly while it receives, and only what is in a directory has a name.
TypeOK ==
  /\ started \in BOOLEAN /\ expired \in BOOLEAN /\ cancelled \in BOOLEAN
  /\ answered \subseteq Chunk /\ lateError \in BOOLEAN
  /\ ThreadOK
  /\ FilesOK
  /\ EvidenceOK
  /\ \A t \in Thread : RequestOK(t)

\* A registered dump has an object with every byte the client sent, and the stored
\* hashes are those of the object, whatever expires, is cancelled or dies around
\* the completion.
EvidenceWhole ==
  \A a \in Attempt : row[a] => object[a] = Whole /\ hash[a] = object[a]

\* While the session is live, every chunk answered with 200 is received according
\* to the manifest and in the dump.
AnsweredChunksThere ==
  manifest.exists /\ ~cancelled /\ ~expired =>
    \A c \in answered : /\ c \in manifest.received
                        /\ (LoopFree => raw.have[c] = Piece)

\* A dump is registered twice only by a client that was told of an error after
\* the first registration had been committed.
RegisteredOnce == Cardinality({a \in Attempt : row[a]}) > 1 => lateError

\* test_chunk_upload_allows_same_chunk_retry: a retry of a chunk is answered with
\* 200 and counts once.  What was answered is in the dump, though, only if the
\* retry does not overlap the request it repeats.
RetriedChunksThere ==
  manifest.exists /\ ~cancelled => \A c \in manifest.received : raw.have[c] = Piece
=============================================================================
