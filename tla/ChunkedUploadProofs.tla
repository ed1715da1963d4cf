------------------------ MODULE ChunkedUploadProofs ------------------------
(***************************************************************************)
(* Theorems about ChunkedUpload for any number of chunks, threads and      *)
(* completions, and any kinds of faults.                                   *)
(***************************************************************************)
EXTENDS ChunkedUpload, FiniteSetTheorems, TLAPS

USE DEF Receiving, Completing, Removing, Step, AfterRefresh

LEMMA ConstantFacts ==
  /\ 1 \in Chunk /\ ChunkCount \in Chunk
  /\ 0 \notin Attempt
  /\ 1 \in Piece /\ 2 \in Piece
  /\ Blank \in Content /\ Whole \in Content
  BY CountAssumption, AttemptsAssumption
     DEF Blank, Whole, Content, Chunk, Piece, Attempt

\* How a step moves its thread.
LEMMA GotoOK ==
  ASSUME ThreadOK, NEW t \in Thread, NEW next \in Step, Goto(t, next)
  PROVE  ThreadOK'
  BY DEF ThreadOK, Goto

LEMMA ResetOK ==
  ASSUME ThreadOK, NEW t \in Thread, Reset(t),
         handle' \in [Thread -> {"none", "named", "unlinked"}]
  PROVE  ThreadOK'
<1>1. pc' \in [Thread -> Step] /\ loaded' \in [Thread -> SUBSET Chunk]
  BY DEF ThreadOK, Reset
<1>2. chunk' \in [Thread -> Chunk] /\ sent' \in [Thread -> 0..2]
  BY ConstantFacts DEF ThreadOK, Reset
<1>3. attempt' \in [Thread -> {0} \cup Attempt]
  BY DEF ThreadOK, Reset
<1> QED BY <1>1, <1>2, <1>3 DEF ThreadOK

LEMMA FinishOK ==
  ASSUME ThreadOK, NEW t \in Thread, Finish(t)
  PROVE  ThreadOK'
  BY ResetOK DEF ThreadOK, Finish

LEMMA UnnameOK ==
  ASSUME ThreadOK, NEW t \in Thread, Unname(t),
         temp \in [Chunk -> FileFor(SUBSET Piece)]
  PROVE  /\ handle' \in [Thread -> {"none", "named", "unlinked"}]
         /\ handle'[t] = "none"
         /\ \A u \in Thread : u # t =>
              /\ handle'[u] = "none" <=> handle[u] = "none"
              /\ handle'[u] = "named" => handle[u] = "named" /\ chunk[u] # chunk[t]
         /\ temp' = [temp EXCEPT ![chunk[t]] = NoTemp]
         /\ temp' \in [Chunk -> FileFor(SUBSET Piece)]
<1>1. handle' \in [Thread -> {"none", "named", "unlinked"}]
  BY DEF Unname, ThreadOK
<1>2. handle'[t] = "none"
  BY DEF Unname
<1>3. temp' \in [Chunk -> FileFor(SUBSET Piece)]
  BY DEF Unname, ThreadOK, FileFor, NoTemp
<1>4. \A u \in Thread : u # t =>
        /\ handle'[u] = "none" <=> handle[u] = "none"
        /\ handle'[u] = "named" => handle[u] = "named" /\ chunk[u] # chunk[t]
  BY DEF Unname, ThreadOK
<1> QED BY <1>1, <1>2, <1>3, <1>4 DEF Unname

\* A request whose thread, file name and file did not change is still in order.
LEMMA RequestKept ==
  ASSUME NEW u \in Thread, RequestOK(u),
         pc'[u] = pc[u], chunk'[u] = chunk[u], handle'[u] = handle[u],
         attempt'[u] = attempt[u],
         handle[u] = "named" => temp'[chunk[u]].exists
  PROVE  RequestOK(u)'
  BY DEF RequestOK

LEMMA ChunkTypeInit == Init => TypeOK
<1> SUFFICES ASSUME Init PROVE TypeOK
  OBVIOUS
<1>1. ThreadOK
  BY ConstantFacts DEF Init, ThreadOK
<1>2. FilesOK
  BY ConstantFacts DEF Init, FilesOK, NoManifest, NoRaw, NoTemp, FileFor, DirIsEmpty
<1>3. EvidenceOK
  BY AttemptsAssumption DEF Init, EvidenceOK
<1>4. \A t \in Thread : RequestOK(t)
  BY DEF Init, RequestOK
<1> QED BY <1>1, <1>2, <1>3, <1>4 DEF Init, TypeOK

-----------------------------------------------------------------------------
\* The parts of TypeOK are preserved by every kind of step.
LEMMA ThreadStep == TypeOK /\ [Next]_vars => ThreadOK'
<1> SUFFICES ASSUME TypeOK, [Next]_vars PROVE ThreadOK'
  OBVIOUS
<1> USE DEF TypeOK
<1>1. CASE InitiateSession \/ Expire \/ UNCHANGED vars
  BY <1>1 DEF InitiateSession, Expire, vars, threadVars, ThreadOK
<1>2. CASE Crash
  BY <1>2, ConstantFacts DEF Crash, ThreadOK
<1>3. ASSUME NEW t \in Thread, Arrive(t) PROVE ThreadOK'
  <2>1. CASE \E c \in Chunk : ChunkLoad(t, c)
    BY <2>1 DEF ChunkLoad, ThreadOK, FilesOK
  <2>2. CASE CompleteLoad(t)
    <3>1. attempts + 1 \in Attempt
      BY <2>2, AttemptsAssumption DEF CompleteLoad, EvidenceOK, Attempt
    <3> QED BY <2>2, <3>1 DEF CompleteLoad, ThreadOK
  <2>3. CASE CancelLoad(t) \/ Expel(t) \/ Cleanup(t)
    BY <2>3, GotoOK DEF CancelLoad, Expel, Cleanup
  <2> QED BY <1>3, <2>1, <2>2, <2>3 DEF Arrive
<1>4. ASSUME NEW t \in Thread, Continue(t) PROVE ThreadOK'
  <2>1. CASE ChunkOpen(t)
    BY <2>1, FinishOK DEF ChunkOpen, ThreadOK
  <2>2. CASE ReceivePiece(t)
    BY <2>2 DEF ReceivePiece, ThreadOK
  <2>3. CASE AbandonChunk(t)
    BY <2>3, ResetOK, UnnameOK DEF AbandonChunk, FilesOK
  <2>4. CASE MergeChunk(t)
    BY <2>4, GotoOK, ResetOK, UnnameOK DEF MergeChunk, FilesOK
  <2>5. CASE SaveManifest(t)
    BY <2>5, ResetOK, UnnameOK DEF SaveManifest, FilesOK
  <2>6. CASE HashDump(t) \/ PutObject(t) \/ CommitEvidence(t)
    BY <2>6, GotoOK, FinishOK DEF HashDump, PutObject, CommitEvidence
  <2>7. CASE RefreshEvidence(t)
    BY <2>7, GotoOK, FinishOK DEF RefreshEvidence
  <2>8. CASE Unlink(t)
    BY <2>8 DEF Unlink, ThreadOK
  <2>9. CASE RemoveDir(t)
    BY <2>9, FinishOK DEF RemoveDir
  <2> QED BY <1>4, <2>1, <2>2, <2>3, <2>4, <2>5, <2>6, <2>7, <2>8, <2>9 DEF Continue
<1> QED BY <1>1, <1>2, <1>3, <1>4 DEF Next

LEMMA FilesStep == TypeOK /\ [Next]_vars => FilesOK'
<1> SUFFICES ASSUME TypeOK, [Next]_vars PROVE FilesOK'
  OBVIOUS
<1> USE DEF TypeOK, FilesOK, DirIsEmpty, FileFor, fileVars
<1>1. CASE InitiateSession
  <2>1. UNCHANGED temp /\ dir' = TRUE
    BY <1>1 DEF InitiateSession
  <2>2. CASE UNCHANGED <<manifest, raw>>
    BY <2>1, <2>2
  <2>3. CASE /\ manifest' = [exists |-> TRUE, received |-> {}]
             /\ raw' = [exists |-> TRUE, have |-> Blank]
    <3>1. raw' \in FileFor(Content)
      BY <2>3, ConstantFacts
    <3> QED BY <2>1, <2>3, <3>1
  <2> QED BY <1>1, <2>2, <2>3 DEF InitiateSession
<1>2. CASE Expire \/ Crash \/ UNCHANGED vars
  BY <1>2 DEF Expire, Crash, vars
<1>3. ASSUME NEW t \in Thread, Arrive(t) PROVE FilesOK'
  BY <1>3 DEF Arrive, ChunkLoad, CompleteLoad, CancelLoad, Expel, Cleanup
<1>4. ASSUME NEW t \in Thread, Continue(t) PROVE FilesOK'
  <2> chunk[t] \in Chunk
    BY DEF ThreadOK
  <2>1. CASE ChunkOpen(t)
    <3>1. CASE dir
      <4>1. temp' = [temp EXCEPT ![chunk[t]] = [exists |-> TRUE, have |-> {}]]
            \/ UNCHANGED temp
        BY <2>1 DEF ChunkOpen
      <4>2. temp' \in [Chunk -> FileFor(SUBSET Piece)]
        <5> DEFINE empty == [exists |-> TRUE, have |-> {}]
        <5>1. empty \in FileFor(SUBSET Piece)
          OBVIOUS
        <5> HIDE DEF empty
        <5>2. temp' = [temp EXCEPT ![chunk[t]] = empty] \/ UNCHANGED temp
          BY <4>1 DEF empty
        <5> QED BY <5>1, <5>2
      <4> QED BY <2>1, <3>1, <4>2 DEF ChunkOpen
    <3>2. CASE ~dir
      BY <2>1, <3>2 DEF ChunkOpen
    <3> QED BY <3>1, <3>2
  <2>2. CASE ReceivePiece(t)
    <3>1. CASE handle[t] = "named"
      <4>1. temp[chunk[t]].have \cup {sent[t] + 1} \in SUBSET Piece
        <5>1. sent[t] + 1 \in Piece
          <6>1. sent[t] \in 0..2 /\ sent[t] < 2
            BY <2>2 DEF ReceivePiece, ThreadOK
          <6> QED BY <6>1 DEF Piece
        <5> QED BY <5>1
      <4>2. temp' \in [Chunk -> FileFor(SUBSET Piece)]
        BY <2>2, <3>1, <4>1 DEF ReceivePiece
      <4>3. temp[chunk[t]].exists
        BY <3>1 DEF RequestOK
      <4>4. dir
        BY <4>3
      <4> QED BY <2>2, <4>2, <4>4 DEF ReceivePiece
    <3>2. CASE handle[t] # "named"
      BY <2>2, <3>2 DEF ReceivePiece
    <3> QED BY <3>1, <3>2
  <2>3. CASE AbandonChunk(t)
    <3>1. temp' \in [Chunk -> FileFor(SUBSET Piece)] /\ temp' = [temp EXCEPT ![chunk[t]] = NoTemp]
      BY <2>3, UnnameOK DEF AbandonChunk
    <3> QED BY <2>3, <3>1 DEF AbandonChunk, NoTemp
  <2>4. CASE MergeChunk(t)
    <3>1. CASE dir /\ temp[chunk[t]].exists
      <4>1. Merged(raw.have[chunk[t]], temp[chunk[t]].have) \in SUBSET Piece
        BY DEF Merged, Content
      <4>2. raw'.have \in Content /\ raw' \in FileFor(Content)
        <5> DEFINE merged == [raw.have EXCEPT ![chunk[t]] =
                                Merged(@, temp[chunk[t]].have)]
        <5>1. raw' = [exists |-> TRUE, have |-> merged]
          BY <2>4, <3>1 DEF MergeChunk
        <5>2. merged \in Content
          BY <4>1 DEF Content
        <5> HIDE DEF merged
        <5> QED BY <5>1, <5>2
      <4> QED BY <2>4, <3>1, <4>2 DEF MergeChunk
    <3>2. CASE ~(dir /\ temp[chunk[t]].exists)
      <4>1. temp' \in [Chunk -> FileFor(SUBSET Piece)]
            /\ temp' = [temp EXCEPT ![chunk[t]] = NoTemp]
        BY <2>4, <3>2, UnnameOK DEF MergeChunk
      <4> QED BY <2>4, <3>2, <4>1 DEF MergeChunk, NoTemp
    <3> QED BY <3>1, <3>2
  <2>5. CASE SaveManifest(t)
    <3>1. temp' \in [Chunk -> FileFor(SUBSET Piece)] /\ temp' = [temp EXCEPT ![chunk[t]] = NoTemp]
      BY <2>5, UnnameOK DEF SaveManifest
    <3>2. WithChunk(loaded[t], chunk[t]) \in SUBSET Chunk
      BY DEF WithChunk, ThreadOK
    <3>3. CASE dir
      <4>1. manifest' = [exists |-> TRUE, received |-> WithChunk(loaded[t], chunk[t])]
            /\ UNCHANGED <<dir, raw>>
        BY <2>5, <3>3 DEF SaveManifest
      <4> QED BY <3>1, <3>2, <3>3, <4>1
    <3>4. CASE ~dir
      BY <2>5, <3>1, <3>4 DEF SaveManifest, NoTemp
    <3> QED BY <3>3, <3>4
  <2>6. CASE HashDump(t) \/ PutObject(t) \/ CommitEvidence(t) \/ RefreshEvidence(t)
    BY <2>6 DEF HashDump, PutObject, CommitEvidence, RefreshEvidence
  <2>7. CASE Unlink(t)
    BY <2>7, ConstantFacts DEF Unlink, NoManifest, NoRaw, NoTemp
  <2>8. CASE RemoveDir(t)
    BY <2>8 DEF RemoveDir
  <2> QED BY <1>4, <2>1, <2>2, <2>3, <2>4, <2>5, <2>6, <2>7, <2>8 DEF Continue
<1> QED BY <1>1, <1>2, <1>3, <1>4 DEF Next

LEMMA EvidenceStep == TypeOK /\ [Next]_vars => EvidenceOK'
<1> SUFFICES ASSUME TypeOK, [Next]_vars PROVE EvidenceOK'
  OBVIOUS
<1> USE DEF TypeOK, EvidenceOK, evidenceVars
<1>1. CASE InitiateSession \/ Expire \/ Crash \/ UNCHANGED vars
  BY <1>1 DEF InitiateSession, Expire, Crash, vars
<1>2. ASSUME NEW t \in Thread, Arrive(t) PROVE EvidenceOK'
  BY <1>2, AttemptsAssumption
     DEF Arrive, ChunkLoad, CompleteLoad, CancelLoad, Expel, Cleanup
<1>3. ASSUME NEW t \in Thread, Continue(t) PROVE EvidenceOK'
  <2>1. raw.have \in Content
    BY DEF FilesOK, FileFor
  <2>2. CASE HashDump(t)
    BY <2>1, <2>2 DEF HashDump
  <2>3. CASE PutObject(t)
    BY <2>1, <2>3 DEF PutObject
  <2>4. CASE CommitEvidence(t)
    BY <2>4 DEF CommitEvidence
  <2> QED BY <1>3, <2>2, <2>3, <2>4
     DEF Continue, ChunkOpen, ReceivePiece, AbandonChunk, MergeChunk, SaveManifest,
         RefreshEvidence, Unlink, RemoveDir
<1> QED BY <1>1, <1>2, <1>3 DEF Next

\* A request that gives up its temporary file leaves the others in order.
LEMMA UnnamedOK ==
  ASSUME TypeOK, NEW t \in Thread, Reset(t), Unname(t), NEW u \in Thread
  PROVE  RequestOK(u)'
<1>1. ThreadOK /\ temp \in [Chunk -> FileFor(SUBSET Piece)] /\ RequestOK(u)
  BY DEF TypeOK, FilesOK
<1>2. CASE u = t
  <2>1. pc'[t] = "idle" /\ attempt'[t] = 0
    BY <1>1 DEF Reset, ThreadOK
  <2>2. handle'[t] = "none"
    BY <1>1, UnnameOK
  <2> QED BY <1>2, <2>1, <2>2 DEF RequestOK
<1>3. CASE u # t
  <2>1. pc'[u] = pc[u] /\ attempt'[u] = attempt[u] /\ chunk'[u] = chunk[u]
    BY <1>1, <1>3 DEF Reset, ThreadOK
  <2>2. /\ handle'[u] = "none" <=> handle[u] = "none"
        /\ handle'[u] = "named" => handle[u] = "named" /\ chunk[u] # chunk[t]
        /\ temp' = [temp EXCEPT ![chunk[t]] = NoTemp]
    BY <1>1, <1>3, UnnameOK
  <2>3. handle'[u] = "named" => temp'[chunk[u]] = temp[chunk[u]]
    BY <1>1, <2>2 DEF ThreadOK
  <2> QED BY <1>1, <2>1, <2>2, <2>3 DEF RequestOK
<1> QED BY <1>2, <1>3

LEMMA RequestStep ==
  ASSUME TypeOK, [Next]_vars, NEW u \in Thread
  PROVE  RequestOK(u)'
<1> USE DEF TypeOK
<1>1. CASE InitiateSession \/ Expire \/ UNCHANGED vars
  BY <1>1, RequestKept DEF InitiateSession, Expire, vars, threadVars, fileVars, RequestOK
<1>2. CASE Crash
  BY <1>2 DEF Crash, RequestOK
<1>3. ASSUME NEW t \in Thread, Arrive(t) PROVE RequestOK(u)'
  <2>1. handle[t] = "none" /\ pc[t] = "idle" /\ attempt[t] = 0 /\ RequestOK(u)
    BY <1>3 DEF Arrive, RequestOK
  <2>2. CASE \E c \in Chunk : ChunkLoad(t, c)
    BY <2>1, <2>2 DEF ChunkLoad, RequestOK, ThreadOK, fileVars
  <2>3. CASE CompleteLoad(t)
    <3>1. attempts + 1 # 0
      BY AttemptsAssumption DEF EvidenceOK
    <3> QED BY <2>1, <2>3, <3>1 DEF CompleteLoad, RequestOK, ThreadOK, fileVars
  <2>4. CASE CancelLoad(t) \/ Expel(t) \/ Cleanup(t)
    BY <2>1, <2>4 DEF CancelLoad, Expel, Cleanup, Goto, RequestOK, ThreadOK, fileVars
  <2> QED BY <1>3, <2>2, <2>3, <2>4 DEF Arrive
<1>4. ASSUME NEW t \in Thread, Continue(t) PROVE RequestOK(u)'
  <2>1. RequestOK(t) /\ RequestOK(u) /\ chunk[t] \in Chunk /\ chunk[u] \in Chunk
    BY DEF ThreadOK
  <2>2. CASE ChunkOpen(t)
    BY <2>1, <2>2 DEF ChunkOpen, Finish, Reset, RequestOK, ThreadOK, FilesOK
  <2>3. CASE ReceivePiece(t)
    BY <2>1, <2>3 DEF ReceivePiece, RequestOK, ThreadOK, FilesOK
  <2>4. CASE AbandonChunk(t)
    <3>1. Reset(t) /\ Unname(t)
      BY <2>4 DEF AbandonChunk
    <3> QED BY <3>1, UnnamedOK
  <2>5. CASE MergeChunk(t)
    <3>1. CASE Goto(t, "save") /\ UNCHANGED temp
      BY <2>1, <2>5, <3>1 DEF MergeChunk, Goto, RequestOK, ThreadOK
    <3>2. CASE Reset(t) /\ Unname(t)
      BY <3>2, UnnamedOK
    <3> QED BY <2>5, <3>1, <3>2 DEF MergeChunk
  <2>6. CASE SaveManifest(t)
    <3>1. Reset(t) /\ Unname(t)
      BY <2>6 DEF SaveManifest
    <3> QED BY <3>1, UnnamedOK
  <2>7. CASE HashDump(t) \/ PutObject(t) \/ CommitEvidence(t) \/ RefreshEvidence(t)
    <3>1. pc[t] \in Completing /\ UNCHANGED <<temp, handle>> /\ handle[t] = "none"
      BY <2>1, <2>7 DEF HashDump, PutObject, CommitEvidence, RefreshEvidence, fileVars, Goto,
                        Finish, RequestOK
    <3>2. (\E next \in Completing \cup Removing : Goto(t, next)) \/ Finish(t)
      BY <2>7 DEF HashDump, PutObject, CommitEvidence, RefreshEvidence
    <3> QED BY <2>1, <3>1, <3>2 DEF Goto, Finish, Reset, RequestOK, ThreadOK
  <2>8. CASE Unlink(t)
    BY <2>1, <2>8 DEF Unlink, RequestOK, ThreadOK
  <2>9. CASE RemoveDir(t)
    BY <2>1, <2>9 DEF RemoveDir, Finish, Reset, RequestOK, ThreadOK
  <2> QED BY <1>4, <2>2, <2>3, <2>4, <2>5, <2>6, <2>7, <2>8, <2>9 DEF Continue
<1> QED BY <1>1, <1>2, <1>3, <1>4 DEF Next

LEMMA SessionTypeStep ==
  ASSUME TypeOK, [Next]_vars
  PROVE  /\ started' \in BOOLEAN /\ expired' \in BOOLEAN /\ cancelled' \in BOOLEAN
         /\ answered' \subseteq Chunk /\ lateError' \in BOOLEAN
<1> USE DEF TypeOK, sessionVars, historyVars
<1>1. CASE InitiateSession \/ Expire \/ Crash \/ UNCHANGED vars
  BY <1>1 DEF InitiateSession, Expire, Crash, vars
<1>2. ASSUME NEW t \in Thread, Arrive(t)
      PROVE  /\ started' \in BOOLEAN /\ expired' \in BOOLEAN /\ cancelled' \in BOOLEAN
             /\ answered' \subseteq Chunk /\ lateError' \in BOOLEAN
  BY <1>2 DEF Arrive, ChunkLoad, CompleteLoad, CancelLoad, Expel, Cleanup
<1>3. ASSUME NEW t \in Thread, Continue(t)
      PROVE  /\ started' \in BOOLEAN /\ expired' \in BOOLEAN /\ cancelled' \in BOOLEAN
             /\ answered' \subseteq Chunk /\ lateError' \in BOOLEAN
  <2>1. UNCHANGED <<started, expired, cancelled>>
    BY <1>3 DEF Continue, ChunkOpen, ReceivePiece, AbandonChunk, MergeChunk, SaveManifest,
                HashDump, PutObject, CommitEvidence, RefreshEvidence, Unlink, RemoveDir
  <2>2. answered' \subseteq Chunk
    BY <1>3 DEF Continue, ThreadOK, ChunkOpen, ReceivePiece, AbandonChunk, MergeChunk,
                SaveManifest, HashDump, PutObject, CommitEvidence, RefreshEvidence, Unlink,
                RemoveDir
  <2>3. lateError' \in BOOLEAN
    BY <1>3 DEF Continue, ChunkOpen, ReceivePiece, AbandonChunk, MergeChunk, SaveManifest,
                HashDump, PutObject, CommitEvidence, RefreshEvidence, Unlink, RemoveDir
  <2> QED BY <2>1, <2>2, <2>3
<1> QED BY <1>1, <1>2, <1>3 DEF Next

LEMMA ChunkTypeStep == TypeOK /\ [Next]_vars => TypeOK'
  BY ThreadStep, FilesStep, EvidenceStep, RequestStep, SessionTypeStep DEF TypeOK

\* Whatever the client sends, whenever, and whatever fails, threads, files and
\* evidence keep their shapes, a request has a temporary file open exactly while it
\* receives, and a file with a name is in an existing directory.
THEOREM ChunkTypeCorrect == Spec => []TypeOK
<1>1. Init => TypeOK
  BY ChunkTypeInit
<1>2. TypeOK /\ [Next]_vars => TypeOK'
  BY ChunkTypeStep
<1> QED BY <1>1, <1>2, PTL DEF Spec

-----------------------------------------------------------------------------
(***************************************************************************)
(* A client that sends chunks in parallel, but none of them twice at the   *)
(* same time and nothing during a completion or after a cancel.            *)
(***************************************************************************)
Polite == Habits \subseteq {"parallel"}

\* Nothing happens to a session before it is initiated.
StartInv == ~started => ~dir /\ \A t \in Thread : pc[t] = "idle"

\* A client that does not resend has one request per chunk, so the chunk's temporary
\* file holds what that request has read, or was removed with the directory.
ReceiverInv ==
  /\ \A t, u \in Thread :
       t # u /\ pc[t] \in Receiving /\ pc[u] \in Receiving => chunk[t] # chunk[u]
  /\ \A t \in Thread : pc[t] = "receive" =>
       /\ handle[t] = "named" => temp[chunk[t]].have = 1..sent[t]
       /\ handle[t] = "unlinked" => ~temp[chunk[t]].exists
  /\ \A t \in Thread : pc[t] \in {"idle", "open"} => sent[t] = 0

\* No chunk is received during a completion, nor, while the session is live, when
\* its directory is being removed.
Live == ~cancelled /\ ~expired
PhaseInv ==
  \A t, u \in Thread : pc[t] \in Receiving =>
    /\ pc[u] \notin Completing
    /\ Live => pc[u] \notin Removing

\* What the manifest of a live session lists, or a request is about to list, is in
\* the dump.
ManifestInv ==
  Live =>
    /\ manifest.exists => \A c \in manifest.received : raw.have[c] = Piece
    /\ \A t \in Thread : pc[t] \in Receiving =>
         /\ \A c \in loaded[t] : raw.have[c] = Piece
         /\ pc[t] = "save" => raw.have[chunk[t]] = Piece

\* A completion reads, hashes and stores the whole dump or finds none.
DumpInv ==
  \A t \in Thread :
    /\ pc[t] \in {"hash", "put"} /\ raw.exists => raw.have = Whole
    /\ pc[t] \in {"put", "commit"} => hash[attempt[t]] = Whole
    /\ pc[t] = "commit" => object[attempt[t]] = Whole

WholeInv ==
  StartInv /\ ReceiverInv /\ PhaseInv /\ ManifestInv /\ DumpInv /\ EvidenceWhole

LEMMA WholeInit == Init => WholeInv
  BY DEF Init, WholeInv, StartInv, ReceiverInv, PhaseInv, ManifestInv, DumpInv,
         EvidenceWhole, NoManifest

\* A request that is being served stays with its kind of work until it ends.
LEMMA ContinueMoves ==
  ASSUME TypeOK, NEW t \in Thread, Continue(t)
  PROVE  /\ pc[t] # "idle"
         /\ pc[t] \in Receiving => pc'[t] \in Receiving \cup {"idle"}
         /\ pc[t] \in Completing => pc'[t] \in Completing \cup Removing \cup {"idle"}
         /\ pc[t] \in Removing => pc'[t] \in Removing \cup {"idle"}
         /\ \A u \in Thread : u # t => pc'[u] = pc[u]
         /\ UNCHANGED <<started, expired, cancelled>>
<1> USE DEF TypeOK, ThreadOK, sessionVars
<1>1. CASE ChunkOpen(t) \/ ReceivePiece(t) \/ AbandonChunk(t)
  BY <1>1 DEF ChunkOpen, ReceivePiece, AbandonChunk, Finish, Reset
<1>2. CASE MergeChunk(t) \/ SaveManifest(t)
  BY <1>2 DEF MergeChunk, SaveManifest, Goto, Reset
<1>3. CASE HashDump(t) \/ PutObject(t) \/ CommitEvidence(t) \/ RefreshEvidence(t)
  <2>1. (\E next \in Completing \cup Removing : Goto(t, next)) \/ Finish(t)
    BY <1>3 DEF HashDump, PutObject, CommitEvidence, RefreshEvidence
  <2>2. pc[t] \in Completing /\ UNCHANGED <<started, expired, cancelled>>
    BY <1>3 DEF HashDump, PutObject, CommitEvidence, RefreshEvidence
  <2> QED BY <2>1, <2>2 DEF Goto, Finish, Reset
<1>4. CASE Unlink(t) \/ RemoveDir(t)
  BY <1>4 DEF Unlink, RemoveDir, Finish, Reset
<1> QED BY <1>1, <1>2, <1>3, <1>4 DEF Continue

LEMMA StartStep ==
  ASSUME TypeOK, StartInv, [Next]_vars
  PROVE  StartInv'
<1> SUFFICES ASSUME ~started' PROVE ~dir' /\ \A t \in Thread : pc'[t] = "idle"
  BY DEF StartInv
<1> USE DEF TypeOK, FilesOK, DirIsEmpty, StartInv
<1>1. CASE InitiateSession \/ Expire \/ Crash \/ UNCHANGED vars
  BY <1>1 DEF InitiateSession, Expire, Crash, vars, sessionVars, threadVars, fileVars
<1>2. ASSUME NEW t \in Thread, Arrive(t) PROVE FALSE
  <2>1. started' = started
    BY <1>2 DEF Arrive, ChunkLoad, CompleteLoad, CancelLoad, Expel, Cleanup, sessionVars
  <2>2. ~dir /\ ~manifest.exists
    BY <2>1
  <2> QED BY <1>2, <2>2 DEF Arrive, ChunkLoad, CompleteLoad, CancelLoad, Expel, Cleanup
<1>3. ASSUME NEW t \in Thread, Continue(t) PROVE FALSE
  BY <1>3, ContinueMoves
<1> QED BY <1>1, <1>2, <1>3 DEF Next

LEMMA PhaseStep ==
  ASSUME Polite, TypeOK, PhaseInv, [Next]_vars
  PROVE  PhaseInv'
<1> USE DEF Live
<1>1. CASE InitiateSession \/ Expire \/ UNCHANGED vars
  BY <1>1 DEF InitiateSession, Expire, vars, sessionVars, threadVars, PhaseInv
<1>2. CASE Crash
  BY <1>2 DEF Crash, PhaseInv
<1>3. ASSUME NEW t \in Thread, Arrive(t) PROVE PhaseInv'
  <2>1. pc[t] = "idle" /\ pc \in [Thread -> Step]
    BY <1>3 DEF Arrive, TypeOK, ThreadOK
  <2>2. CASE \E c \in Chunk : ChunkLoad(t, c)
    <3>1. Completers = {} /\ pc' = [pc EXCEPT ![t] = "open"]
      BY <2>2 DEF ChunkLoad, MaySend, Polite
    <3> QED BY <2>1, <3>1 DEF Completers, PhaseInv
  <2>3. CASE CompleteLoad(t)
    <3>1. Receivers = {} /\ pc' = [pc EXCEPT ![t] = "hash"]
      BY <2>3 DEF CompleteLoad, Polite
    <3> QED BY <2>1, <3>1 DEF Receivers, PhaseInv
  <2>4. CASE CancelLoad(t) \/ Expel(t) \/ Cleanup(t)
    <3>1. pc' = [pc EXCEPT ![t] = "unlink"] /\ (cancelled' \/ expired')
      BY <2>4 DEF CancelLoad, Expel, Cleanup, Goto, sessionVars
    <3> QED BY <2>1, <3>1 DEF PhaseInv
  <2> QED BY <1>3, <2>2, <2>3, <2>4 DEF Arrive
<1>4. ASSUME NEW t \in Thread, Continue(t) PROVE PhaseInv'
  <2>1. pc \in [Thread -> Step]
    BY DEF TypeOK, ThreadOK
  <2>2. Live' = Live
    BY <1>4, ContinueMoves
  <2> SUFFICES ASSUME NEW u \in Thread, NEW v \in Thread, pc'[u] \in Receiving
               PROVE  pc'[v] \notin Completing /\ (Live => pc'[v] \notin Removing)
    BY <2>2 DEF PhaseInv
  <2>3. pc[u] \in Receiving
    BY <1>4, <2>1, ContinueMoves
  <2>4. pc[v] \notin Completing /\ (Live => pc[v] \notin Removing)
    BY <2>3 DEF PhaseInv
  <2> QED BY <1>4, <2>1, <2>4, ContinueMoves
<1> QED BY <1>1, <1>2, <1>3, <1>4 DEF Next

LEMMA ReceiverStep ==
  ASSUME Polite, TypeOK, ReceiverInv, [Next]_vars
  PROVE  ReceiverInv'
<1> USE DEF ReceiverInv
<1>1. CASE InitiateSession \/ Expire \/ UNCHANGED vars
  BY <1>1 DEF InitiateSession, Expire, vars, threadVars, fileVars
<1>2. CASE Crash
  BY <1>2 DEF Crash
<1>3. ASSUME NEW t \in Thread, Arrive(t) PROVE ReceiverInv'
  <2>1. pc[t] = "idle" /\ ThreadOK
    BY <1>3 DEF Arrive, TypeOK
  <2>2. CASE \E c \in Chunk : ChunkLoad(t, c)
    <3>1. PICK c \in Chunk : ChunkLoad(t, c)
      BY <2>2
    <3>2. \A u \in Thread : pc[u] \in Receiving => chunk[u] # c
      BY <3>1 DEF ChunkLoad, MaySend, Receivers, Polite
    <3> QED BY <2>1, <3>1, <3>2 DEF ChunkLoad, fileVars, ThreadOK
  <2>3. CASE CompleteLoad(t) \/ CancelLoad(t) \/ Expel(t) \/ Cleanup(t)
    BY <2>1, <2>3 DEF CompleteLoad, CancelLoad, Expel, Cleanup, Goto, fileVars, ThreadOK
  <2> QED BY <1>3, <2>2, <2>3 DEF Arrive
<1>4. ASSUME NEW t \in Thread, Continue(t) PROVE ReceiverInv'
  <2>1. ThreadOK /\ FilesOK /\ RequestOK(t) /\ chunk[t] \in Chunk
    BY DEF TypeOK, ThreadOK
  <2>2. CASE ChunkOpen(t)
    <3>1. CASE dir /\ pc'[t] = "receive"
      <4>1. temp' = [temp EXCEPT ![chunk[t]] = [exists |-> TRUE, have |-> {}]]
            /\ handle' = [handle EXCEPT ![t] = "named"]
            /\ pc' = [pc EXCEPT ![t] = "receive"]
            /\ UNCHANGED <<chunk, sent>>
        BY <2>1, <2>2, <3>1 DEF ChunkOpen, Finish, Reset, ThreadOK
      <4>2. sent[t] = 0 /\ pc[t] = "open"
        BY <2>2 DEF ChunkOpen
      <4>3. temp'[chunk[t]].have = 1..sent'[t]
        BY <2>1, <4>1, <4>2 DEF FilesOK
      <4>4. \A u \in Thread : u # t /\ pc[u] \in Receiving =>
              temp'[chunk[u]] = temp[chunk[u]]
        BY <2>1, <4>1, <4>2 DEF FilesOK, ThreadOK
      <4>5. \A u \in Thread : u # t => /\ pc'[u] = pc[u] /\ chunk'[u] = chunk[u]
                                         /\ sent'[u] = sent[u] /\ handle'[u] = handle[u]
        BY <2>1, <4>1 DEF ThreadOK
      <4>6. pc'[t] = "receive" /\ handle'[t] = "named" /\ chunk' = chunk
        BY <2>1, <4>1 DEF ThreadOK
      <4> QED BY <4>2, <4>3, <4>4, <4>5, <4>6
    <3>2. CASE Finish(t) /\ UNCHANGED temp
      BY <2>1, <3>2 DEF Finish, Reset, ThreadOK
    <3>3. (Finish(t) /\ UNCHANGED temp) \/ (dir /\ pc'[t] = "receive")
      <4>1. pc \in [Thread -> Step]
        BY <2>1 DEF ThreadOK
      <4>2. CASE dir /\ pc' = [pc EXCEPT ![t] = "receive"]
        BY <4>1, <4>2
      <4>3. CASE ~(dir /\ pc' = [pc EXCEPT ![t] = "receive"])
        BY <2>2, <4>3 DEF ChunkOpen
      <4> QED BY <4>2, <4>3
    <3> QED BY <3>1, <3>2, <3>3
  <2>3. CASE ReceivePiece(t)
    <3>1. /\ sent' = [sent EXCEPT ![t] = sent[t] + 1]
          /\ UNCHANGED <<pc, chunk, handle>>
          /\ pc[t] = "receive" /\ sent[t] \in 0..2
      BY <2>1, <2>3 DEF ReceivePiece, ThreadOK
    <3>2. handle[t] = "named" => temp'[chunk[t]].have = 1..sent'[t]
      <4>1. handle[t] = "named" =>
              temp'[chunk[t]].have = temp[chunk[t]].have \cup {sent[t] + 1}
        BY <2>1, <2>3 DEF ReceivePiece, FilesOK
      <4>2. (1..sent[t]) \cup {sent[t] + 1} = 1..(sent[t] + 1)
        BY <3>1
      <4> QED BY <2>1, <3>1, <4>1, <4>2 DEF ThreadOK
    <3>3. handle[t] = "unlinked" => temp' = temp
      BY <2>3 DEF ReceivePiece
    <3>4. \A u \in Thread : u # t /\ pc[u] \in Receiving =>
            temp'[chunk[u]] = temp[chunk[u]]
      BY <2>1, <2>3, <3>1 DEF ReceivePiece, FilesOK, ThreadOK
    <3>5. \A u \in Thread : u # t => sent'[u] = sent[u]
      BY <2>1, <3>1 DEF ThreadOK
    <3> QED BY <3>1, <3>2, <3>3, <3>4, <3>5
  <2>4. CASE Reset(t) /\ Unname(t) /\ pc[t] \in Receiving
    <3>1. temp' = [temp EXCEPT ![chunk[t]] = NoTemp] /\ handle'[t] = "none"
      BY <2>1, <2>4, UnnameOK DEF FilesOK
    <3>2. \A u \in Thread : u # t /\ pc[u] \in Receiving =>
            /\ temp'[chunk[u]] = temp[chunk[u]]
            /\ handle'[u] = handle[u]
      BY <2>1, <2>4, <3>1 DEF Unname, FilesOK, ThreadOK
    <3>3. /\ pc' = [pc EXCEPT ![t] = "idle"]
          /\ chunk' = [chunk EXCEPT ![t] = 1]
          /\ sent' = [sent EXCEPT ![t] = 0]
      BY <2>4 DEF Reset
    <3> QED BY <2>1, <2>4, <3>1, <3>2, <3>3 DEF ThreadOK
  <2>5. CASE MergeChunk(t) /\ Goto(t, "save") /\ UNCHANGED temp
    BY <2>1, <2>5 DEF MergeChunk, Goto, ThreadOK
  <2>6. CASE HashDump(t) \/ PutObject(t) \/ CommitEvidence(t) \/ RefreshEvidence(t)
    <3>1. (\E next \in Completing \cup Removing : Goto(t, next)) \/ Finish(t)
      BY <2>6 DEF HashDump, PutObject, CommitEvidence, RefreshEvidence
    <3>2. UNCHANGED <<temp, handle>> /\ pc[t] \in Completing
      BY <2>6, <3>1 DEF HashDump, PutObject, CommitEvidence, RefreshEvidence, fileVars,
                        Goto, Finish
    <3> QED BY <2>1, <3>1, <3>2 DEF Goto, Finish, Reset, ThreadOK
  <2>7. CASE Unlink(t)
    <3>1. \A u \in Thread : handle'[u] # "named" /\ ~temp'[chunk[u]].exists
      BY <2>1, <2>7 DEF Unlink, NoTemp, ThreadOK
    <3> QED BY <2>1, <2>7, <3>1 DEF Unlink, ThreadOK
  <2>8. CASE RemoveDir(t)
    BY <2>1, <2>8 DEF RemoveDir, Finish, Reset, ThreadOK
  <2>9. MergeChunk(t) \/ AbandonChunk(t) \/ SaveManifest(t) =>
          \/ Reset(t) /\ Unname(t) /\ pc[t] \in Receiving
          \/ MergeChunk(t) /\ Goto(t, "save") /\ UNCHANGED temp
    BY DEF MergeChunk, AbandonChunk, SaveManifest
  <2> QED BY <1>4, <2>2, <2>3, <2>4, <2>5, <2>6, <2>7, <2>8, <2>9 DEF Continue
<1> QED BY <1>1, <1>2, <1>3, <1>4 DEF Next

\* A request that reaches the merge copies its whole chunk.
LEMMA MergedIsPiece ==
  ASSUME TypeOK, ReceiverInv, NEW t \in Thread, MergeChunk(t), dir, temp[chunk[t]].exists
  PROVE  /\ raw' = [exists |-> TRUE, have |-> [raw.have EXCEPT ![chunk[t]] = Piece]]
         /\ Goto(t, "save")
<1>1. handle[t] = "named"
  BY DEF MergeChunk, TypeOK, RequestOK, ThreadOK, ReceiverInv
<1>2. temp[chunk[t]].have = Piece
  BY <1>1 DEF MergeChunk, ReceiverInv, Piece
<1>3. raw.have[chunk[t]] \subseteq Piece
  BY DEF TypeOK, ThreadOK, FilesOK, FileFor, Content
<1>4. Merged(raw.have[chunk[t]], temp[chunk[t]].have) = Piece
  BY <1>2, <1>3 DEF Merged
<1> QED BY <1>4 DEF MergeChunk

LEMMA ManifestStep ==
  ASSUME Polite, TypeOK, WholeInv, [Next]_vars
  PROVE  ManifestInv'
<1> USE DEF WholeInv, Live
<1>1. CASE InitiateSession
  <2>1. \A t \in Thread : pc'[t] = "idle"
    BY <1>1 DEF InitiateSession, StartInv, threadVars
  <2>2. manifest'.exists => manifest'.received = {}
    BY <1>1 DEF InitiateSession, StartInv, TypeOK, FilesOK, DirIsEmpty
  <2> QED BY <2>1, <2>2 DEF ManifestInv
<1>2. CASE Expire \/ UNCHANGED vars
  BY <1>2 DEF Expire, vars, sessionVars, threadVars, fileVars, ManifestInv
<1>3. CASE Crash
  BY <1>3 DEF Crash, sessionVars, fileVars, ManifestInv
<1>4. ASSUME NEW t \in Thread, Arrive(t) PROVE ManifestInv'
  <2>1. pc[t] = "idle" /\ ThreadOK
    BY <1>4 DEF Arrive, TypeOK
  <2>2. CASE \E c \in Chunk : ChunkLoad(t, c)
    BY <2>1, <2>2 DEF ChunkLoad, ManifestInv, ThreadOK, sessionVars, fileVars
  <2>3. CASE CompleteLoad(t)
    BY <2>1, <2>3 DEF CompleteLoad, ManifestInv, ThreadOK, sessionVars, fileVars
  <2>4. CASE CancelLoad(t)
    BY <2>4 DEF CancelLoad, ManifestInv
  <2>5. CASE Expel(t) \/ Cleanup(t)
    BY <2>5 DEF Expel, Cleanup, ManifestInv, sessionVars
  <2> QED BY <1>4, <2>2, <2>3, <2>4, <2>5 DEF Arrive
<1>5. ASSUME NEW t \in Thread, Continue(t) PROVE ManifestInv'
  <2> SUFFICES ASSUME Live
               PROVE  /\ manifest'.exists => \A c \in manifest'.received : raw'.have[c] = Piece
                      /\ \A u \in Thread : pc'[u] \in Receiving =>
                           /\ \A c \in loaded'[u] : raw'.have[c] = Piece
                           /\ pc'[u] = "save" => raw'.have[chunk'[u]] = Piece
    BY <1>5, ContinueMoves DEF ManifestInv
  <2>1. ThreadOK /\ FilesOK /\ chunk[t] \in Chunk
    BY DEF TypeOK, ThreadOK
  <2>2. CASE Reset(t) /\ UNCHANGED <<manifest, raw>>
    BY <2>1, <2>2 DEF Reset, ManifestInv, ThreadOK
  <2>3. CASE ChunkOpen(t) \/ ReceivePiece(t)
    <3>1. (UNCHANGED <<manifest, raw, chunk, loaded>> /\ pc'[t] # "save") \/ Reset(t)
      BY <2>1, <2>3 DEF ChunkOpen, ReceivePiece, Finish, ThreadOK
    <3>2. UNCHANGED <<manifest, raw>> /\ pc[t] \in Receiving
      BY <2>3 DEF ChunkOpen, ReceivePiece
    <3>3. \A u \in Thread : u # t => pc'[u] = pc[u]
      BY <1>5, ContinueMoves
    <3> QED BY <2>2, <3>1, <3>2, <3>3 DEF ManifestInv
  <2>4. CASE MergeChunk(t) /\ dir /\ temp[chunk[t]].exists
    <3>1. /\ raw'.have = [raw.have EXCEPT ![chunk[t]] = Piece]
          /\ pc' = [pc EXCEPT ![t] = "save"]
          /\ UNCHANGED <<chunk, loaded, manifest>>
      BY <2>4, MergedIsPiece DEF Goto, MergeChunk
    <3>2. raw.have \in [Chunk -> SUBSET Piece]
      BY <2>1 DEF FilesOK, FileFor, Content
    <3>3. raw'.have[chunk[t]] = Piece
          /\ \A c \in Chunk : raw.have[c] = Piece => raw'.have[c] = Piece
      BY <2>1, <3>1, <3>2
    <3>4. \A u \in Thread : u # t => pc'[u] = pc[u]
      BY <3>1
    <3>5. manifest.received \subseteq Chunk /\ pc[t] \in Receiving
          /\ \A u \in Thread : loaded[u] \subseteq Chunk /\ chunk[u] \in Chunk
      BY <2>1, <2>4 DEF FilesOK, ThreadOK, MergeChunk
    <3> QED BY <3>1, <3>3, <3>4, <3>5 DEF ManifestInv
  <2>5. CASE MergeChunk(t) /\ ~(dir /\ temp[chunk[t]].exists)
    <3>1. raw'.have = raw.have /\ Reset(t) /\ manifest' = manifest
      BY <2>5 DEF MergeChunk
    <3> QED BY <2>1, <3>1 DEF Reset, ManifestInv, ThreadOK
  <2>6. CASE SaveManifest(t)
    <3>1. \A c \in WithChunk(loaded[t], chunk[t]) : raw.have[c] = Piece
      BY <2>6 DEF SaveManifest, ManifestInv, WithChunk
    <3>2. manifest'.exists => \A c \in manifest'.received : raw.have[c] = Piece
      BY <2>6, <3>1 DEF SaveManifest, ManifestInv
    <3>3. Reset(t) /\ raw' = raw
      BY <2>6 DEF SaveManifest
    <3> QED BY <2>1, <3>2, <3>3 DEF Reset, ManifestInv, ThreadOK
  <2>7. CASE HashDump(t) \/ PutObject(t) \/ CommitEvidence(t) \/ RefreshEvidence(t)
    <3>1. \A u \in Thread : pc'[u] \notin Receiving
      BY <1>5, <2>7, ContinueMoves
         DEF PhaseInv, HashDump, PutObject, CommitEvidence, RefreshEvidence
    <3>2. UNCHANGED <<manifest, raw>>
      BY <2>7 DEF HashDump, PutObject, CommitEvidence, RefreshEvidence, fileVars
    <3> QED BY <3>1, <3>2 DEF ManifestInv
  <2>8. CASE Unlink(t) \/ RemoveDir(t)
    <3>1. \A u \in Thread : pc'[u] \notin Receiving
      BY <1>5, <2>8, ContinueMoves DEF PhaseInv, Unlink, RemoveDir
    <3>2. ~manifest'.exists \/ UNCHANGED <<manifest, raw>>
      BY <2>8 DEF Unlink, RemoveDir, NoManifest
    <3> QED BY <3>1, <3>2 DEF ManifestInv
  <2>9. CASE AbandonChunk(t)
    BY <2>2, <2>9 DEF AbandonChunk
  <2> QED BY <1>5, <2>3, <2>4, <2>5, <2>6, <2>7, <2>8, <2>9 DEF Continue
<1> QED BY <1>1, <1>2, <1>3, <1>4, <1>5 DEF Next

\* A completion that begins finds the whole dump.
LEMMA CompleteFindsWhole ==
  ASSUME Polite, TypeOK, WholeInv, NEW t \in Thread, CompleteLoad(t)
  PROVE  raw.have = Whole
<1>1. Live /\ manifest.exists /\ manifest.received = Chunk
  BY DEF CompleteLoad, Polite, AllReceived, Live
<1>2. \A c \in Chunk : raw.have[c] = Piece
  BY <1>1 DEF WholeInv, ManifestInv
<1> QED BY <1>2 DEF TypeOK, FilesOK, FileFor, Content, Whole

LEMMA DumpStep ==
  ASSUME Polite, TypeOK, WholeInv, [Next]_vars
  PROVE  DumpInv' /\ EvidenceWhole'
<1> USE DEF WholeInv
<1>1. CASE InitiateSession
  <2>1. \A t \in Thread : pc'[t] = "idle"
    BY <1>1 DEF InitiateSession, StartInv, threadVars
  <2> QED BY <1>1, <2>1 DEF InitiateSession, DumpInv, EvidenceWhole, evidenceVars
<1>2. CASE Expire \/ UNCHANGED vars
  BY <1>2 DEF Expire, vars, threadVars, fileVars, evidenceVars, DumpInv, EvidenceWhole
<1>3. CASE Crash
  BY <1>3 DEF Crash, evidenceVars, DumpInv, EvidenceWhole
<1>4. ASSUME NEW t \in Thread, Arrive(t) PROVE DumpInv' /\ EvidenceWhole'
  <2>1. pc[t] = "idle" /\ ThreadOK
    BY <1>4 DEF Arrive, TypeOK
  <2>2. UNCHANGED <<raw, hash, object, row>>
    BY <1>4 DEF Arrive, ChunkLoad, CompleteLoad, CancelLoad, Expel, Cleanup, fileVars,
                evidenceVars
  <2>3. \A u \in Thread : u # t => pc'[u] = pc[u] /\ attempt'[u] = attempt[u]
    BY <1>4, <2>1 DEF Arrive, ChunkLoad, CompleteLoad, CancelLoad, Expel, Cleanup, Goto,
                      ThreadOK
  <2>4. pc'[t] \in {"open", "unlink"} \/ (pc'[t] = "hash" /\ raw.have = Whole)
    BY <1>4, <2>1, CompleteFindsWhole
       DEF Arrive, ChunkLoad, CompleteLoad, CancelLoad, Expel, Cleanup, Goto, ThreadOK
  <2> QED BY <2>2, <2>3, <2>4 DEF DumpInv, EvidenceWhole
<1>5. ASSUME NEW t \in Thread, Continue(t) PROVE DumpInv' /\ EvidenceWhole'
  <2>1. ThreadOK /\ FilesOK /\ EvidenceOK /\ \A u \in Thread : RequestOK(u)
    BY DEF TypeOK
  <2>2. \A u \in Thread : u # t => pc'[u] = pc[u] /\ attempt'[u] = attempt[u]
    <3>1. attempt' = attempt \/ Reset(t)
      BY <1>5 DEF Continue, ChunkOpen, ReceivePiece, AbandonChunk, MergeChunk, SaveManifest,
                  HashDump, PutObject, CommitEvidence, RefreshEvidence, Unlink, RemoveDir,
                  Goto, Finish
    <3>2. attempt' = attempt \/ attempt' = [attempt EXCEPT ![t] = 0]
      BY <3>1 DEF Reset
    <3> QED BY <1>5, <2>1, <3>2, ContinueMoves DEF ThreadOK
  <2>3. CASE ChunkOpen(t) \/ ReceivePiece(t) \/ AbandonChunk(t) \/ MergeChunk(t)
             \/ SaveManifest(t)
    <3>1. pc[t] \in Receiving /\ UNCHANGED <<hash, object, row>>
      BY <2>3 DEF ChunkOpen, ReceivePiece, AbandonChunk, MergeChunk, SaveManifest,
                  evidenceVars
    <3>2. \A u \in Thread : pc'[u] \notin Completing
      BY <1>5, <3>1, ContinueMoves DEF PhaseInv
    <3> QED BY <3>1, <3>2 DEF DumpInv, EvidenceWhole
  <2>4. CASE HashDump(t)
    <3>1. CASE raw.exists
      <4>1. attempt[t] \in Attempt /\ raw.have = Whole
        BY <2>1, <2>4, <3>1 DEF HashDump, RequestOK, ThreadOK, DumpInv
      <4>2. hash'[attempt[t]] = Whole
            /\ \A a \in Attempt : hash'[a] = hash[a] \/ hash'[a] = Whole
        BY <2>1, <2>4, <3>1, <4>1 DEF HashDump, EvidenceOK
      <4>3. pc'[t] = "put" /\ UNCHANGED <<raw, object, row, attempt>>
        BY <2>1, <2>4, <3>1 DEF HashDump, Goto, ThreadOK, fileVars
      <4>4. \A u \in Thread : pc[u] \in Completing => attempt[u] \in Attempt
        BY <2>1 DEF RequestOK, ThreadOK
      <4>5. DumpInv'
        BY <2>2, <4>1, <4>2, <4>3, <4>4 DEF DumpInv
      <4>6. EvidenceWhole'
        BY <4>2, <4>3 DEF EvidenceWhole
      <4> QED BY <4>5, <4>6
    <3>2. CASE ~raw.exists
      <4>1. pc'[t] = "idle" /\ UNCHANGED <<raw, hash, object, row>>
        BY <2>1, <2>4, <3>2 DEF HashDump, Finish, Reset, ThreadOK, fileVars
      <4> QED BY <2>2, <4>1 DEF DumpInv, EvidenceWhole
    <3> QED BY <3>1, <3>2
  <2>5. CASE PutObject(t)
    <3>1. attempt[t] \in Attempt /\ hash[attempt[t]] = Whole
          /\ (raw.exists => raw.have = Whole)
      BY <2>1, <2>5 DEF PutObject, RequestOK, ThreadOK, DumpInv
    <3>2. \/ object' = object
          \/ raw.exists /\ object' = [object EXCEPT ![attempt[t]] = raw.have]
      BY <2>5 DEF PutObject
    <3>3. \A a \in Attempt : object'[a] = object[a] \/ object'[a] = Whole
      BY <2>1, <3>1, <3>2 DEF EvidenceOK
    <3>4. UNCHANGED <<raw, hash, row>>
      BY <2>5 DEF PutObject, fileVars
    <3>5. \/ pc'[t] = "idle"
          \/ /\ pc'[t] = "commit"
             /\ attempt' = attempt
             /\ object'[attempt[t]] = Whole
      <4>1. CASE Finish(t)
        BY <2>1, <4>1 DEF Finish, Reset, ThreadOK
      <4>2. CASE /\ Goto(t, "commit")
                 /\ object' = [object EXCEPT ![attempt[t]] = raw.have]
                 /\ raw.exists
        BY <2>1, <3>1, <4>2 DEF Goto, ThreadOK, EvidenceOK
      <4> QED BY <2>5, <4>1, <4>2 DEF PutObject, Effect
    <3>6. \A u \in Thread : pc[u] \in Completing => attempt[u] \in Attempt
      BY <2>1 DEF RequestOK, ThreadOK
    <3>7. DumpInv'
      BY <2>2, <3>1, <3>3, <3>4, <3>5, <3>6 DEF DumpInv
    <3>8. EvidenceWhole'
      BY <3>3, <3>4 DEF EvidenceWhole
    <3> QED BY <3>7, <3>8
  <2>6. CASE CommitEvidence(t)
    <3>1. attempt[t] \in Attempt /\ hash[attempt[t]] = Whole /\ object[attempt[t]] = Whole
      BY <2>1, <2>6 DEF CommitEvidence, RequestOK, ThreadOK, DumpInv
    <3>2. \A a \in Attempt : row'[a] => row[a] \/ a = attempt[t]
      BY <2>1, <2>6 DEF CommitEvidence, EvidenceOK
    <3>3. UNCHANGED <<raw, hash, object>> /\ pc'[t] \in {"idle", "refresh"}
      BY <2>1, <2>6 DEF CommitEvidence, Goto, Finish, Reset, ThreadOK, fileVars
    <3> QED BY <2>2, <3>1, <3>2, <3>3 DEF DumpInv, EvidenceWhole
  <2>7. CASE RefreshEvidence(t) \/ Unlink(t) \/ RemoveDir(t)
    <3>1. pc'[t] \in Removing \cup {"idle"} /\ UNCHANGED <<hash, object, row>>
      BY <2>1, <2>7 DEF RefreshEvidence, Unlink, RemoveDir, Goto, Finish, Reset, ThreadOK,
                        evidenceVars
    <3>2. ~raw'.exists \/ raw' = raw
      BY <2>7 DEF RefreshEvidence, Unlink, RemoveDir, NoRaw, fileVars
    <3> QED BY <2>2, <3>1, <3>2 DEF DumpInv, EvidenceWhole
  <2> QED BY <1>5, <2>3, <2>4, <2>5, <2>6, <2>7 DEF Continue
<1> QED BY <1>1, <1>2, <1>3, <1>4, <1>5 DEF Next

LEMMA WholeStep ==
  ASSUME Polite, TypeOK, WholeInv, [Next]_vars
  PROVE  TypeOK' /\ WholeInv'
<1>1. StartInv /\ ReceiverInv /\ PhaseInv
  BY DEF WholeInv
<1>2. TypeOK'
  BY ChunkTypeStep
<1>3. StartInv' /\ ReceiverInv' /\ PhaseInv'
  BY <1>1, StartStep, ReceiverStep, PhaseStep
<1>4. ManifestInv' /\ DumpInv' /\ EvidenceWhole'
  BY ManifestStep, DumpStep
<1> QED BY <1>2, <1>3, <1>4 DEF WholeInv

\* With a client that may send different chunks in parallel, but no chunk again while
\* it is being received and nothing during a completion or after a cancel, a
\* registered dump has an object with every byte sent and the hashes of that object,
\* whatever expires, fails, is cancelled or dies.
THEOREM RegisteredDumpsAreWhole ==
  ASSUME Habits \subseteq {"parallel"}
  PROVE  Spec => []EvidenceWhole
<1>1. Init => TypeOK /\ WholeInv
  BY ChunkTypeInit, WholeInit
<1>2. TypeOK /\ WholeInv /\ [Next]_vars => TypeOK' /\ WholeInv'
  BY WholeStep DEF Polite
<1>3. WholeInv => EvidenceWhole
  BY DEF WholeInv
<1> QED BY <1>1, <1>2, <1>3, PTL DEF Spec

-----------------------------------------------------------------------------
(***************************************************************************)
(* A client that sends one request after the other.                        *)
(***************************************************************************)
Orderly == Habits = {}

\* No second chunk is received, so a live manifest, and what a request has loaded of
\* it, list every chunk answered so far.
AnsweredInv ==
  /\ \A t, u \in Thread : pc[t] \in Receiving /\ pc[u] \in Receiving => t = u
  /\ ~started => answered = {}
  /\ Live =>
       /\ manifest.exists => answered \subseteq manifest.received
       /\ \A t \in Thread : pc[t] \in Receiving => answered \subseteq loaded[t]

LEMMA AnsweredStep ==
  ASSUME Orderly, TypeOK, StartInv, AnsweredInv, [Next]_vars
  PROVE  AnsweredInv'
<1> USE DEF Live, AnsweredInv, sessionVars, fileVars, historyVars
<1>1. CASE InitiateSession
  <2>1. /\ \A t \in Thread : pc'[t] = "idle"
        /\ answered' = {} /\ started'
    BY <1>1 DEF InitiateSession, StartInv, threadVars
  <2> QED BY <2>1
<1>2. CASE Expire \/ UNCHANGED vars
  BY <1>2 DEF Expire, vars, threadVars
<1>3. CASE Crash
  BY <1>3 DEF Crash
<1>4. ASSUME NEW t \in Thread, Arrive(t) PROVE AnsweredInv'
  <2>1. pc[t] = "idle" /\ ThreadOK
    BY <1>4 DEF Arrive, TypeOK
  <2>2. CASE \E c \in Chunk : ChunkLoad(t, c)
    <3>1. PICK c \in Chunk : ChunkLoad(t, c)
      BY <2>2
    <3>2. \A u \in Thread : pc[u] \notin Receiving
      BY <3>1 DEF ChunkLoad, MaySend, Orderly, Receivers
    <3>3. /\ \A u \in Thread \ {t} : pc'[u] = pc[u]
          /\ loaded'[t] = manifest.received
      BY <2>1, <3>1 DEF ChunkLoad, ThreadOK
    <3> QED BY <3>1, <3>2, <3>3 DEF ChunkLoad
  <2>3. CASE CompleteLoad(t)
    <3>1. \A u \in Thread : pc'[u] \in Receiving => pc[u] \in Receiving
      BY <2>1, <2>3 DEF CompleteLoad, ThreadOK
    <3> QED BY <2>3, <3>1 DEF CompleteLoad
  <2>4. CASE CancelLoad(t) \/ Expel(t) \/ Cleanup(t)
    <3>1. \A u \in Thread : pc'[u] \in Receiving => pc[u] \in Receiving
      BY <2>1, <2>4 DEF CancelLoad, Expel, Cleanup, Goto, ThreadOK
    <3>2. UNCHANGED <<started, loaded, manifest, answered>> /\ (cancelled' \/ expired')
      BY <2>4 DEF CancelLoad, Expel, Cleanup, Goto
    <3> QED BY <3>1, <3>2
  <2> QED BY <1>4, <2>2, <2>3, <2>4 DEF Arrive
<1>5. ASSUME NEW t \in Thread, Continue(t) PROVE AnsweredInv'
  <2>0. /\ \A u \in Thread : pc'[u] \in Receiving => pc[u] \in Receiving
        /\ UNCHANGED <<started, expired, cancelled>> /\ started
    <3>1. pc \in [Thread -> Step] /\ pc[t] # "idle"
      BY <1>5, ContinueMoves DEF TypeOK, ThreadOK
    <3> QED BY <1>5, <3>1, ContinueMoves DEF StartInv
  <2>1. CASE SaveManifest(t)
    <3>1. \A u \in Thread : pc'[u] \notin Receiving
      <4>1. pc'[t] = "idle" /\ pc[t] = "save"
        BY <2>1 DEF SaveManifest, Reset, TypeOK, ThreadOK
      <4> QED BY <2>0, <4>1
    <3>2. \/ UNCHANGED <<manifest, answered>>
          \/ /\ manifest'.received = loaded[t] \cup {chunk[t]}
             /\ answered' = answered \cup {chunk[t]}
      BY <2>1 DEF SaveManifest, WithChunk
    <3>3. pc[t] \in Receiving
      BY <2>1 DEF SaveManifest
    <3> QED BY <2>0, <3>1, <3>2, <3>3
  <2>2. CASE ~SaveManifest(t)
    <3>1. answered' = answered /\ (manifest' = manifest \/ ~manifest'.exists)
      BY <1>5, <2>2 DEF Continue, ChunkOpen, ReceivePiece, AbandonChunk, MergeChunk, HashDump,
         PutObject, CommitEvidence, RefreshEvidence, Unlink, RemoveDir, NoManifest
    <3>2. loaded' = loaded \/ Reset(t)
      BY <1>5, <2>2 DEF Continue, ChunkOpen, ReceivePiece, AbandonChunk, MergeChunk, HashDump,
         PutObject, CommitEvidence, RefreshEvidence, Unlink, RemoveDir, Goto, Finish
    <3>3. \A u \in Thread : pc'[u] \in Receiving => loaded'[u] = loaded[u]
      BY <3>2 DEF Reset, TypeOK, ThreadOK
    <3> QED BY <2>0, <3>1, <3>3
  <2> QED BY <2>1, <2>2
<1> QED BY <1>1, <1>2, <1>3, <1>4, <1>5 DEF Next

\* With a client that sends one request after the other, no chunk answered with 200
\* is missing from the manifest or the dump of a live session, whatever was resent,
\* broken off, or died before.
THEOREM AnsweredChunksKept ==
  ASSUME Habits = {}
  PROVE  Spec => []AnsweredChunksThere
<1>1. Polite /\ Orderly
  BY DEF Polite, Orderly
<1>2. Init => TypeOK /\ WholeInv /\ AnsweredInv
  <2>1. Init => AnsweredInv
    BY DEF Init, AnsweredInv
  <2> QED BY <2>1, ChunkTypeInit, WholeInit
<1>3. TypeOK /\ WholeInv /\ AnsweredInv /\ [Next]_vars => TypeOK' /\ WholeInv' /\ AnsweredInv'
  BY <1>1, WholeStep, AnsweredStep DEF WholeInv
<1>4. WholeInv /\ AnsweredInv => AnsweredChunksThere
  BY DEF WholeInv, ManifestInv, AnsweredInv, AnsweredChunksThere, Live
<1> QED BY <1>2, <1>3, <1>4, PTL DEF Spec

-----------------------------------------------------------------------------
(***************************************************************************)
(* A client that sends nothing during a completion or after a cancel, but  *)
(* chunks in parallel and again as it likes.                               *)
(***************************************************************************)
Patient == "hasty" \notin Habits

\* A completion has the session to itself, but for those that remove it.
AloneInv ==
  \A t, u \in Thread : attempt[t] # 0 =>
    /\ pc[u] \notin Receiving
    /\ attempt[u] # 0 => t = u

\* Where the registration of a dump has left its session: the completion is about to
\* remove the files, or the manifest is gone and nobody can bring it back.
Settled(a) ==
  \/ \E t \in Thread : attempt[t] = a /\ pc[t] \in {"refresh", "unlink"}
  \/ /\ ~manifest.exists
     /\ \A t \in Thread : pc[t] \notin Receiving \cup {"hash", "put", "commit"}

RowsInv ==
  /\ ~started => \A a \in Attempt : ~row[a]
  /\ ~lateError =>
       /\ \A a \in Attempt : row[a] => Settled(a)
       /\ \A a, b \in Attempt : row[a] /\ row[b] => a = b

LEMMA AttemptMoves ==
  ASSUME TypeOK, NEW t \in Thread, Continue(t)
  PROVE  /\ \A u \in Thread : attempt'[u] # 0 => attempt'[u] = attempt[u]
         /\ \A u \in Thread : u # t => attempt'[u] = attempt[u]
         /\ \A u \in Thread : pc'[u] \in Receiving => pc[u] \in Receiving
<1>1. attempt' = attempt \/ Reset(t)
  BY DEF Continue, ChunkOpen, ReceivePiece, AbandonChunk, MergeChunk, SaveManifest, HashDump,
     PutObject, CommitEvidence, RefreshEvidence, Unlink, RemoveDir, Goto, Finish
<1>2. attempt' = attempt \/ attempt' = [attempt EXCEPT ![t] = 0]
  BY <1>1 DEF Reset
<1>3. attempt \in [Thread -> {0} \cup Attempt] /\ pc \in [Thread -> Step]
  BY DEF TypeOK, ThreadOK
<1>4. \A u \in Thread : pc'[u] \in Receiving => pc[u] \in Receiving
  BY <1>3, ContinueMoves
<1> QED BY <1>2, <1>3, <1>4

LEMMA AloneStep ==
  ASSUME Patient, TypeOK, AloneInv, [Next]_vars
  PROVE  AloneInv'
<1> USE DEF AloneInv
<1>0. ThreadOK /\ \A u \in Thread : attempt[u] # 0 => u \in Completers
  BY DEF TypeOK, RequestOK, Completers
<1>1. CASE InitiateSession \/ Expire \/ UNCHANGED vars
  BY <1>1 DEF InitiateSession, Expire, vars, threadVars
<1>2. CASE Crash
  BY <1>2 DEF Crash
<1>3. ASSUME NEW t \in Thread, Arrive(t) PROVE AloneInv'
  <2>1. CASE \E c \in Chunk : ChunkLoad(t, c)
    <3>1. \A u \in Thread : attempt'[u] = 0
      BY <1>0, <2>1 DEF ChunkLoad, MaySend, Patient
    <3> QED BY <3>1
  <2>2. CASE CompleteLoad(t)
    <3>1. \A u \in Thread : attempt[u] = 0 /\ pc[u] \notin Receiving
      BY <1>0, <2>2 DEF CompleteLoad, Patient, Receivers
    <3>2. \A u \in Thread : pc'[u] \notin Receiving /\ (u # t => attempt'[u] = 0)
      BY <1>0, <2>2, <3>1 DEF CompleteLoad, ThreadOK
    <3> QED BY <3>2
  <2>3. CASE CancelLoad(t) \/ Expel(t) \/ Cleanup(t)
    <3>1. /\ attempt' = attempt
          /\ \A u \in Thread : pc'[u] \in Receiving => pc[u] \in Receiving
      BY <1>0, <2>3 DEF CancelLoad, Expel, Cleanup, Goto, ThreadOK
    <3> QED BY <3>1
  <2> QED BY <1>3, <2>1, <2>2, <2>3 DEF Arrive
<1>4. ASSUME NEW t \in Thread, Continue(t) PROVE AloneInv'
  BY <1>4, AttemptMoves
<1> QED BY <1>1, <1>2, <1>3, <1>4 DEF Next

LEMMA RowsStep ==
  ASSUME Patient, TypeOK, StartInv, AloneInv, RowsInv, [Next]_vars
  PROVE  RowsInv'
<1> USE DEF fileVars, sessionVars, evidenceVars, historyVars
<1>0. /\ ThreadOK /\ 0 \notin Attempt /\ row \in [Attempt -> BOOLEAN]
      /\ \A u \in Thread : attempt[u] # 0 => u \in Completers
      /\ \A u \in Thread : pc[u] \in Completing => attempt[u] \in Attempt
  BY ConstantFacts DEF TypeOK, EvidenceOK, RequestOK, Completers, ThreadOK
<1>1. ASSUME row' = row, started => started', lateError => lateError',
             \A a \in Attempt : ~lateError' /\ row[a] /\ Settled(a) => Settled(a)'
      PROVE  RowsInv'
  BY <1>1 DEF RowsInv
\* Whoever receives, hashes, stores or commits does so before any registration.
<1>2. ASSUME NEW t \in Thread, pc[t] \in Receiving \cup {"hash", "put", "commit"}
      PROVE  ~lateError => \A a \in Attempt : ~row[a]
  <2> SUFFICES ASSUME ~lateError, NEW a \in Attempt, row[a] PROVE FALSE
    OBVIOUS
  <2>1. PICK u \in Thread : attempt[u] = a /\ pc[u] \in {"refresh", "unlink"}
    BY <1>2 DEF RowsInv, Settled
  <2>2. attempt[u] # 0
    BY <1>0, <2>1
  <2>3. pc[t] \notin Receiving
    BY <2>2 DEF AloneInv
  <2>4. attempt[t] # 0
    BY <1>0, <1>2, <2>3
  <2>5. t = u
    BY <2>2, <2>4 DEF AloneInv
  <2> QED BY <1>2, <2>1, <2>5
\* A request that finds the manifest and no completion is before any registration.
<1>3. ASSUME manifest.exists, Completers = {}
      PROVE  ~lateError => \A a \in Attempt : ~row[a]
  BY <1>0, <1>3 DEF RowsInv, Settled
<1>4. CASE InitiateSession
  BY <1>4 DEF InitiateSession, RowsInv
<1>5. CASE Expire \/ UNCHANGED vars
  BY <1>5 DEF Expire, vars, threadVars, RowsInv, Settled
<1>6. CASE Crash
  <2>1. UNCHANGED <<row, started, manifest>> /\ \A t \in Thread : pc'[t] = "idle"
    BY <1>6 DEF Crash
  <2>2. /\ lateError => lateError'
        /\ ~lateError' => \A t \in Thread : ~(attempt[t] # 0 /\ row[attempt[t]])
    BY <1>6 DEF Crash
  <2>3. ASSUME NEW a \in Attempt, ~lateError', row[a], Settled(a) PROVE Settled(a)'
    BY <1>0, <2>1, <2>2, <2>3 DEF Settled
  <2> QED BY <1>1, <2>1, <2>2, <2>3
<1>7. ASSUME NEW t \in Thread, Arrive(t) PROVE RowsInv'
  <2>1. pc[t] = "idle" /\ UNCHANGED <<row, started, lateError, manifest>>
    BY <1>7 DEF Arrive, ChunkLoad, CompleteLoad, CancelLoad, Expel, Cleanup, Goto
  <2>2. CASE (\E c \in Chunk : ChunkLoad(t, c)) \/ CompleteLoad(t)
    <3>1. manifest.exists /\ Completers = {}
      BY <2>2 DEF ChunkLoad, CompleteLoad, MaySend, Patient
    <3> QED BY <1>1, <1>3, <2>1, <3>1
  <2>3. CASE CancelLoad(t) \/ Expel(t) \/ Cleanup(t)
    <3>1. attempt' = attempt /\ pc' = [pc EXCEPT ![t] = "unlink"]
      BY <2>3 DEF CancelLoad, Expel, Cleanup, Goto
    <3>2. ASSUME NEW a \in Attempt, Settled(a) PROVE Settled(a)'
      BY <1>0, <2>1, <3>1, <3>2 DEF Settled, ThreadOK
    <3> QED BY <1>1, <2>1, <3>2
  <2> QED BY <1>7, <2>2, <2>3 DEF Arrive
<1>8. ASSUME NEW t \in Thread, Continue(t) PROVE RowsInv'
  <2>0. /\ started /\ started' = started
        /\ \A u \in Thread : u # t => pc'[u] = pc[u] /\ attempt'[u] = attempt[u]
    BY <1>8, ContinueMoves, AttemptMoves DEF StartInv
  <2>1. CASE /\ pc[t] \in Receiving \cup {"hash", "put"}
             /\ UNCHANGED <<row, lateError>>
    BY <1>1, <1>2, <2>0, <2>1
  <2>2. CASE CommitEvidence(t)
    <3>1. pc[t] = "commit" /\ attempt[t] \in Attempt
      BY <1>0, <2>2 DEF CommitEvidence
    <3>2. ~lateError => \A a \in Attempt : ~row[a]
      BY <1>2, <3>1
    <3>3. \/ lateError'
          \/ row' = row /\ lateError' = lateError
          \/ /\ row' = [row EXCEPT ![attempt[t]] = TRUE] /\ lateError' = lateError
             /\ pc'[t] = "refresh" /\ attempt' = attempt
      BY <1>0, <2>2 DEF CommitEvidence, Goto, ThreadOK
    <3>4. CASE row' = row /\ lateError' = lateError
      BY <1>1, <2>0, <3>2, <3>4
    <3>5. CASE /\ row' = [row EXCEPT ![attempt[t]] = TRUE] /\ lateError' = lateError
               /\ pc'[t] = "refresh" /\ attempt' = attempt
      <4>1. ~lateError => \A a \in Attempt : row'[a] => a = attempt[t]
        BY <1>0, <3>1, <3>2, <3>5
      <4>2. Settled(attempt[t])'
        BY <3>5 DEF Settled
      <4>3. \A a \in Attempt : a = attempt[t] => Settled(a)'
        BY <3>5 DEF Settled
      <4> QED BY <2>0, <3>5, <4>1, <4>3 DEF RowsInv
    <3>6. CASE lateError'
      BY <2>0, <3>6 DEF RowsInv
    <3> QED BY <3>3, <3>4, <3>5, <3>6
  <2>3. CASE RefreshEvidence(t)
    <3>1. UNCHANGED <<row, manifest>> /\ pc[t] = "refresh"
          /\ (lateError' \/ (lateError' = lateError /\ Goto(t, "unlink")))
      BY <2>3 DEF RefreshEvidence
    <3>2. CASE lateError'
      BY <2>0, <3>1, <3>2 DEF RowsInv
    <3>3. CASE lateError' = lateError /\ Goto(t, "unlink")
      <4>1. attempt' = attempt /\ pc' = [pc EXCEPT ![t] = "unlink"]
        BY <3>3 DEF Goto
      <4>2. ASSUME NEW a \in Attempt, Settled(a) PROVE Settled(a)'
        BY <1>0, <3>1, <4>1, <4>2 DEF Settled, ThreadOK
      <4> QED BY <1>1, <2>0, <3>1, <3>3, <4>2
    <3> QED BY <3>1, <3>2, <3>3
  <2>4. CASE Unlink(t)
    <3>1. /\ UNCHANGED <<row, lateError, attempt>> /\ ~manifest'.exists
          /\ pc' = [pc EXCEPT ![t] = "rmdir"] /\ pc[t] = "unlink"
      BY <2>4 DEF Unlink, NoManifest
    <3>2. ASSUME NEW a \in Attempt, Settled(a) PROVE Settled(a)'
      <4>1. CASE \E u \in Thread \ {t} : attempt[u] = a /\ pc[u] \in {"refresh", "unlink"}
        BY <2>0, <4>1 DEF Settled
      <4>2. CASE attempt[t] = a
        <5>1. attempt[t] # 0
          BY <1>0, <4>2
        <5>2. ASSUME NEW u \in Thread, u # t
              PROVE  pc'[u] \notin Receiving \cup {"hash", "put", "commit"}
          BY <1>0, <2>0, <5>1, <5>2 DEF AloneInv
        <5>3. pc'[t] = "rmdir"
          BY <1>0, <3>1 DEF ThreadOK
        <5> QED BY <3>1, <5>2, <5>3 DEF Settled
      <4>3. CASE \A u \in Thread : pc[u] \notin Receiving \cup {"hash", "put", "commit"}
        BY <1>0, <3>1, <4>3 DEF Settled, ThreadOK
      <4> QED BY <3>2, <4>1, <4>2, <4>3 DEF Settled
    <3> QED BY <1>1, <2>0, <3>1, <3>2
  <2>5. CASE RemoveDir(t)
    <3>1. UNCHANGED <<row, lateError, manifest>> /\ pc[t] = "rmdir" /\ pc'[t] = "idle"
      BY <1>0, <2>5 DEF RemoveDir, Finish, Reset, ThreadOK
    <3>2. ASSUME NEW a \in Attempt, Settled(a) PROVE Settled(a)'
      BY <2>0, <3>1, <3>2 DEF Settled
    <3> QED BY <1>1, <2>0, <3>1, <3>2
  <2>6. CASE HashDump(t) \/ PutObject(t)
    BY <2>1, <2>6 DEF HashDump, PutObject
  <2>7. CASE ChunkOpen(t) \/ ReceivePiece(t) \/ AbandonChunk(t) \/ MergeChunk(t) \/ SaveManifest(t)
    BY <2>1, <2>7 DEF ChunkOpen, ReceivePiece, AbandonChunk, MergeChunk, SaveManifest
  <2> QED BY <1>8, <2>2, <2>3, <2>4, <2>5, <2>6, <2>7 DEF Continue
<1> QED BY <1>4, <1>5, <1>6, <1>7, <1>8 DEF Next

\* A client that sends nothing during a completion or after a cancel has its dump
\* registered twice only when an exception or a crash followed a commit, however it
\* sends the chunks and whatever else fails.
THEOREM DumpsRegisteredOnce ==
  ASSUME "hasty" \notin Habits
  PROVE  Spec => []RegisteredOnce
<1>1. Init => TypeOK /\ StartInv /\ AloneInv /\ RowsInv
  <2>1. Init => StartInv /\ AloneInv /\ RowsInv
    BY DEF Init, StartInv, AloneInv, RowsInv
  <2> QED BY <2>1, ChunkTypeInit
<1>2. TypeOK /\ StartInv /\ AloneInv /\ RowsInv /\ [Next]_vars
        => TypeOK' /\ StartInv' /\ AloneInv' /\ RowsInv'
  BY ChunkTypeStep, StartStep, AloneStep, RowsStep DEF Patient
<1>3. RowsInv => RegisteredOnce
  <2> SUFFICES ASSUME RowsInv, ~lateError PROVE ~(Cardinality({a \in Attempt : row[a]}) > 1)
    BY DEF RegisteredOnce
  <2>1. CASE {a \in Attempt : row[a]} = {}
    BY <2>1, FS_EmptySet
  <2>2. CASE {a \in Attempt : row[a]} # {}
    <3>1. PICK b \in Attempt : {a \in Attempt : row[a]} = {b}
      BY <2>2 DEF RowsInv
    <3>2. Cardinality({b}) = 1
      BY FS_Singleton
    <3>3. Cardinality({a \in Attempt : row[a]}) = 1
      BY <3>1, <3>2
    <3> QED BY <3>3
  <2> QED BY <2>1, <2>2
<1> QED BY <1>1, <1>2, <1>3, PTL DEF Spec
=============================================================================
