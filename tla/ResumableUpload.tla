-------------------------- MODULE ResumableUpload --------------------------
(***************************************************************************)
(* Uploads of main.py and core/storage.py: whole files in one request, and *)
(* files sent in chunks to an upload session and put together at the end.  *)
(* The requests run concurrently (in one API process they interleave at    *)
(* every await; several processes share the file volume) and leave files   *)
(* behind when their process dies.                                         *)
(*                                                                         *)
(* Abstractions.  A file is the set of the blocks written to it, a block   *)
(* being STREAM_CHUNK_SIZE bytes, and every client sends the right bytes,  *)
(* if too many or too few of them.  Each HTTP request is made once: its id *)
(* also names the file it creates first and the document it may create.    *)
(* The .assembling file, which no other request sees, is left out.         *)
(***************************************************************************)
EXTENDS Naturals

CONSTANTS
    Upload,       \* upload ids
    Request,      \* HTTP requests
    FileSize,     \* the size every upload declares, in blocks
    ChunkSize,    \* RESUMABLE_CHUNK_SIZE in blocks
    Overlaps,     \* "chunk": a chunk is sent again while its last sending runs;
                  \* "complete": a completion runs beside other requests
    MaxFaults,    \* bound on commits that raise
    MaxCrashes,   \* bound on API processes that die
    None          \* no file, no upload

ASSUME UploadAssumption ==
    /\ FileSize \in Nat \ {0}
    /\ ChunkSize \in Nat \ {0}
    /\ Overlaps \subseteq {"chunk", "complete"}
    /\ MaxFaults \in Nat
    /\ MaxCrashes \in Nat
    /\ None \notin Request \cup Upload

\* expected_chunks and expected_size of the handlers.
ExpectedChunks == (FileSize + ChunkSize - 1) \div ChunkSize
ExpectedSize(i) == IF i = ExpectedChunks - 1 THEN FileSize - i * ChunkSize ELSE ChunkSize

Wanted == 0..(ExpectedChunks - 1)

\* The indexes a client names, one out of range among them.
Chunk == 0..ExpectedChunks

VARIABLES
    opening,   \* how far the request that opens each session got
    sessions,  \* upload_sessions: the uploads with a row
    dirs,      \* the uploads with a directory
    temporary, \* <i>.part.uploading of each upload
    part,      \* <i>.part of each upload
    blocks,    \* the blocks written to each file
    extent,    \* the length of each file
    documents, \* knowledge_documents: the requests that created one
    targets,   \* the requests whose target file is in FILES_ROOT
    whole,     \* those of them whose file is what the client sent
    request,   \* what each request does and its local variables
    late,      \* requests whose commit raised although it took effect
    faults,    \* commits that raised so far
    crashes    \* processes that died so far

tables == <<sessions, documents>>
chunkFiles == <<dirs, temporary, part, blocks, extent>>
finalFiles == <<targets, whole>>
bounds == <<late, faults, crashes>>
vars == <<opening, tables, chunkFiles, finalFiles, request, bounds>>

-----------------------------------------------------------------------------
NoFiles == [i \in Chunk |-> None]

\* The steps of a request; "ok", "refused" (4xx) and "error" (500) are answers.
Answer == {"ok", "refused", "error"}
Step == Answer \cup {"unsent", "check", "open", "write", "list", "copy",
                     "receive", "commit", "cleanup", "dead"}

\* length: the blocks the client sends; at: the blocks or chunks done;
\* size, intact: what was copied to the target so far.
Start(op, pc, u, i, n) ==
    [op |-> op, pc |-> pc, upload |-> u, chunk |-> i, length |-> n,
     at |-> 0, file |-> None, size |-> 0, intact |-> TRUE]

Running(r) == request[r].pc \notin Answer \cup {"unsent", "dead"}
At(r, pc) == request[r].pc = pc
Goto(r, pc) == request' = [request EXCEPT ![r].pc = pc]

\* The answer to the client; the local variables are gone.
Reply(r, answer) == request' =
    [request EXCEPT ![r] = Start(@.op, answer, @.upload, @.chunk, 0)]

\* A check of the handler: on to pc, or a 4xx.
Require(r, condition, pc) == IF condition THEN Goto(r, pc) ELSE Reply(r, "refused")

Init ==
    /\ opening = [u \in Upload |-> "unused"]
    /\ sessions = {}
    /\ dirs = {}
    /\ temporary = [u \in Upload |-> NoFiles]
    /\ part = [u \in Upload |-> NoFiles]
    /\ blocks = [f \in Request |-> {}]
    /\ extent = [f \in Request |-> 0]
    /\ documents = {}
    /\ targets = {}
    /\ whole = {}
    /\ request = [r \in Request |-> Start("none", "unsent", None, 0, 0)]
    /\ late = {}
    /\ faults = 0
    /\ crashes = 0

\* A commit, or the refresh after it, raises.
CommitFault == faults < MaxFaults /\ faults' = faults + 1

\* shutil.rmtree of the session directory.
RemoveTree(u) ==
    /\ dirs' = dirs \ {u}
    /\ temporary' = [temporary EXCEPT ![u] = NoFiles]
    /\ part' = [part EXCEPT ![u] = NoFiles]
    /\ UNCHANGED <<blocks, extent>>

-----------------------------------------------------------------------------
(* init_resumable_upload.                                                  *)

MakeDirectory(u) ==
    /\ opening[u] = "unused"
    /\ opening' = [opening EXCEPT ![u] = "made"]
    /\ dirs' = dirs \cup {u}
    /\ UNCHANGED <<tables, temporary, part, blocks, extent, finalFiles, request, bounds>>

CreateSession(u) ==
    /\ opening[u] = "made"
    /\ opening' = [opening EXCEPT ![u] = "open"]
    /\ sessions' = sessions \cup {u}
    /\ UNCHANGED <<documents, chunkFiles, finalFiles, request, bounds>>

\* The client gets no upload id.
CreateSessionRaises(u) ==
    /\ opening[u] = "made"
    /\ CommitFault
    /\ sessions' \in {sessions, sessions \cup {u}}
    /\ opening' = [opening EXCEPT ![u] = "failed"]
    /\ RemoveTree(u)
    /\ UNCHANGED <<documents, finalFiles, request, late, crashes>>

-----------------------------------------------------------------------------
(* upload_resumable_chunk and stream_upload.                               *)

StartChunk(r, u, i, n) ==
    /\ At(r, "unsent")
    /\ opening[u] = "open"
    /\ \A s \in Request : Running(s) /\ request[s].upload = u =>
         \/ "complete" \in Overlaps /\ request[s].op = "complete"
         \/ request[s].op = "chunk" /\ ("chunk" \in Overlaps \/ request[s].chunk # i)
    /\ request' = [request EXCEPT ![r] = Start("chunk", "check", u, i, n)]
    /\ UNCHANGED <<opening, tables, chunkFiles, finalFiles, bounds>>

\* Mutant of CheckChunk: the index after the last one passes.
CheckChunkLax(r) ==
    /\ At(r, "check") /\ request[r].op = "chunk"
    /\ Require(r, request[r].upload \in sessions /\ request[r].chunk <= ExpectedChunks, "open")
    /\ UNCHANGED <<opening, tables, chunkFiles, finalFiles, bounds>>

\* 404 without a session, 400 for an index out of range.
CheckChunk(r) ==
    /\ At(r, "check") /\ request[r].op = "chunk"
    /\ Require(r, request[r].upload \in sessions /\ request[r].chunk < ExpectedChunks, "open")
    /\ UNCHANGED <<opening, tables, chunkFiles, finalFiles, bounds>>

\* Mutant of OpenTemporary: the chunk file itself is opened.
OpenPart(r) ==
    LET u == request[r].upload
        i == request[r].chunk
        f == IF part[u][i] = None THEN r ELSE part[u][i] IN
    /\ At(r, "open")
    /\ dirs' = dirs \cup {u}
    /\ part' = [part EXCEPT ![u][i] = f]
    /\ temporary' = [temporary EXCEPT ![u][i] = f]
    /\ blocks' = [blocks EXCEPT ![f] = {}]
    /\ extent' = [extent EXCEPT ![f] = 0]
    /\ request' = [request EXCEPT ![r].pc = "write", ![r].file = f]
    /\ UNCHANGED <<opening, tables, finalFiles, bounds>>

\* mkdir(parents=True, exist_ok=True) and open("wb"): a file that is there is
\* truncated, and written by everybody who has it open.
OpenTemporary(r) ==
    LET u == request[r].upload
        i == request[r].chunk
        f == IF temporary[u][i] = None THEN r ELSE temporary[u][i] IN
    /\ At(r, "open")
    /\ dirs' = dirs \cup {u}
    /\ temporary' = [temporary EXCEPT ![u][i] = f]
    /\ blocks' = [blocks EXCEPT ![f] = {}]
    /\ extent' = [extent EXCEPT ![f] = 0]
    /\ request' = [request EXCEPT ![r].pc = "write", ![r].file = f]
    /\ UNCHANGED <<opening, tables, part, finalFiles, bounds>>

\* The request fails and removes whatever file is at its temporary path.
DropTemporary(r, answer) ==
    /\ temporary' = [temporary EXCEPT ![request[r].upload][request[r].chunk] = None]
    /\ Reply(r, answer)
    /\ UNCHANGED <<opening, tables, dirs, part, blocks, extent, finalFiles, bounds>>

\* Mutant of WriteBlock: as many blocks as the client sends.
WriteBlockUnbounded(r) ==
    LET n == request[r].at + 1
        f == request[r].file IN
    /\ At(r, "write")
    /\ n <= request[r].length
    /\ blocks' = [blocks EXCEPT ![f] = @ \cup {n}]
    /\ extent' = [extent EXCEPT ![f] = IF n > @ THEN n ELSE @]
    /\ request' = [request EXCEPT ![r].at = n]
    /\ UNCHANGED <<opening, tables, dirs, temporary, part, finalFiles, bounds>>

\* One upload.read with data: written at the request's own position, after a
\* hole if somebody truncated the file.
WriteBlock(r) ==
    LET n == request[r].at + 1
        f == request[r].file IN
    /\ At(r, "write")
    /\ n <= request[r].length /\ n <= ChunkSize
    /\ blocks' = [blocks EXCEPT ![f] = @ \cup {n}]
    /\ extent' = [extent EXCEPT ![f] = IF n > @ THEN n ELSE @]
    /\ request' = [request EXCEPT ![r].at = n]
    /\ UNCHANGED <<opening, tables, dirs, temporary, part, finalFiles, bounds>>

\* 413 as soon as more than chunk_size bytes came.
RefuseLong(r) ==
    /\ At(r, "write")
    /\ request[r].at = ChunkSize /\ request[r].at < request[r].length
    /\ DropTemporary(r, "refused")

Ended(r) == At(r, "write") /\ request[r].at = request[r].length

\* 409 when the bytes received are not as many as the chunk has.
RefuseWrongSize(r) ==
    /\ Ended(r)
    /\ request[r].at # ExpectedSize(request[r].chunk)
    /\ DropTemporary(r, "refused")

\* Mutant of PublishChunk: chunks are not compared with the declared size.
PublishAnySize(r) ==
    LET u == request[r].upload
        i == request[r].chunk IN
    /\ Ended(r)
    /\ temporary[u][i] # None
    /\ part' = [part EXCEPT ![u][i] = temporary[u][i]]
    /\ temporary' = [temporary EXCEPT ![u][i] = None]
    /\ Reply(r, "ok")
    /\ UNCHANGED <<opening, tables, dirs, blocks, extent, finalFiles, bounds>>

\* temporary.replace(target), whatever file is there now.
PublishChunk(r) ==
    LET u == request[r].upload
        i == request[r].chunk IN
    /\ Ended(r)
    /\ request[r].at = ExpectedSize(i)
    /\ temporary[u][i] # None
    /\ part' = [part EXCEPT ![u][i] = temporary[u][i]]
    /\ temporary' = [temporary EXCEPT ![u][i] = None]
    /\ Reply(r, "ok")
    /\ UNCHANGED <<opening, tables, dirs, blocks, extent, finalFiles, bounds>>

\* The temporary file is gone: FileNotFoundError.
PublishRaises(r) ==
    /\ Ended(r)
    /\ request[r].at = ExpectedSize(request[r].chunk)
    /\ temporary[request[r].upload][request[r].chunk] = None
    /\ DropTemporary(r, "error")

-----------------------------------------------------------------------------
(* complete_resumable_upload and combine_chunks.                           *)

StartComplete(r, u) ==
    /\ At(r, "unsent")
    /\ opening[u] = "open"
    /\ \A s \in Request : Running(s) /\ request[s].upload = u => "complete" \in Overlaps
    /\ request' = [request EXCEPT ![r] = Start("complete", "check", u, 0, 0)]
    /\ UNCHANGED <<opening, tables, chunkFiles, finalFiles, bounds>>

CheckComplete(r) ==
    /\ At(r, "check") /\ request[r].op = "complete"
    /\ Require(r, request[r].upload \in sessions, "list")
    /\ UNCHANGED <<opening, tables, chunkFiles, finalFiles, bounds>>

\* _uploaded_chunk_indexes
Listed(u) == {i \in Chunk : part[u][i] # None}

ListChunks(r) ==
    /\ At(r, "list")
    /\ Require(r, Listed(request[r].upload) = Wanted, "copy")
    /\ UNCHANGED <<opening, tables, chunkFiles, finalFiles, bounds>>

\* 409 when a chunk is missing or the copy outgrows the declared size.
CopyChunk(r) ==
    LET i == request[r].at
        f == part[request[r].upload][i]
        size == request[r].size + extent[f] IN
    /\ At(r, "copy") /\ i < ExpectedChunks
    /\ IF f = None \/ size > FileSize
       THEN Reply(r, "refused")
       ELSE request' = [request EXCEPT ![r].at = i + 1, ![r].size = size,
              ![r].intact = @ /\ blocks[f] = 1..ExpectedSize(i)]
    /\ UNCHANGED <<opening, tables, chunkFiles, finalFiles, bounds>>

\* Mutant of StoreTarget: the copy is not renamed to the target.
StoreTargetForgotten(r) ==
    /\ At(r, "copy") /\ request[r].at = ExpectedChunks
    /\ \/ request[r].size = FileSize /\ Goto(r, "commit")
       \/ Reply(r, "refused")
    /\ UNCHANGED <<opening, tables, chunkFiles, finalFiles, bounds>>

\* 409 unless the sizes add up, then temporary.replace(target); 415, and the
\* target goes again, when the signature does not fit the extension.
StoreTarget(r) ==
    /\ At(r, "copy") /\ request[r].at = ExpectedChunks
    /\ \/ /\ request[r].size = FileSize
          /\ targets' = targets \cup {r}
          /\ whole' = IF request[r].intact THEN whole \cup {r} ELSE whole
          /\ Goto(r, "commit")
       \/ Reply(r, "refused") /\ UNCHANGED finalFiles
    /\ UNCHANGED <<opening, tables, chunkFiles, bounds>>

\* Mutant of CommitDocument: the session stays.
CommitDocumentOnly(r) ==
    /\ At(r, "commit")
    /\ documents' = documents \cup {r}
    /\ IF request[r].op = "complete" THEN Goto(r, "cleanup") ELSE Reply(r, "ok")
    /\ UNCHANGED <<opening, sessions, chunkFiles, finalFiles, bounds>>

\* create_document_with_audit: the document and the end of the session in one
\* commit; deleting a session row that is gone already is no error.
CommitDocument(r) ==
    /\ At(r, "commit")
    /\ documents' = documents \cup {r}
    /\ sessions' = sessions \ {request[r].upload}
    /\ IF request[r].op = "complete" THEN Goto(r, "cleanup") ELSE Reply(r, "ok")
    /\ UNCHANGED <<opening, chunkFiles, finalFiles, bounds>>

\* Mutant of CommitRaises: the file stays.
CommitRaisesKeeping(r) ==
    /\ At(r, "commit")
    /\ CommitFault
    /\ \/ /\ documents' = documents \cup {r}
          /\ sessions' = sessions \ {request[r].upload}
          /\ late' = late \cup {r}
       \/ UNCHANGED <<tables, late>>
    /\ Reply(r, "error")
    /\ UNCHANGED <<opening, chunkFiles, finalFiles, crashes>>

\* The handler unlinks the target, also when the commit took effect and only
\* its reply, or the refresh after it, failed.
CommitRaises(r) ==
    /\ At(r, "commit")
    /\ CommitFault
    /\ \/ /\ documents' = documents \cup {r}
          /\ sessions' = sessions \ {request[r].upload}
          /\ late' = late \cup {r}
       \/ UNCHANGED <<tables, late>>
    /\ targets' = targets \ {r}
    /\ whole' = whole \ {r}
    /\ Reply(r, "error")
    /\ UNCHANGED <<opening, chunkFiles, crashes>>

\* remove_upload_session_files raises when the directory is gone already.
RemoveSessionFiles(r) ==
    LET u == request[r].upload IN
    /\ At(r, "cleanup")
    /\ IF u \in dirs
       THEN RemoveTree(u) /\ Reply(r, "ok")
       ELSE Reply(r, "error") /\ UNCHANGED chunkFiles
    /\ UNCHANGED <<opening, tables, finalFiles, bounds>>

-----------------------------------------------------------------------------
(* upload_documents, for one file of the request: what was created for the *)
(* files before it stays whatever happens to this one.                     *)

StartFile(r) ==
    /\ At(r, "unsent")
    /\ request' = [request EXCEPT ![r] = Start("file", "receive", None, 0, 0)]
    /\ UNCHANGED <<opening, tables, chunkFiles, finalFiles, bounds>>

\* stream_upload and validate_file_signature: 413, 415, or the target is there.
ReceiveFile(r) ==
    /\ At(r, "receive")
    /\ \/ targets' = targets \cup {r} /\ whole' = whole \cup {r} /\ Goto(r, "commit")
       \/ Reply(r, "refused") /\ UNCHANGED finalFiles
    /\ UNCHANGED <<opening, tables, chunkFiles, bounds>>

-----------------------------------------------------------------------------
\* An API process dies with the requests it was serving; their files stay.
ProcessCrash ==
    /\ crashes < MaxCrashes
    /\ crashes' = crashes + 1
    /\ \E served \in SUBSET {r \in Request : Running(r)} :
       \E made \in SUBSET {u \in Upload : opening[u] = "made"} :
         /\ served # {} \/ made # {}
         /\ request' = [r \in Request |->
              IF r \in served
              THEN Start(request[r].op, "dead", request[r].upload, request[r].chunk, 0)
              ELSE request[r]]
         /\ opening' = [u \in Upload |-> IF u \in made THEN "dead" ELSE opening[u]]
    /\ UNCHANGED <<tables, chunkFiles, finalFiles, late, faults>>

InitUpload(u) == MakeDirectory(u) \/ CreateSession(u) \/ CreateSessionRaises(u)

ChunkRequest(r) ==
    \/ \E u \in Upload, i \in Chunk, n \in 0..(ChunkSize + 1) : StartChunk(r, u, i, n)
    \/ CheckChunk(r)
    \/ OpenTemporary(r)
    \/ WriteBlock(r)
    \/ RefuseLong(r)
    \/ RefuseWrongSize(r)
    \/ PublishChunk(r)
    \/ PublishRaises(r)

CompleteRequest(r) ==
    \/ \E u \in Upload : StartComplete(r, u)
    \/ CheckComplete(r)
    \/ ListChunks(r)
    \/ CopyChunk(r)
    \/ StoreTarget(r)
    \/ RemoveSessionFiles(r)

FileRequest(r) == StartFile(r) \/ ReceiveFile(r)

Next ==
    \/ \E u \in Upload : InitUpload(u)
    \/ \E r \in Request : \/ ChunkRequest(r) \/ CompleteRequest(r) \/ FileRequest(r)
                          \/ CommitDocument(r) \/ CommitRaises(r)
    \/ ProcessCrash

Spec == Init /\ [][Next]_vars

-----------------------------------------------------------------------------
(* Type invariant.                                                         *)
TypeOK ==
    /\ opening \in [Upload -> {"unused", "made", "open", "failed", "dead"}]
    /\ sessions \subseteq Upload
    /\ dirs \subseteq Upload
    /\ temporary \in [Upload -> [Chunk -> Request \cup {None}]]
    /\ part \in [Upload -> [Chunk -> Request \cup {None}]]
    /\ blocks \in [Request -> SUBSET (1..ChunkSize)]
    /\ extent \in [Request -> 0..ChunkSize]
    /\ documents \subseteq Request
    /\ targets \subseteq Request
    /\ whole \subseteq targets
    /\ request \in [Request -> [op: {"none", "chunk", "complete", "file"}, pc: Step,
         upload: Upload \cup {None}, chunk: Chunk, length: 0..(ChunkSize + 1), at: Nat,
         file: Request \cup {None}, size: 0..FileSize, intact: BOOLEAN]]
    /\ late \subseteq Request
    /\ faults \in 0..MaxFaults
    /\ crashes \in 0..MaxCrashes

(* What a document is made of is what the client sent, although chunks are *)
(* sent again while they are copied: combine_chunks reads only files that  *)
(* were renamed when they were complete.                                   *)
DocumentIsWhole == documents \ late \subseteq whole

(* A document has its file: whatever overlaps, the failure paths unlink    *)
(* only targets no document names, unless the commit that raised took      *)
(* effect after all (late).                                                *)
DocumentHasFile == documents \ late \subseteq targets

(* Every file in FILES_ROOT belongs to a document, a request under way or  *)
(* one whose process died.                                                 *)
TargetIsOwned ==
    \A r \in targets : r \in documents \/ At(r, "commit") \/ At(r, "dead")

(* A request says what it did: without overlap, 2xx means the document is  *)
(* there, and any other answer that nothing was created, so a client may   *)
(* send the file again.  Only a commit that raised late is not foreseen.   *)
AnswerTellsOutcome ==
    \A r \in Request : request[r].op \in {"complete", "file"} =>
        /\ At(r, "ok") => r \in documents
        /\ At(r, "refused") \/ At(r, "error") => r \notin (documents \ late) \cup targets

(* A session ends in one document at most, however often its completion is *)
(* repeated after an answer or a crash.                                    *)
OneDocumentPerSession ==
    \A r, s \in documents :
        request[r].op = "complete" /\ request[s].op = "complete"
          /\ request[r].upload = request[s].upload => r = s

(* What was acknowledged is kept for a resumption: a chunk answered 2xx is *)
(* there, and complete, as long as the session is, also after a crash and  *)
(* after failed attempts to send it again.                                 *)
AcknowledgedChunkIsKept ==
    \A r \in Request : request[r].op = "chunk" /\ At(r, "ok") /\ request[r].upload \in sessions =>
        LET f == part[request[r].upload][request[r].chunk] IN
        f # None /\ blocks[f] = 1..ExpectedSize(request[r].chunk)

(* The file that is kept as a chunk is as long as the chunk was declared.  *)
PartHasDeclaredSize ==
    \A u \in Upload : \A i \in Listed(u) : extent[part[u][i]] = ExpectedSize(i)

(* A completion fails on its chunks only if one is missing: nothing that   *)
(* was accepted, an index out of range above all, makes a session          *)
(* impossible to complete.                                                 *)
RefusedForMissingChunk ==
    \A r \in Request : request'[r].pc = "refused" =>
        /\ At(r, "list") => \E i \in Wanted : part[request[r].upload][i] = None
        /\ At(r, "copy") => request[r].at = ExpectedChunks /\ request[r].size = FileSize
=============================================================================
