----------------------- MODULE ResumableUploadProofs -----------------------
(***************************************************************************)
(* What holds of uploads for every number of requests, uploads, chunks and *)
(* blocks: the types; that documents and files belong together; that a     *)
(* client that waits for its answer is told what was created and gets one  *)
(* document of a session; and, if no chunk is sent again while its last    *)
(* sending runs, that a document is what the client sent, that what was    *)
(* acknowledged is kept, and that a completion finds nothing wrong with it.*)
(***************************************************************************)
EXTENDS MCResumableUpload, TLAPS

\* The operation a step belongs to, and the upload it is about.
StepFits(r) ==
    /\ request[r].pc \in {"open", "write"} => request[r].op = "chunk"
    /\ request[r].pc \in {"list", "copy", "cleanup"} => request[r].op = "complete"
    /\ request[r].op \in {"chunk", "complete"} => request[r].upload \in Upload
    /\ request[r].pc = "write" => request[r].file \in Request
    /\ request[r].pc = "check" => request[r].op \in {"chunk", "complete"}
    /\ request[r].pc = "receive" => request[r].op = "file"
    /\ request[r].pc = "commit" => request[r].op \in {"complete", "file"}

StepsOK == \A r \in Request : StepFits(r)

TypeInv == TypeOK /\ StepsOK

Fields == [op: {"none", "chunk", "complete", "file"}, pc: Step,
           upload: Upload \cup {None}, chunk: Chunk, length: 0..(ChunkSize + 1), at: Nat,
           file: Request \cup {None}, size: 0..FileSize, intact: BOOLEAN]

(* The number of chunks is a natural number, so index 0 is one to send.    *)
LEMMA ChunksAreCounted == ExpectedChunks \in Nat /\ 0 \in Chunk
<1>1. FileSize + ChunkSize - 1 \in Nat /\ ChunkSize \in Nat \ {0}
  BY UploadAssumption
<1>2. \A a \in Nat : \A b \in Nat \ {0} : a \div b \in Nat
  OBVIOUS
<1>3. QED
  BY <1>1, <1>2 DEF ExpectedChunks, Chunk

(* A request that starts has the fields of one.                            *)
LEMMA StartIsTyped ==
    ASSUME NEW op \in {"none", "chunk", "complete", "file"}, NEW pc \in Step,
           NEW u \in Upload \cup {None}, NEW i \in Chunk, NEW n \in 0..(ChunkSize + 1)
    PROVE  Start(op, pc, u, i, n) \in Fields
BY UploadAssumption DEF Start, Fields

(* Nothing is typed wrongly at the start.                                  *)
LEMMA TypeInit == Init => TypeInv
<1> SUFFICES ASSUME Init PROVE TypeInv
  OBVIOUS
<1>1. Start("none", "unsent", None, 0, 0) \in Fields
  BY ChunksAreCounted, StartIsTyped, UploadAssumption DEF Step, Answer
<1>2. request \in [Request -> Fields]
  BY <1>1 DEF Init
<1>3. NoFiles \in [Chunk -> Request \cup {None}]
  BY DEF NoFiles
<1>4. TypeOK
  BY <1>2, <1>3, UploadAssumption DEF Init, TypeOK, Fields
<1>5. StepsOK
  BY DEF Init, StepsOK, StepFits, Start
<1>6. QED
  BY <1>4, <1>5 DEF TypeInv

(* Answers keep the types.                                                 *)
LEMMA ReplyIsTyped ==
    ASSUME request \in [Request -> Fields], StepsOK, NEW r \in Request,
           NEW answer \in Answer \cup {"dead"}, Reply(r, answer)
    PROVE  request' \in [Request -> Fields] /\ StepsOK'
<1> DEFINE row == Start(request[r].op, answer, request[r].upload, request[r].chunk, 0)
<1>1. request[r] \in Fields
  OBVIOUS
<1>a. request[r].op \in {"none", "chunk", "complete", "file"} /\ request[r].chunk \in Chunk
      /\ request[r].upload \in Upload \cup {None}
  BY <1>1 DEF Fields
<1>b. answer \in Step /\ 0 \in 0..(ChunkSize + 1)
  BY UploadAssumption DEF Step, Answer
<1>2. row \in Fields
  BY <1>a, <1>b, StartIsTyped
<1>3. request' = [request EXCEPT ![r] = row]
  BY DEF Reply
<1>4. row.op = request[r].op /\ row.upload = request[r].upload /\ row.pc = answer
  BY DEF Start
<1> HIDE DEF row
<1>5. request' \in [Request -> Fields]
  BY <1>2, <1>3
<1>6. ASSUME NEW s \in Request PROVE StepFits(s)'
  BY <1>3, <1>4 DEF StepsOK, StepFits, Answer
<1>7. QED
  BY <1>5, <1>6 DEF StepsOK

(* So do steps within a request, if the step is one of its operation.      *)
LEMMA GotoIsTyped ==
    ASSUME request \in [Request -> Fields], StepsOK, NEW r \in Request,
           NEW pc \in Step \ {"check", "write", "receive"}, Goto(r, pc),
           pc = "open" => request[r].op = "chunk",
           pc = "commit" => request[r].op \in {"complete", "file"},
           pc \in {"list", "copy", "cleanup"} => request[r].op = "complete"
    PROVE  request' \in [Request -> Fields] /\ StepsOK'
<1>1. request[r] \in Fields /\ request' = [request EXCEPT ![r].pc = pc]
  BY DEF Goto
<1>2. request' \in [Request -> Fields]
  BY <1>1 DEF Fields
<1>3. ASSUME NEW s \in Request PROVE StepFits(s)'
  BY <1>1 DEF StepsOK, StepFits, Fields
<1>4. QED
  BY <1>2, <1>3 DEF StepsOK

(* And requests that start.                                                *)
LEMMA NewIsTyped ==
    ASSUME request \in [Request -> Fields], StepsOK, NEW r \in Request,
           NEW op \in {"chunk", "complete", "file"}, NEW pc \in {"check", "receive"},
           NEW u \in Upload \cup {None}, NEW i \in Chunk, NEW n \in 0..(ChunkSize + 1),
           op \in {"chunk", "complete"} => u \in Upload,
           pc = "check" => op \in {"chunk", "complete"}, pc = "receive" => op = "file",
           request' = [request EXCEPT ![r] = Start(op, pc, u, i, n)]
    PROVE  request' \in [Request -> Fields] /\ StepsOK'
<1> DEFINE row == Start(op, pc, u, i, n)
<1>1. row \in Fields
  BY StartIsTyped DEF Step
<1>2. row.op = op /\ row.upload = u /\ row.pc = pc
  BY DEF Start
<1> HIDE DEF row
<1>3. request' = [request EXCEPT ![r] = row]
  BY DEF row
<1>4. request' \in [Request -> Fields]
  BY <1>1, <1>3
<1>5. ASSUME NEW s \in Request PROVE StepFits(s)'
  BY <1>2, <1>3 DEF StepsOK, StepFits
<1>6. QED
  BY <1>4, <1>5 DEF StepsOK

(* The tree of a session goes as a whole.                                  *)
LEMMA RemoveTreeIsTyped ==
    ASSUME TypeOK, NEW u \in Upload, RemoveTree(u)
    PROVE  /\ dirs' \subseteq Upload
           /\ temporary' \in [Upload -> [Chunk -> Request \cup {None}]]
           /\ part' \in [Upload -> [Chunk -> Request \cup {None}]]
           /\ blocks' \in [Request -> SUBSET (1..ChunkSize)]
           /\ extent' \in [Request -> 0..ChunkSize]
<1>1. NoFiles \in [Chunk -> Request \cup {None}]
  BY DEF NoFiles
<1>2. QED
  BY <1>1 DEF RemoveTree, TypeOK

(* Opening a session.                                                      *)
LEMMA InitUploadIsTyped ==
    ASSUME TypeInv, NEW u \in Upload, InitUpload(u)
    PROVE  TypeInv'
<1> USE DEF TypeInv
<1>1. request' = request
  BY DEF InitUpload, MakeDirectory, CreateSession, CreateSessionRaises
<1>2. StepsOK'
  BY <1>1 DEF StepsOK, StepFits
<1>3. CASE MakeDirectory(u)
  BY <1>1, <1>2, <1>3 DEF MakeDirectory, TypeOK, tables, finalFiles, bounds
<1>4. CASE CreateSession(u)
  BY <1>1, <1>2, <1>4 DEF CreateSession, TypeOK, chunkFiles, finalFiles, bounds
<1>5. CASE CreateSessionRaises(u)
  <2>1. RemoveTree(u)
    BY <1>5 DEF CreateSessionRaises
  <2>2. faults' \in 0..MaxFaults /\ UNCHANGED <<late, crashes>> /\ sessions' \subseteq Upload
    BY <1>5, UploadAssumption DEF CreateSessionRaises, CommitFault, TypeOK
  <2>3. QED
    BY <1>1, <1>2, <1>5, <2>1, <2>2, RemoveTreeIsTyped DEF CreateSessionRaises, TypeOK, finalFiles
<1>6. QED
  BY <1>3, <1>4, <1>5 DEF InitUpload

(* Receiving a chunk.                                                      *)
LEMMA ChunkRequestIsTyped ==
    ASSUME TypeInv, NEW r \in Request, ChunkRequest(r)
    PROVE  TypeInv'
<1> DEFINE u == request[r].upload
           i == request[r].chunk
<1> USE DEF TypeInv
<1>1. request \in [Request -> Fields] /\ request[r] \in Fields
  BY DEF TypeOK, Fields
<1>2. i \in Chunk /\ StepFits(r)
  BY <1>1 DEF Fields, StepsOK
<1>3. ASSUME NEW v \in Upload, NEW k \in Chunk, NEW n \in 0..(ChunkSize + 1), StartChunk(r, v, k, n)
      PROVE  TypeInv'
  <2>1. request' \in [Request -> Fields] /\ StepsOK'
    BY <1>1, <1>3, NewIsTyped DEF StartChunk
  <2>2. QED
    BY <1>3, <2>1 DEF StartChunk, TypeOK, Fields, tables, chunkFiles, finalFiles, bounds
<1>4. CASE CheckChunk(r)
  <2>1. Goto(r, "open") \/ Reply(r, "refused")
    BY <1>4 DEF CheckChunk, Require
  <2>2. request' \in [Request -> Fields] /\ StepsOK'
    BY <1>1, <1>4, <2>1, GotoIsTyped, ReplyIsTyped DEF CheckChunk, Step, Answer
  <2>3. QED
    BY <1>4, <2>2 DEF CheckChunk, TypeOK, Fields, tables, chunkFiles, finalFiles, bounds
<1>5. CASE OpenTemporary(r)
  <2>1. PICK f : /\ f = IF temporary[u][i] = None THEN r ELSE temporary[u][i]
                 /\ dirs' = dirs \cup {u}
                 /\ temporary' = [temporary EXCEPT ![u][i] = f]
                 /\ blocks' = [blocks EXCEPT ![f] = {}]
                 /\ extent' = [extent EXCEPT ![f] = 0]
                 /\ request' = [request EXCEPT ![r].pc = "write", ![r].file = f]
    BY <1>5 DEF OpenTemporary
  <2>2. u \in Upload /\ request[r].op = "chunk"
    BY <1>2, <1>5 DEF StepFits, OpenTemporary, At
  <2>3. f \in Request
    BY <1>2, <2>1, <2>2 DEF TypeOK
  <2>4. request' \in [Request -> Fields]
    BY <1>1, <2>1, <2>3 DEF Fields, Step
  <2>5. ASSUME NEW s \in Request PROVE StepFits(s)'
    BY <1>1, <2>1, <2>2, <2>3 DEF StepsOK, StepFits, Fields
  <2>6. dirs' \subseteq Upload /\ temporary' \in [Upload -> [Chunk -> Request \cup {None}]]
    BY <1>2, <2>1, <2>2, <2>3 DEF TypeOK
  <2>7. blocks' \in [Request -> SUBSET (1..ChunkSize)] /\ extent' \in [Request -> 0..ChunkSize]
    BY <2>1, <2>3, UploadAssumption DEF TypeOK
  <2>8. UNCHANGED <<opening, tables, part, finalFiles, bounds>>
    BY <1>5 DEF OpenTemporary
  <2>9. QED
    BY <2>4, <2>5, <2>6, <2>7, <2>8 DEF TypeOK, Fields, StepsOK, tables, finalFiles, bounds
<1>6. CASE WriteBlock(r)
  <2> DEFINE n == request[r].at + 1
             f == request[r].file
  <2>1. n \in 1..ChunkSize /\ f \in Request
    BY <1>1, <1>2, <1>6, UploadAssumption DEF WriteBlock, At, StepFits, Fields
  <2>2. request' = [request EXCEPT ![r].at = n]
    BY <1>6 DEF WriteBlock
  <2>3. blocks' = [blocks EXCEPT ![f] = @ \cup {n}]
        /\ extent' = [extent EXCEPT ![f] = IF n > @ THEN n ELSE @]
    BY <1>6 DEF WriteBlock
  <2> HIDE DEF n, f
  <2>4. request' \in [Request -> Fields]
    BY <1>1, <2>1, <2>2 DEF Fields
  <2>5. ASSUME NEW s \in Request PROVE StepFits(s)'
    BY <1>1, <2>2 DEF StepsOK, StepFits, Fields
  <2>6. blocks' \in [Request -> SUBSET (1..ChunkSize)]
    BY <2>1, <2>3 DEF TypeOK
  <2>7. extent' \in [Request -> 0..ChunkSize]
    BY <2>1, <2>3, UploadAssumption DEF TypeOK
  <2>8. QED
    BY <1>6, <2>4, <2>5, <2>6, <2>7 DEF WriteBlock, TypeOK, Fields, StepsOK, tables, finalFiles, bounds
<1>7. ASSUME NEW answer \in Answer, DropTemporary(r, answer)
      PROVE  TypeInv'
  <2>1. request' \in [Request -> Fields] /\ StepsOK'
    BY <1>1, <1>7, ReplyIsTyped DEF DropTemporary
  <2>2. temporary' \in [Upload -> [Chunk -> Request \cup {None}]]
    BY <1>7 DEF DropTemporary, TypeOK
  <2>3. QED
    BY <1>7, <2>1, <2>2 DEF DropTemporary, TypeOK, Fields, tables, finalFiles, bounds
<1>8. CASE RefuseLong(r) \/ RefuseWrongSize(r) \/ PublishRaises(r)
  BY <1>7, <1>8 DEF RefuseLong, RefuseWrongSize, PublishRaises, Answer
<1>9. CASE PublishChunk(r)
  <2>1. request' \in [Request -> Fields] /\ StepsOK'
    BY <1>1, <1>9, ReplyIsTyped DEF PublishChunk, Answer
  <2>2. u \in Upload /\ temporary[u][i] \in Request \cup {None}
    BY <1>2, <1>9 DEF PublishChunk, Ended, At, StepFits, StepsOK, TypeOK
  <2>3. QED
    BY <1>2, <1>9, <2>1, <2>2 DEF PublishChunk, TypeOK, Fields, tables, finalFiles, bounds
<1>10. QED
  BY <1>3, <1>4, <1>5, <1>6, <1>8, <1>9 DEF ChunkRequest

(* Completing an upload.                                                   *)
LEMMA CompleteRequestIsTyped ==
    ASSUME TypeInv, NEW r \in Request, CompleteRequest(r)
    PROVE  TypeInv'
<1> DEFINE u == request[r].upload
<1> USE DEF TypeInv
<1>1. request \in [Request -> Fields] /\ request[r] \in Fields /\ StepFits(r)
  BY DEF TypeOK, Fields, StepsOK
<1>2. ASSUME NEW v \in Upload, StartComplete(r, v)
      PROVE  TypeInv'
  <2>a. 0 \in Chunk /\ 0 \in 0..(ChunkSize + 1)
    BY ChunksAreCounted, UploadAssumption
  <2>b. request' = [request EXCEPT ![r] = Start("complete", "check", v, 0, 0)]
    BY <1>2 DEF StartComplete
  <2>1. request' \in [Request -> Fields] /\ StepsOK'
    BY <1>1, <2>a, <2>b, NewIsTyped
  <2>2. QED
    BY <1>2, <2>1 DEF StartComplete, TypeOK, Fields, tables, chunkFiles, finalFiles, bounds
<1>3. CASE CheckComplete(r) \/ ListChunks(r)
  <2>1. \E pc \in {"list", "copy"} : Goto(r, pc) \/ Reply(r, "refused")
    BY <1>3 DEF CheckComplete, ListChunks, Require
  <2>2. request[r].op = "complete"
    BY <1>1, <1>3 DEF CheckComplete, ListChunks, At, StepFits
  <2>3. request' \in [Request -> Fields] /\ StepsOK'
    BY <1>1, <2>1, <2>2, GotoIsTyped, ReplyIsTyped DEF Step, Answer
  <2>4. QED
    BY <1>3, <2>3 DEF CheckComplete, ListChunks, TypeOK, Fields, tables, chunkFiles, finalFiles, bounds
<1>4. CASE CopyChunk(r)
  <2> DEFINE i == request[r].at
             f == part[u][i]
             size == request[r].size + extent[f]
             fits == blocks[f] = 1..ExpectedSize(i)
  <2>1. i \in Chunk /\ u \in Upload
    BY <1>1, <1>4, ChunksAreCounted DEF CopyChunk, At, StepFits, Fields, Chunk
  <2>2. f \in Request \cup {None}
    BY <2>1 DEF TypeOK
  <2>3. Reply(r, "refused") \/ (/\ f # None /\ ~(size > FileSize)
          /\ request' = [request EXCEPT ![r].at = i + 1, ![r].size = size, ![r].intact = @ /\ fits])
    BY <1>4 DEF CopyChunk
  <2> HIDE DEF f, fits
  <2>4. ASSUME f # None, ~(size > FileSize),
               request' = [request EXCEPT ![r].at = i + 1, ![r].size = size, ![r].intact = @ /\ fits]
        PROVE  request' \in [Request -> Fields] /\ StepsOK'
    <3>1. size \in 0..FileSize /\ i + 1 \in Nat
      BY <1>1, <2>2, <2>4, UploadAssumption DEF TypeOK, Fields
    <3>2. (request[r].intact /\ fits) \in BOOLEAN
      BY Zenon
    <3> HIDE DEF size
    <3>3. request' \in [Request -> Fields]
      BY <1>1, <2>4, <3>1, <3>2 DEF Fields
    <3>4. ASSUME NEW s \in Request PROVE StepFits(s)'
      BY <1>1, <2>4 DEF StepsOK, StepFits, Fields
    <3>5. QED
      BY <3>3, <3>4 DEF StepsOK
  <2>5. request' \in [Request -> Fields] /\ StepsOK'
    BY <1>1, <2>3, <2>4, ReplyIsTyped DEF Answer
  <2>6. QED
    BY <1>4, <2>5 DEF CopyChunk, TypeOK, Fields, tables, chunkFiles, finalFiles, bounds
<1>5. CASE StoreTarget(r)
  <2>1. (Goto(r, "commit") /\ request[r].op = "complete") \/ Reply(r, "refused")
    BY <1>5 DEF StoreTarget, StepsOK, StepFits, At
  <2>2. request' \in [Request -> Fields] /\ StepsOK'
    BY <1>1, <2>1, GotoIsTyped, ReplyIsTyped DEF Step, Answer
  <2>3. QED
    BY <1>5, <2>2 DEF StoreTarget, TypeOK, Fields, tables, chunkFiles, finalFiles, bounds
<1>6. CASE RemoveSessionFiles(r)
  <2>1. \E answer \in Answer : Reply(r, answer)
    BY <1>6 DEF RemoveSessionFiles, Answer
  <2>2. request' \in [Request -> Fields] /\ StepsOK'
    BY <1>1, <2>1, ReplyIsTyped
  <2>3. CASE u \in dirs
    <3>1. u \in Upload /\ RemoveTree(u)
      BY <1>6, <2>3 DEF RemoveSessionFiles, TypeOK
    <3>2. QED
      BY <1>6, <2>2, <3>1, RemoveTreeIsTyped DEF RemoveSessionFiles, TypeOK, Fields, tables, finalFiles, bounds
  <2>4. CASE u \notin dirs
    BY <1>6, <2>2, <2>4 DEF RemoveSessionFiles, TypeOK, Fields, tables, chunkFiles, finalFiles, bounds
  <2>5. QED
    BY <2>3, <2>4
<1>7. QED
  BY <1>2, <1>3, <1>4, <1>5, <1>6 DEF CompleteRequest

(* Uploading a whole file, and the commit of either way to upload.         *)
LEMMA FileRequestIsTyped ==
    ASSUME TypeInv, NEW r \in Request,
           FileRequest(r) \/ CommitDocument(r) \/ CommitRaises(r)
    PROVE  TypeInv'
<1> USE DEF TypeInv
<1>1. request \in [Request -> Fields] /\ request[r] \in Fields
  BY DEF TypeOK, Fields
<1>2. CASE StartFile(r)
  <2>1. 0 \in Chunk /\ 0 \in 0..(ChunkSize + 1)
    BY ChunksAreCounted, UploadAssumption
  <2>2. request' = [request EXCEPT ![r] = Start("file", "receive", None, 0, 0)]
    BY <1>2 DEF StartFile
  <2>3. request' \in [Request -> Fields] /\ StepsOK'
    BY <1>1, <2>1, <2>2, NewIsTyped
  <2>4. QED
    BY <1>2, <2>3 DEF StartFile, TypeOK, Fields, tables, chunkFiles, finalFiles, bounds
<1>3. CASE ReceiveFile(r)
  <2>1. (Goto(r, "commit") /\ request[r].op = "file") \/ Reply(r, "refused")
    BY <1>3 DEF ReceiveFile, StepsOK, StepFits, At
  <2>2. request' \in [Request -> Fields] /\ StepsOK'
    BY <1>1, <2>1, GotoIsTyped, ReplyIsTyped DEF Step, Answer
  <2>3. QED
    BY <1>3, <2>2 DEF ReceiveFile, TypeOK, Fields, tables, chunkFiles, finalFiles, bounds
<1>4. CASE CommitDocument(r)
  <2>1. (Goto(r, "cleanup") /\ request[r].op = "complete") \/ Reply(r, "ok")
    BY <1>4 DEF CommitDocument
  <2>2. request' \in [Request -> Fields] /\ StepsOK'
    BY <1>1, <2>1, GotoIsTyped, ReplyIsTyped DEF Step, Answer
  <2>3. QED
    BY <1>4, <2>2 DEF CommitDocument, TypeOK, Fields, chunkFiles, finalFiles, bounds
<1>5. CASE CommitRaises(r)
  <2>1. request' \in [Request -> Fields] /\ StepsOK'
    BY <1>1, <1>5, ReplyIsTyped DEF CommitRaises, Answer
  <2>2. /\ faults' \in 0..MaxFaults /\ documents' \subseteq Request
        /\ sessions' \subseteq Upload /\ late' \subseteq Request
    BY <1>5, UploadAssumption DEF CommitRaises, CommitFault, TypeOK, tables
  <2>3. QED
    BY <1>5, <2>1, <2>2 DEF CommitRaises, TypeOK, Fields, chunkFiles
<1>6. QED
  BY <1>2, <1>3, <1>4, <1>5 DEF FileRequest

(* A process that dies.                                                    *)
LEMMA CrashIsTyped ==
    ASSUME TypeInv, ProcessCrash
    PROVE  TypeInv'
<1> USE DEF TypeInv
<1> DEFINE row(r) == Start(request[r].op, "dead", request[r].upload, request[r].chunk, 0)
<1>1. PICK served \in SUBSET {r \in Request : Running(r)},
           made \in SUBSET {u \in Upload : opening[u] = "made"} :
         /\ request' = [r \in Request |-> IF r \in served THEN row(r) ELSE request[r]]
         /\ opening' = [u \in Upload |-> IF u \in made THEN "dead" ELSE opening[u]]
  BY Zenon DEF ProcessCrash
<1>2. ASSUME NEW r \in Request
      PROVE  row(r) \in Fields /\ row(r).op = request[r].op
             /\ row(r).upload = request[r].upload /\ row(r).pc = "dead"
  <2>1. request[r].op \in {"none", "chunk", "complete", "file"} /\ request[r].chunk \in Chunk
        /\ request[r].upload \in Upload \cup {None} /\ 0 \in 0..(ChunkSize + 1)
    BY UploadAssumption DEF TypeOK
  <2>2. row(r) \in Fields
    BY <2>1, StartIsTyped DEF Step
  <2>3. QED
    BY <2>2 DEF Start
<1> HIDE DEF row
<1>3. request' \in [Request -> Fields]
  BY <1>1, <1>2 DEF TypeOK, Fields
<1>4. ASSUME NEW s \in Request PROVE StepFits(s)'
  BY <1>1, <1>2 DEF StepsOK, StepFits
<1>5. opening' \in [Upload -> {"unused", "made", "open", "failed", "dead"}]
  BY <1>1 DEF TypeOK
<1>6. crashes' \in 0..MaxCrashes
  BY UploadAssumption DEF ProcessCrash, TypeOK
<1>7. QED
  BY <1>3, <1>4, <1>5, <1>6 DEF ProcessCrash, TypeOK, Fields, StepsOK, tables, chunkFiles, finalFiles

LEMMA TypeStep == TypeInv /\ [Next]_vars => TypeInv'
<1> SUFFICES ASSUME TypeInv, [Next]_vars PROVE TypeInv'
  OBVIOUS
<1>1. CASE UNCHANGED vars
  BY <1>1 DEF vars, tables, chunkFiles, finalFiles, bounds, TypeInv, TypeOK, StepsOK, StepFits
<1>2. CASE Next
  BY <1>2, InitUploadIsTyped, ChunkRequestIsTyped, CompleteRequestIsTyped, FileRequestIsTyped,
     CrashIsTyped DEF Next
<1>3. QED
  BY <1>1, <1>2

(* Every variable keeps its type: no file grows beyond a chunk, and no     *)
(* completion copies more than the declared size (stream_upload,           *)
(* combine_chunks), however the requests of a session overlap.             *)
THEOREM UploadTypeCorrect == Spec => []TypeOK
<1>1. Spec => []TypeInv
  BY TypeInit, TypeStep, PTL DEF Spec
<1>2. TypeInv => TypeOK
  BY DEF TypeInv
<1>3. QED
  BY <1>1, <1>2, PTL

-----------------------------------------------------------------------------
(* Documents, files and their owners.                                      *)

\* What the answer of a request, its document and its target have to do
\* with each other.
Outcome(r) ==
    /\ r \in documents => request[r].pc \in {"cleanup", "ok", "error", "dead"}
    /\ r \in targets => r \in documents \/ At(r, "commit") \/ At(r, "dead")
    /\ At(r, "commit") => r \in targets
    /\ r \in documents \ late => r \in targets

OutcomeInv == \A r \in Request : Outcome(r)

(* A step of request r that stores, commits or answers as the handlers do. *)
LEMMA OutcomeOfRequest ==
    ASSUME TypeInv, OutcomeInv, NEW r \in Request,
           ChunkRequest(r) \/ CompleteRequest(r) \/ FileRequest(r) \/ CommitDocument(r) \/ CommitRaises(r)
    PROVE  OutcomeInv'
<1> USE DEF TypeInv
<1>1. request \in [Request -> Fields]
  BY DEF TypeOK, Fields
<1>2. ASSUME NEW s \in Request, s # r
      PROVE  request'[s] = request[s]
  BY <1>1, <1>2 DEF ChunkRequest, CompleteRequest, FileRequest, CommitDocument, CommitRaises,
     StartChunk, CheckChunk, OpenTemporary, WriteBlock, RefuseLong, RefuseWrongSize, PublishChunk,
     PublishRaises, DropTemporary, StartComplete, CheckComplete, ListChunks, CopyChunk, StoreTarget,
     RemoveSessionFiles, StartFile, ReceiveFile, Require, Goto, Reply
<1>3. ASSUME UNCHANGED <<documents, late, targets>>, request[r].pc # "commit",
             request'[r].pc # "commit",
             request[r].pc = "cleanup" => request'[r].pc \in {"ok", "error"},
             request[r].pc \notin {"ok", "error", "dead"}
      PROVE  OutcomeInv'
  BY <1>2, <1>3 DEF OutcomeInv, Outcome, At
<1>4. CASE ChunkRequest(r)
  <2>1. UNCHANGED <<documents, late, targets>>
    BY <1>4 DEF ChunkRequest, StartChunk, CheckChunk, OpenTemporary, WriteBlock, RefuseLong,
       RefuseWrongSize, PublishChunk, PublishRaises, DropTemporary, tables, finalFiles, bounds
  <2>2. request[r].pc \in {"unsent", "check", "open", "write"}
    BY <1>4 DEF ChunkRequest, StartChunk, CheckChunk, OpenTemporary, WriteBlock, RefuseLong,
       RefuseWrongSize, PublishChunk, PublishRaises, Ended, At
  <2>3. request'[r].pc # "commit"
    <3>1. CASE \E u \in Upload, i \in Chunk, n \in 0..(ChunkSize + 1) : StartChunk(r, u, i, n)
      BY <1>1, <3>1 DEF StartChunk, Start
    <3>2. CASE OpenTemporary(r)
      BY <1>1, <3>2 DEF OpenTemporary, Fields
    <3>3. CASE WriteBlock(r)
      BY <1>1, <3>3 DEF WriteBlock, At, Fields
    <3>4. CASE \/ CheckChunk(r) \/ RefuseLong(r) \/ RefuseWrongSize(r)
               \/ PublishChunk(r) \/ PublishRaises(r)
      <4>1. Goto(r, "open") \/ \E answer \in Answer : Reply(r, answer)
        BY <3>4 DEF CheckChunk, RefuseLong, RefuseWrongSize, PublishChunk, PublishRaises,
           DropTemporary, Require, Answer
      <4>2. QED
        BY <1>1, <4>1 DEF Goto, Reply, Start, Answer, Fields
    <3>5. QED
      BY <1>4, <3>1, <3>2, <3>3, <3>4 DEF ChunkRequest
  <2>4. QED
    BY <1>3, <2>1, <2>2, <2>3
<1>5. CASE /\ CompleteRequest(r)
           /\ ~StoreTarget(r)
  <2>1. UNCHANGED <<documents, late, targets>>
    BY <1>5 DEF CompleteRequest, StartComplete, CheckComplete, ListChunks, CopyChunk,
       RemoveSessionFiles, tables, finalFiles, bounds
  <2>2. request[r].pc \in {"unsent", "check", "list", "copy", "cleanup"}
    BY <1>5 DEF CompleteRequest, StartComplete, CheckComplete, ListChunks, CopyChunk,
       RemoveSessionFiles, At
  <2>3. request'[r].pc # "commit" /\ (request[r].pc = "cleanup" => request'[r].pc \in {"ok", "error"})
    <3>1. CASE \E u \in Upload : StartComplete(r, u)
      BY <1>1, <3>1 DEF StartComplete, Start, At
    <3>2. CASE CheckComplete(r)
      <4>1. request[r].pc = "check" /\ (Goto(r, "list") \/ Reply(r, "refused"))
        BY <3>2 DEF CheckComplete, Require, At
      <4>2. QED
        BY <1>1, <4>1 DEF Goto, Reply, Start, Fields
    <3>3. CASE ListChunks(r)
      <4>1. request[r].pc = "list" /\ (Goto(r, "copy") \/ Reply(r, "refused"))
        BY <3>3 DEF ListChunks, Require, At
      <4>2. QED
        BY <1>1, <4>1 DEF Goto, Reply, Start, Fields
    <3>4. CASE CopyChunk(r)
      <4>1. request[r].pc = "copy"
        BY <3>4 DEF CopyChunk, At
      <4>2. request'[r].pc \in {"refused", "copy"}
        BY <1>1, <3>4 DEF CopyChunk, Reply, Start, At, Fields
      <4>3. QED
        BY <4>1, <4>2
    <3>5. CASE RemoveSessionFiles(r)
      <4>1. \E answer \in {"ok", "error"} : Reply(r, answer)
        BY <3>5 DEF RemoveSessionFiles
      <4>2. QED
        BY <1>1, <4>1 DEF Reply, Start, Fields
    <3>6. QED
      BY <1>5, <3>1, <3>2, <3>3, <3>4, <3>5 DEF CompleteRequest
  <2>4. QED
    BY <1>3, <2>1, <2>2, <2>3
<1>6. CASE StartFile(r)
  <2>1. UNCHANGED <<documents, late, targets>> /\ request[r].pc = "unsent"
    BY <1>6 DEF StartFile, tables, finalFiles, bounds, At
  <2>2. request'[r].pc = "receive"
    BY <1>1, <1>6 DEF StartFile, Start
  <2>3. QED
    BY <1>3, <2>1, <2>2
<1>7. CASE StoreTarget(r) \/ ReceiveFile(r)
  <2>1. UNCHANGED <<documents, late>> /\ request[r].pc \in {"copy", "receive"}
    BY <1>7 DEF StoreTarget, ReceiveFile, tables, bounds, At
  <2>2. \/ targets' = targets \cup {r} /\ request'[r].pc = "commit"
        \/ targets' = targets /\ request'[r].pc = "refused"
    BY <1>1, <1>7 DEF StoreTarget, ReceiveFile, Goto, Reply, Start, finalFiles, Fields
  <2>3. QED
    BY <1>2, <2>1, <2>2 DEF OutcomeInv, Outcome, At
<1>8. CASE CommitDocument(r)
  <2>1. /\ documents' = documents \cup {r} /\ UNCHANGED <<late, targets>>
        /\ request[r].pc = "commit" /\ request'[r].pc \in {"cleanup", "ok"}
    BY <1>1, <1>8 DEF CommitDocument, Goto, Reply, Start, At, finalFiles, bounds, Fields
  <2>2. QED
    BY <1>2, <2>1 DEF OutcomeInv, Outcome, At
<1>9. CASE CommitRaises(r)
  <2>1. /\ targets' = targets \ {r}
        /\ \/ documents' = documents \cup {r} /\ late' = late \cup {r}
           \/ documents' = documents /\ late' = late
        /\ request[r].pc = "commit" /\ request'[r].pc = "error"
    BY <1>1, <1>9 DEF CommitRaises, Reply, Start, At, tables, Fields
  <2>2. QED
    BY <1>2, <2>1 DEF OutcomeInv, Outcome, At
<1>10. QED
  BY <1>4, <1>5, <1>6, <1>7, <1>8, <1>9 DEF FileRequest

LEMMA OutcomeStep ==
    ASSUME TypeInv, OutcomeInv, [Next]_vars
    PROVE  OutcomeInv'
<1>1. CASE UNCHANGED vars
  BY <1>1 DEF vars, tables, finalFiles, bounds, OutcomeInv, Outcome, At
<1>2. ASSUME NEW u \in Upload, InitUpload(u) PROVE OutcomeInv'
  BY <1>2 DEF InitUpload, MakeDirectory, CreateSession, CreateSessionRaises, tables, finalFiles, bounds,
     OutcomeInv, Outcome, At
<1>3. CASE ProcessCrash
  <2>1. UNCHANGED <<documents, late, targets>>
    BY <1>3 DEF ProcessCrash, tables, finalFiles, bounds
  <2>2. ASSUME NEW r \in Request
        PROVE  \/ request'[r] = request[r]
               \/ Running(r) /\ request'[r].pc = "dead"
    BY <1>3 DEF ProcessCrash, Start
  <2>3. QED
    BY <2>1, <2>2 DEF OutcomeInv, Outcome, At
<1>4. QED
  BY <1>1, <1>2, <1>3, OutcomeOfRequest DEF Next

LEMMA OutcomeAlways == Spec => []OutcomeInv
<1>1. Init => OutcomeInv
  BY DEF Init, OutcomeInv, Outcome, Start, At
<1>2. Spec => []TypeInv
  BY TypeInit, TypeStep, PTL DEF Spec
<1>3. TypeInv /\ OutcomeInv /\ [Next]_vars => OutcomeInv'
  BY OutcomeStep
<1>4. QED
  BY <1>1, <1>2, <1>3, PTL DEF Spec

(* No document without its file, whatever overlaps, fails or dies, but one *)
(* whose commit raised and took effect: for it alone is unlinking the      *)
(* target in the except branch wrong.                                      *)
THEOREM DocumentsHaveFiles == Spec => []DocumentHasFile
<1>1. TypeInv /\ OutcomeInv => DocumentHasFile
  BY DEF TypeInv, TypeOK, OutcomeInv, Outcome, DocumentHasFile
<1>2. Spec => []TypeInv
  BY TypeInit, TypeStep, PTL DEF Spec
<1>3. QED
  BY <1>1, <1>2, OutcomeAlways, PTL

(* No file in FILES_ROOT without a document, but while its request is      *)
(* about to commit or after its process died there.                        *)
THEOREM TargetsAreOwned == Spec => []TargetIsOwned
<1>1. TypeInv /\ OutcomeInv => TargetIsOwned
  BY DEF TypeInv, TypeOK, OutcomeInv, Outcome, TargetIsOwned
<1>2. Spec => []TypeInv
  BY TypeInit, TypeStep, PTL DEF Spec
<1>3. QED
  BY <1>1, <1>2, OutcomeAlways, PTL

-----------------------------------------------------------------------------
\* Request r is sending a chunk, has not opened a file yet, or has one open.
Sending(r) == request[r].op = "chunk" /\ request[r].pc \in {"check", "open", "write"}
Unopened(r) == request[r].pc \in {"unsent", "check", "open"}
Writing(r) == request[r].pc = "write"

SameChunk(r, s) == request[r].upload = request[s].upload /\ request[r].chunk = request[s].chunk

OneSender == \A r, s \in Request : Sending(r) /\ Sending(s) /\ SameChunk(r, s) => r = s

\* The file a request is going to create is nowhere yet.
FreshFiles ==
    \A f \in Request : Unopened(f) =>
        /\ request[f].at = 0
        /\ \A u \in Upload, i \in Chunk : temporary[u][i] # f /\ part[u][i] # f
        /\ \A r \in Request : Writing(r) => request[r].file # f

\* A file that is written has one writer, holds what the writer received, and
\* is found under the writer's temporary path or nowhere.
WriterAlone(r) ==
    /\ blocks[request[r].file] = 1..request[r].at /\ extent[request[r].file] = request[r].at
    /\ \A u \in Upload, i \in Chunk :
         /\ part[u][i] # request[r].file
         /\ temporary[u][i] = request[r].file => u = request[r].upload /\ i = request[r].chunk
         /\ u = request[r].upload /\ i = request[r].chunk =>
              temporary[u][i] \in {None, request[r].file}
    /\ \A s \in Request : Writing(s) /\ request[s].file = request[r].file => s = r

WritersAlone == \A r \in Request : Writing(r) => WriterAlone(r)

\* A temporary file is under one path only.
PathsApart ==
    \A u, v \in Upload : \A i, j \in Chunk : temporary[u][i] # None =>
        /\ part[v][j] # temporary[u][i]
        /\ temporary[v][j] = temporary[u][i] => v = u /\ j = i

PartsWhole ==
    \A u \in Upload, i \in Chunk : part[u][i] # None =>
        blocks[part[u][i]] = 1..ExpectedSize(i) /\ extent[part[u][i]] = ExpectedSize(i)

FileInv == FreshFiles /\ WritersAlone /\ PathsApart /\ PartsWhole

\* What is copied is copied from whole chunks.
CopyInv ==
    \A r \in Request : /\ request[r].intact
                       /\ At(r, "commit") => r \in whole
                       /\ r \in documents \ late => r \in whole

ContentInv == OneSender /\ FileInv /\ CopyInv

\* A step that opens and writes nothing, as far as request r goes.
Passes(r) ==
    \/ request'[r] = request[r]
    \/ request'[r].pc \notin {"unsent", "check", "open", "write"}
    \/ Unopened(r) /\ request'[r].pc \in {"check", "open"} /\ request'[r].at = 0

\* Nor does a new request send a chunk.
SendsNothingNew(r) ==
    (request'[r].op = "chunk" /\ request'[r].pc \in {"check", "open", "write"}) =>
        Sending(r) /\ request'[r].upload = request[r].upload /\ request'[r].chunk = request[r].chunk

(* Removing files disturbs nobody.                                         *)
LEMMA FilesRemoved ==
    ASSUME TypeInv, FileInv, blocks' = blocks, extent' = extent, \A r \in Request : Passes(r),
           \A u \in Upload, i \in Chunk : /\ temporary'[u][i] \in {None, temporary[u][i]}
                                         /\ part'[u][i] \in {None, part[u][i]}
    PROVE  FileInv'
<1>1. \A r \in Request : request'[r].pc \in {"unsent", "check", "open"} =>
        Unopened(r) /\ request'[r].at = 0
  BY DEF Passes, Unopened, FileInv, FreshFiles
<1>2. \A r \in Request : request'[r].pc = "write" => request'[r] = request[r]
  BY DEF Passes, Unopened
<1>3. FreshFiles'
  BY <1>1, <1>2, UploadAssumption DEF FileInv, FreshFiles, Unopened, Writing
<1>4. WritersAlone'
  <2> SUFFICES ASSUME NEW r \in Request, request'[r].pc = "write" PROVE WriterAlone(r)'
    BY DEF WritersAlone, Writing
  <2>1. request'[r] = request[r] /\ WriterAlone(r) /\ request[r].file \in Request
    BY <1>2 DEF FileInv, WritersAlone, Writing, TypeInv, StepsOK, StepFits
  <2>2. request[r].file # None
    BY <2>1, UploadAssumption
  <2>3. QED
    BY <1>2, <2>1, <2>2 DEF WriterAlone, Writing
<1>5. PathsApart'
  BY DEF FileInv, PathsApart
<1>6. PartsWhole'
  BY DEF FileInv, PartsWhole
<1>7. QED
  BY <1>3, <1>4, <1>5, <1>6 DEF FileInv

LEMMA SenderKept ==
    ASSUME OneSender, \A r \in Request : SendsNothingNew(r)
    PROVE  OneSender'
BY DEF OneSender, SendsNothingNew, Sending, SameChunk

(* A chunk that begins: nobody else is sending it.                         *)
LEMMA ChunkBegins ==
    ASSUME TypeInv, OneSender, "chunk" \notin Overlaps, NEW r \in Request,
           NEW u \in Upload, NEW i \in Chunk, NEW n \in 0..(ChunkSize + 1), StartChunk(r, u, i, n)
    PROVE  OneSender'
<1>1. request \in [Request -> Fields]
  BY DEF TypeInv, TypeOK, Fields
<1>2. request' = [request EXCEPT ![r] = Start("chunk", "check", u, i, n)]
  BY DEF StartChunk
<1>3. \A s \in Request : s # r => request'[s] = request[s]
  BY <1>1, <1>2
<1>4. request'[r].upload = u /\ request'[r].chunk = i
  BY <1>1, <1>2 DEF Start
<1>5. ASSUME NEW s \in Request, Sending(s), request[s].upload = u, request[s].chunk = i
      PROVE  FALSE
  BY <1>5 DEF StartChunk, Sending, Running, Answer
<1>6. QED
  BY <1>3, <1>4, <1>5 DEF OneSender, Sending, SameChunk

(* Opening the temporary file: a new one, or one that no writer has open.  *)
LEMMA TemporaryOpened ==
    ASSUME TypeInv, OneSender, FileInv, NEW r \in Request, OpenTemporary(r)
    PROVE  FileInv'
<1> DEFINE u == request[r].upload
           i == request[r].chunk
<1>1. /\ request \in [Request -> Fields] /\ request[r] \in Fields
      /\ request[r].pc = "open" /\ request[r].op = "chunk" /\ u \in Upload /\ i \in Chunk
  BY DEF OpenTemporary, At, TypeInv, TypeOK, Fields, StepsOK, StepFits
<1>2. PICK f : /\ f = IF temporary[u][i] = None THEN r ELSE temporary[u][i]
               /\ temporary' = [temporary EXCEPT ![u][i] = f]
               /\ blocks' = [blocks EXCEPT ![f] = {}]
               /\ extent' = [extent EXCEPT ![f] = 0]
               /\ request' = [request EXCEPT ![r].pc = "write", ![r].file = f]
  BY DEF OpenTemporary
<1>3. f \in Request /\ f # None
  BY <1>1, <1>2, UploadAssumption DEF TypeInv, TypeOK
<1>4. part' = part
  BY DEF OpenTemporary
<1>5. ASSUME NEW v \in Upload, NEW j \in Chunk
      PROVE  temporary'[v][j] = IF v = u /\ j = i THEN f ELSE temporary[v][j]
  BY <1>1, <1>2 DEF TypeInv, TypeOK
<1>6. /\ request'[r].pc = "write" /\ request'[r].file = f /\ request'[r].at = request[r].at
      /\ request'[r].upload = u /\ request'[r].chunk = i
      /\ \A s \in Request : s # r => request'[s] = request[s]
  BY <1>1, <1>2 DEF Fields
<1>7. /\ request[r].at = 0 /\ \A v \in Upload, j \in Chunk : temporary[v][j] # r /\ part[v][j] # r
      /\ \A s \in Request : Writing(s) => request[s].file # r
  BY <1>1 DEF FileInv, FreshFiles, Unopened
<1>8. ASSUME NEW v \in Upload, NEW j \in Chunk
      PROVE  part[v][j] # f /\ (temporary[v][j] = f => v = u /\ j = i)
  BY <1>1, <1>2, <1>7 DEF FileInv, PathsApart
<1>9. ASSUME NEW s \in Request, Writing(s)
      PROVE  request[s].file # f /\ s # r
  <2>1. SUFFICES ASSUME request[s].file = f PROVE FALSE
    BY <1>1, <1>9 DEF Writing
  <2>2. temporary[u][i] = f
    BY <1>2, <1>7, <1>9, <2>1
  <2>3. u = request[s].upload /\ i = request[s].chunk
    BY <1>1, <1>9, <2>1, <2>2 DEF FileInv, WritersAlone, WriterAlone
  <2>4. Sending(s) /\ Sending(r)
    BY <1>1, <1>9 DEF Sending, Writing, TypeInv, StepsOK, StepFits, TypeOK, Fields
  <2>5. s = r
    BY <2>3, <2>4 DEF OneSender, SameChunk
  <2>6. QED
    BY <1>1, <1>9, <2>5 DEF Writing
<1>10. /\ blocks'[f] = {} /\ extent'[f] = 0
       /\ \A g \in Request : g # f => blocks'[g] = blocks[g] /\ extent'[g] = extent[g]
  BY <1>2, <1>3 DEF TypeInv, TypeOK
<1>11. FreshFiles'
  <2> SUFFICES ASSUME NEW g \in Request, request'[g].pc \in {"unsent", "check", "open"}
               PROVE  /\ request'[g].at = 0
                      /\ \A v \in Upload, j \in Chunk : temporary'[v][j] # g /\ part'[v][j] # g
                      /\ \A s \in Request : request'[s].pc = "write" => request'[s].file # g
    BY DEF FreshFiles, Unopened, Writing
  <2>1. g # r /\ Unopened(g)
    BY <1>6 DEF Unopened
  <2>2. g # f
    BY <1>1, <1>2, <2>1 DEF FileInv, FreshFiles
  <2>3. QED
    BY <1>4, <1>5, <1>6, <2>1, <2>2 DEF FileInv, FreshFiles, Writing
<1>12. WritersAlone'
  <2> SUFFICES ASSUME NEW s \in Request, request'[s].pc = "write" PROVE WriterAlone(s)'
    BY DEF WritersAlone, Writing
  <2>1. CASE s = r
    <3>1. blocks'[f] = 1..0 /\ extent'[f] = 0
      BY <1>10
    <3>2. \A q \in Request : request'[q].pc = "write" /\ request'[q].file = f => q = r
      BY <1>6, <1>9 DEF Writing
    <3>3. /\ blocks'[f] = 1..request'[r].at /\ extent'[f] = request'[r].at
          /\ request'[r].file = f /\ request'[r].upload = u /\ request'[r].chunk = i
      BY <1>6, <1>7, <3>1
    <3>4. ASSUME NEW v \in Upload, NEW j \in Chunk
          PROVE  /\ part'[v][j] # f
                 /\ temporary'[v][j] = f => v = u /\ j = i
                 /\ v = u /\ j = i => temporary'[v][j] \in {None, f}
      BY <1>4, <1>5, <1>8
    <3> HIDE DEF u, i
    <3>5. QED
      BY <2>1, <3>2, <3>3, <3>4 DEF WriterAlone, Writing
  <2>2. CASE s # r
    <3>1. Writing(s) /\ WriterAlone(s) /\ request'[s] = request[s]
      BY <1>6, <2>2 DEF Writing, FileInv, WritersAlone
    <3>2. request[s].file # f /\ request[s].file \in Request
      BY <1>9, <3>1 DEF TypeInv, StepsOK, StepFits, Writing
    <3>3. blocks'[request[s].file] = blocks[request[s].file] /\ extent'[request[s].file] = extent[request[s].file]
      BY <1>10, <3>2
    <3>4. ~(u = request[s].upload /\ i = request[s].chunk)
      <4>1. Sending(s) /\ Sending(r)
        BY <1>1, <3>1 DEF Sending, Writing, TypeInv, StepsOK, StepFits, TypeOK, Fields
      <4>2. QED
        BY <2>2, <4>1 DEF OneSender, SameChunk
    <3>5. \A q \in Request : request'[q].pc = "write" /\ request'[q].file = request[s].file => q = s
      BY <1>6, <3>1, <3>2 DEF WriterAlone, Writing
    <3>6. QED
      BY <1>4, <1>5, <3>1, <3>2, <3>3, <3>4, <3>5 DEF WriterAlone, Writing
  <2>3. QED
    BY <2>1, <2>2
<1>13. PathsApart'
  BY <1>3, <1>4, <1>5, <1>8 DEF FileInv, PathsApart
<1>14. PartsWhole'
  <2> SUFFICES ASSUME NEW v \in Upload, NEW j \in Chunk, part'[v][j] # None
               PROVE  blocks'[part'[v][j]] = 1..ExpectedSize(j) /\ extent'[part'[v][j]] = ExpectedSize(j)
    BY DEF PartsWhole
  <2>1. part[v][j] \in Request /\ part[v][j] # f
    BY <1>4, <1>8 DEF TypeInv, TypeOK
  <2>2. QED
    BY <1>4, <1>10, <2>1 DEF FileInv, PartsWhole
<1>15. QED
  BY <1>11, <1>12, <1>13, <1>14 DEF FileInv

(* Writing a block: the writer's own file, in order.                       *)
LEMMA BlockWritten ==
    ASSUME TypeInv, FileInv, NEW r \in Request, WriteBlock(r)
    PROVE  FileInv'
<1> DEFINE f == request[r].file
           n == request[r].at + 1
<1>1. /\ request \in [Request -> Fields] /\ request[r] \in Fields
      /\ request[r].pc = "write" /\ f \in Request /\ request[r].at \in Nat
  BY DEF WriteBlock, At, TypeInv, TypeOK, Fields, StepsOK, StepFits
<1>2. /\ temporary' = temporary /\ part' = part
      /\ request' = [request EXCEPT ![r].at = n]
      /\ blocks' = [blocks EXCEPT ![f] = @ \cup {n}]
      /\ extent' = [extent EXCEPT ![f] = IF n > @ THEN n ELSE @]
  BY DEF WriteBlock
<1>3. WriterAlone(r) /\ f # None
  BY <1>1, UploadAssumption DEF FileInv, WritersAlone, Writing
<1>4. /\ blocks'[f] = 1..n /\ extent'[f] = n
      /\ \A g \in Request : g # f => blocks'[g] = blocks[g] /\ extent'[g] = extent[g]
  <2>1. blocks[f] = 1..request[r].at /\ extent[f] = request[r].at
    BY <1>3 DEF WriterAlone
  <2>2. /\ blocks'[f] = blocks[f] \cup {n} /\ extent'[f] = n
        /\ \A g \in Request : g # f => blocks'[g] = blocks[g] /\ extent'[g] = extent[g]
    BY <1>1, <1>2, <2>1 DEF TypeInv, TypeOK
  <2>3. \A k \in Nat : (1..k) \cup {k + 1} = 1..(k + 1)
    OBVIOUS
  <2>4. QED
    BY <1>1, <2>1, <2>2, <2>3
<1>5. /\ request'[r].at = n /\ request'[r].pc = "write" /\ request'[r].file = f
      /\ request'[r].upload = request[r].upload /\ request'[r].chunk = request[r].chunk
      /\ \A s \in Request : s # r => request'[s] = request[s]
  BY <1>1, <1>2 DEF Fields
<1> HIDE DEF n
<1>6. FreshFiles'
  BY <1>1, <1>2, <1>5 DEF FileInv, FreshFiles, Unopened, Writing
<1>7. WritersAlone'
  <2> SUFFICES ASSUME NEW s \in Request, request'[s].pc = "write" PROVE WriterAlone(s)'
    BY DEF WritersAlone, Writing
  <2>1. \A q \in Request : request'[q].pc = "write" => Writing(q) /\ request'[q].file = request[q].file
    BY <1>1, <1>5 DEF Writing
  <2>2. CASE s = r
    BY <1>2, <1>3, <1>4, <1>5, <2>1, <2>2 DEF WriterAlone, Writing
  <2>3. CASE s # r
    <3>1. Writing(s) /\ WriterAlone(s) /\ request[s].file \in Request
      BY <2>1 DEF FileInv, WritersAlone, Writing, TypeInv, StepsOK, StepFits
    <3>2. request[s].file # f
      BY <1>1, <2>3, <3>1 DEF WriterAlone, Writing
    <3>3. QED
      BY <1>2, <1>4, <1>5, <2>1, <2>3, <3>1, <3>2 DEF WriterAlone, Writing
  <2>4. QED
    BY <2>2, <2>3
<1>8. PathsApart'
  BY <1>2 DEF FileInv, PathsApart
<1>9. PartsWhole'
  <2> SUFFICES ASSUME NEW v \in Upload, NEW j \in Chunk, part'[v][j] # None
               PROVE  blocks'[part'[v][j]] = 1..ExpectedSize(j) /\ extent'[part'[v][j]] = ExpectedSize(j)
    BY DEF PartsWhole
  <2>1. part[v][j] \in Request /\ part[v][j] # f
    BY <1>2, <1>3 DEF WriterAlone, TypeInv, TypeOK
  <2>2. QED
    BY <1>2, <1>4, <2>1 DEF FileInv, PartsWhole
<1>10. QED
  BY <1>6, <1>7, <1>8, <1>9 DEF FileInv

(* Publishing a chunk: what is at the temporary path is the writer's own.  *)
LEMMA ChunkPublished ==
    ASSUME TypeInv, FileInv, NEW r \in Request, PublishChunk(r)
    PROVE  FileInv'
<1> DEFINE u == request[r].upload
           i == request[r].chunk
           f == request[r].file
<1>1. /\ request \in [Request -> Fields] /\ request[r] \in Fields
      /\ request[r].pc = "write" /\ f \in Request /\ u \in Upload /\ i \in Chunk
      /\ request[r].op = "chunk"
  BY DEF PublishChunk, Ended, At, TypeInv, TypeOK, Fields, StepsOK, StepFits
<1>2. WriterAlone(r) /\ f # None
  BY <1>1, UploadAssumption DEF FileInv, WritersAlone, Writing
<1>3. temporary[u][i] = f /\ blocks[f] = 1..ExpectedSize(i) /\ extent[f] = ExpectedSize(i)
  BY <1>1, <1>2 DEF PublishChunk, WriterAlone
<1>4. ASSUME NEW v \in Upload, NEW j \in Chunk
      PROVE  /\ temporary'[v][j] = IF v = u /\ j = i THEN None ELSE temporary[v][j]
             /\ part'[v][j] = IF v = u /\ j = i THEN f ELSE part[v][j]
  BY <1>1, <1>3 DEF PublishChunk, TypeInv, TypeOK
<1>5. /\ request'[r].pc = "ok" /\ blocks' = blocks /\ extent' = extent
      /\ \A s \in Request : s # r => request'[s] = request[s]
  BY <1>1 DEF PublishChunk, Reply, Start
<1>6. FreshFiles'
  BY <1>1, <1>4, <1>5, UploadAssumption DEF FileInv, FreshFiles, Unopened, Writing
<1>7. WritersAlone'
  <2> SUFFICES ASSUME NEW s \in Request, request'[s].pc = "write" PROVE WriterAlone(s)'
    BY DEF WritersAlone, Writing
  <2>1. s # r /\ request'[s] = request[s] /\ WriterAlone(s) /\ request[s].file \in Request
    BY <1>5 DEF FileInv, WritersAlone, Writing, TypeInv, StepsOK, StepFits
  <2>2. request[s].file # f /\ request[s].file # None
    BY <1>1, <1>2, <1>5, <2>1, UploadAssumption DEF WriterAlone, Writing
  <2>3. \A q \in Request : request'[q].pc = "write" => Writing(q) /\ request'[q] = request[q]
    BY <1>5 DEF Writing
  <2>4. QED
    BY <1>4, <1>5, <2>1, <2>2, <2>3 DEF WriterAlone, Writing
<1>8. PathsApart'
  BY <1>2, <1>3, <1>4 DEF FileInv, PathsApart, WriterAlone
<1>9. PartsWhole'
  BY <1>3, <1>4, <1>5 DEF FileInv, PartsWhole
<1>10. QED
  BY <1>6, <1>7, <1>8, <1>9 DEF FileInv

(* Every step keeps files and senders apart.                               *)
LEMMA FileStep ==
    ASSUME TypeInv, OneSender, FileInv, "chunk" \notin Overlaps, [Next]_vars
    PROVE  OneSender' /\ FileInv'
<1>1. request \in [Request -> Fields]
  BY DEF TypeInv, TypeOK, Fields
<1> DEFINE Removed ==
             /\ blocks' = blocks /\ extent' = extent
             /\ \A u \in Upload, i \in Chunk : /\ temporary'[u][i] \in {None, temporary[u][i]}
                                            /\ part'[u][i] \in {None, part[u][i]}
<1>2. ASSUME NEW u \in Upload, RemoveTree(u)
      PROVE  Removed
  BY <1>2 DEF RemoveTree, NoFiles, TypeInv, TypeOK
<1>3. UNCHANGED chunkFiles => Removed
  BY DEF chunkFiles
<1> HIDE DEF Removed
<1>4. ASSUME NEW r \in Request, NEW row, request' = [request EXCEPT ![r] = row],
             row.pc \notin {"unsent", "check", "open", "write"}
      PROVE  \A s \in Request : Passes(s) /\ SendsNothingNew(s)
  BY <1>1, <1>4 DEF Passes, SendsNothingNew, Sending
<1>5. ASSUME NEW r \in Request, NEW answer \in Answer, Reply(r, answer)
      PROVE  \A s \in Request : Passes(s) /\ SendsNothingNew(s)
  BY <1>1, <1>5 DEF Reply, Start, Answer, Passes, SendsNothingNew, Sending
<1>6. ASSUME NEW r \in Request, NEW pc \in {"list", "copy", "commit", "cleanup"}, Goto(r, pc)
      PROVE  \A s \in Request : Passes(s) /\ SendsNothingNew(s)
  BY <1>1, <1>6 DEF Goto, Fields, Passes, SendsNothingNew, Sending
<1>7. ASSUME Removed, \A s \in Request : Passes(s) /\ SendsNothingNew(s)
      PROVE  OneSender' /\ FileInv'
  BY <1>7, FilesRemoved, SenderKept DEF Removed
<1>8. ASSUME request' = request
      PROVE  \A s \in Request : Passes(s) /\ SendsNothingNew(s)
  BY <1>8 DEF Passes, SendsNothingNew, Sending
<1>9. CASE UNCHANGED vars
  BY <1>3, <1>7, <1>8, <1>9 DEF vars
<1>10. ASSUME NEW u \in Upload, InitUpload(u)
       PROVE  OneSender' /\ FileInv'
  <2>1. request' = request
    BY <1>10 DEF InitUpload, MakeDirectory, CreateSession, CreateSessionRaises
  <2>2. UNCHANGED <<temporary, part, blocks, extent>> \/ RemoveTree(u)
    BY <1>10 DEF InitUpload, MakeDirectory, CreateSession, CreateSessionRaises, chunkFiles
  <2>3. Removed
    BY <1>2, <2>2 DEF Removed
  <2>4. QED
    BY <1>7, <1>8, <2>1, <2>3
<1>11. ASSUME NEW r \in Request, ChunkRequest(r)
       PROVE  OneSender' /\ FileInv'
  <2>1. ASSUME NEW u \in Upload, NEW i \in Chunk, NEW n \in 0..(ChunkSize + 1), StartChunk(r, u, i, n)
        PROVE  OneSender' /\ FileInv'
    <3>1. \A s \in Request : Passes(s)
      BY <1>1, <2>1 DEF StartChunk, Start, At, Passes, Unopened
    <3>2. Removed
      BY <1>3, <2>1 DEF StartChunk
    <3>3. QED
      BY <2>1, <3>1, <3>2, ChunkBegins, FilesRemoved DEF Removed
  <2>2. CASE CheckChunk(r)
    <3>1. request[r].pc = "check" /\ (Goto(r, "open") \/ Reply(r, "refused"))
      BY <2>2 DEF CheckChunk, Require, At
    <3>2. ASSUME Goto(r, "open")
          PROVE  \A s \in Request : Passes(s) /\ SendsNothingNew(s)
      <4>1. request[r].at = 0
        BY <3>1 DEF FileInv, FreshFiles, Unopened
      <4>2. QED
        BY <1>1, <2>2, <3>1, <3>2, <4>1
        DEF Goto, Fields, Passes, SendsNothingNew, Sending, Unopened, CheckChunk
    <3>3. QED
      BY <1>3, <1>5, <1>7, <2>2, <3>1, <3>2 DEF CheckChunk, Answer
  <2>3. CASE OpenTemporary(r)
    <3>1. \A s \in Request : SendsNothingNew(s)
      BY <1>1, <2>3 DEF OpenTemporary, At, SendsNothingNew, Sending, Fields
    <3>2. QED
      BY <2>3, <3>1, SenderKept, TemporaryOpened
  <2>4. CASE WriteBlock(r)
    <3>1. \A s \in Request : SendsNothingNew(s)
      BY <1>1, <2>4 DEF WriteBlock, At, SendsNothingNew, Sending, Fields
    <3>2. QED
      BY <2>4, <3>1, SenderKept, BlockWritten
  <2>5. CASE PublishChunk(r)
    <3>1. \A s \in Request : SendsNothingNew(s)
      BY <1>5, <2>5 DEF PublishChunk, Answer
    <3>2. QED
      BY <2>5, <3>1, SenderKept, ChunkPublished
  <2>6. ASSUME NEW answer \in Answer, DropTemporary(r, answer)
        PROVE  OneSender' /\ FileInv'
    <3>1. Removed
      BY <2>6 DEF DropTemporary, Removed, TypeInv, TypeOK
    <3>2. QED
      BY <1>5, <1>7, <2>6, <3>1 DEF DropTemporary
  <2>7. QED
    BY <1>11, <2>1, <2>2, <2>3, <2>4, <2>5, <2>6
    DEF ChunkRequest, RefuseLong, RefuseWrongSize, PublishRaises, Answer
<1>12. ASSUME NEW r \in Request, CompleteRequest(r)
       PROVE  OneSender' /\ FileInv'
  <2>1. ASSUME NEW u \in Upload, StartComplete(r, u)
        PROVE  OneSender' /\ FileInv'
    <3>1. \A s \in Request : Passes(s) /\ SendsNothingNew(s)
      BY <1>1, <2>1 DEF StartComplete, Start, At, Passes, Unopened, SendsNothingNew, Sending
    <3>2. QED
      BY <1>3, <1>7, <2>1, <3>1 DEF StartComplete
  <2>2. CASE CheckComplete(r) \/ ListChunks(r) \/ StoreTarget(r)
    <3>1. UNCHANGED chunkFiles /\ (Reply(r, "refused") \/ \E pc \in {"list", "copy", "commit"} : Goto(r, pc))
      BY <2>2 DEF CheckComplete, ListChunks, StoreTarget, Require
    <3>2. QED
      BY <1>3, <1>5, <1>6, <1>7, <3>1 DEF Answer
  <2>3. CASE CopyChunk(r)
    <3>1. \A s \in Request : Passes(s) /\ SendsNothingNew(s)
      <4>1. CASE Reply(r, "refused")
        BY <1>5, <4>1 DEF Answer
      <4>2. CASE ~Reply(r, "refused")
        BY <1>1, <2>3, <4>2 DEF CopyChunk, At, Fields, Passes, SendsNothingNew, Sending
      <4>3. QED
        BY <4>1, <4>2
    <3>2. QED
      BY <1>3, <1>7, <2>3, <3>1 DEF CopyChunk
  <2>4. CASE RemoveSessionFiles(r)
    <3>1. \E answer \in Answer : Reply(r, answer)
      BY <2>4 DEF RemoveSessionFiles, Answer
    <3>2. UNCHANGED chunkFiles \/ \E u \in Upload : RemoveTree(u)
      BY <2>4 DEF RemoveSessionFiles, TypeInv, TypeOK
    <3>3. QED
      BY <1>2, <1>3, <1>5, <1>7, <3>1, <3>2
  <2>5. QED
    BY <1>12, <2>1, <2>2, <2>3, <2>4 DEF CompleteRequest
<1>13. ASSUME NEW r \in Request, FileRequest(r) \/ CommitDocument(r) \/ CommitRaises(r)
       PROVE  OneSender' /\ FileInv'
  <2>1. UNCHANGED chunkFiles
    BY <1>13 DEF FileRequest, StartFile, ReceiveFile, CommitDocument, CommitRaises
  <2>2. \/ \E answer \in Answer : Reply(r, answer)
        \/ \E pc \in {"commit", "cleanup"} : Goto(r, pc)
        \/ request' = [request EXCEPT ![r] = Start("file", "receive", None, 0, 0)]
    BY <1>13 DEF FileRequest, StartFile, ReceiveFile, CommitDocument, CommitRaises, Answer
  <2>3. Start("file", "receive", None, 0, 0).pc = "receive"
    BY DEF Start
  <2>4. QED
    BY <1>3, <1>4, <1>5, <1>6, <1>7, <2>1, <2>2, <2>3
<1>14. CASE ProcessCrash
  <2>1. \A s \in Request : request'[s] = request[s] \/ request'[s].pc = "dead"
    BY <1>14 DEF ProcessCrash, Start
  <2>2. \A s \in Request : Passes(s) /\ SendsNothingNew(s)
    BY <2>1 DEF Passes, SendsNothingNew, Sending
  <2>3. QED
    BY <1>3, <1>7, <1>14, <2>2 DEF ProcessCrash
<1>15. QED
  BY <1>9, <1>10, <1>11, <1>12, <1>13, <1>14 DEF Next

(* What is copied, stored and committed is whole.                          *)
LEMMA CopyStep ==
    ASSUME TypeInv, OutcomeInv, FileInv, CopyInv, [Next]_vars
    PROVE  CopyInv'
<1>1. request \in [Request -> Fields]
  BY DEF TypeInv, TypeOK, Fields
<1>2. ASSUME \A s \in Request : request'[s].intact /\ (request'[s].pc = "commit" => request[s].pc = "commit"),
             UNCHANGED <<documents, late, whole>>
      PROVE  CopyInv'
  BY <1>2 DEF CopyInv, At
<1>3. ASSUME NEW r \in Request, NEW answer, answer # "commit", Reply(r, answer)
      PROVE  \A s \in Request : request'[s].intact /\ (request'[s].pc = "commit" => request[s].pc = "commit")
  BY <1>1, <1>3 DEF Reply, Start, CopyInv
<1>4. ASSUME NEW r \in Request, NEW pc, pc # "commit", Goto(r, pc)
      PROVE  \A s \in Request : request'[s].intact /\ (request'[s].pc = "commit" => request[s].pc = "commit")
  BY <1>1, <1>4 DEF Goto, Fields, CopyInv
<1>5. ASSUME NEW r \in Request, NEW op, NEW pc, NEW u, NEW i, NEW n, pc # "commit",
             request' = [request EXCEPT ![r] = Start(op, pc, u, i, n)]
      PROVE  \A s \in Request : request'[s].intact /\ (request'[s].pc = "commit" => request[s].pc = "commit")
  BY <1>1, <1>5 DEF Start, CopyInv
<1>6. CASE UNCHANGED vars
  BY <1>2, <1>6 DEF vars, tables, finalFiles, bounds, CopyInv
<1>7. ASSUME NEW u \in Upload, InitUpload(u) PROVE CopyInv'
  <2>1. request' = request /\ UNCHANGED <<documents, late, whole>>
    BY <1>7 DEF InitUpload, MakeDirectory, CreateSession, CreateSessionRaises, tables, finalFiles, bounds
  <2>2. QED
    BY <1>2, <2>1 DEF CopyInv
<1>8. ASSUME NEW r \in Request, ChunkRequest(r) PROVE CopyInv'
  <2>1. UNCHANGED <<documents, late, whole>>
    BY <1>8 DEF ChunkRequest, StartChunk, CheckChunk, OpenTemporary, WriteBlock, RefuseLong,
       RefuseWrongSize, PublishChunk, PublishRaises, DropTemporary, tables, finalFiles, bounds
  <2>2. CASE OpenTemporary(r) \/ WriteBlock(r)
    <3>1. \/ \E f : request' = [request EXCEPT ![r].pc = "write", ![r].file = f]
          \/ \E n : request' = [request EXCEPT ![r].at = n]
      BY <2>2, Zenon DEF OpenTemporary, WriteBlock
    <3>2. CASE \E f : request' = [request EXCEPT ![r].pc = "write", ![r].file = f]
      <4>1. \A s \in Request : request'[s].intact /\ (request'[s].pc = "commit" => request[s].pc = "commit")
        BY <1>1, <3>2 DEF Fields, CopyInv
      <4>2. QED
        BY <1>2, <2>1, <4>1
    <3>3. CASE \E n : request' = [request EXCEPT ![r].at = n]
      <4>1. \A s \in Request : request'[s].intact /\ (request'[s].pc = "commit" => request[s].pc = "commit")
        BY <1>1, <3>3 DEF Fields, CopyInv
      <4>2. QED
        BY <1>2, <2>1, <4>1
    <3>4. QED
      BY <3>1, <3>2, <3>3
  <2>3. CASE \E u \in Upload, i \in Chunk, n \in 0..(ChunkSize + 1) : StartChunk(r, u, i, n)
    <3>1. PICK u \in Upload, i \in Chunk, n \in 0..(ChunkSize + 1) :
            request' = [request EXCEPT ![r] = Start("chunk", "check", u, i, n)]
      BY <2>3 DEF StartChunk
    <3>2. \A s \in Request : request'[s].intact /\ (request'[s].pc = "commit" => request[s].pc = "commit")
      BY <1>5, <3>1
    <3>3. QED
      BY <1>2, <2>1, <3>2
  <2>4. CASE \/ CheckChunk(r) \/ RefuseLong(r) \/ RefuseWrongSize(r)
             \/ PublishChunk(r) \/ PublishRaises(r)
    <3>1. Goto(r, "open") \/ \E answer \in Answer : Reply(r, answer)
      BY <2>4 DEF CheckChunk, RefuseLong, RefuseWrongSize, PublishChunk, PublishRaises,
         DropTemporary, Require, Answer
    <3>2. QED
      BY <1>2, <1>3, <1>4, <2>1, <3>1 DEF Answer
  <2>5. QED
    BY <1>8, <2>2, <2>3, <2>4 DEF ChunkRequest
<1>9. ASSUME NEW r \in Request, CompleteRequest(r), ~StoreTarget(r) PROVE CopyInv'
  <2>1. UNCHANGED <<documents, late, whole>>
    BY <1>9 DEF CompleteRequest, StartComplete, CheckComplete, ListChunks, CopyChunk,
       RemoveSessionFiles, tables, finalFiles, bounds
  <2>2. CASE \E u \in Upload : StartComplete(r, u)
    <3>1. PICK u \in Upload : request' = [request EXCEPT ![r] = Start("complete", "check", u, 0, 0)]
      BY <2>2 DEF StartComplete
    <3>2. \A s \in Request : request'[s].intact /\ (request'[s].pc = "commit" => request[s].pc = "commit")
      BY <1>5, <3>1
    <3>3. QED
      BY <1>2, <2>1, <3>2
  <2>3. CASE CheckComplete(r) \/ ListChunks(r) \/ RemoveSessionFiles(r)
    <3>1. (\E pc \in {"list", "copy"} : Goto(r, pc)) \/ \E answer \in Answer : Reply(r, answer)
      BY <2>3 DEF CheckComplete, ListChunks, RemoveSessionFiles, Require, Answer
    <3>2. QED
      BY <1>2, <1>3, <1>4, <2>1, <3>1 DEF Answer
  <2>4. CASE CopyChunk(r)
    <3>1. CASE Reply(r, "refused")
      BY <1>2, <1>3, <2>1, <3>1
    <3>2. CASE ~Reply(r, "refused")
      <4> DEFINE u == request[r].upload
                 i == request[r].at
      <4>1. i \in Chunk /\ u \in Upload /\ request[r].pc = "copy"
        BY <1>1, <2>4, ChunksAreCounted
        DEF CopyChunk, At, TypeInv, StepsOK, StepFits, Fields, Chunk
      <4>2. part[u][i] # None
        BY <2>4, <3>2 DEF CopyChunk
      <4>3. blocks[part[u][i]] = 1..ExpectedSize(i)
        BY <4>1, <4>2 DEF FileInv, PartsWhole
      <4>4. request'[r].pc = "copy" /\ request'[r].intact
            /\ \A s \in Request : s # r => request'[s] = request[s]
        <5>1. PICK size : request' = [request EXCEPT ![r].at = i + 1, ![r].size = size,
                            ![r].intact = @ /\ blocks[part[u][i]] = 1..ExpectedSize(i)]
          BY <2>4, <3>2 DEF CopyChunk
        <5>2. request'[r].pc = request[r].pc
              /\ request'[r].intact = (request[r].intact /\ blocks[part[u][i]] = 1..ExpectedSize(i))
              /\ \A s \in Request : s # r => request'[s] = request[s]
          BY <1>1, <5>1 DEF Fields
        <5>3. QED
          BY <4>1, <4>3, <5>2 DEF CopyInv
      <4>5. QED
        BY <1>2, <2>1, <4>4 DEF CopyInv
    <3>3. QED
      BY <3>1, <3>2
  <2>5. QED
    BY <1>9, <2>2, <2>3, <2>4 DEF CompleteRequest
<1>10. ASSUME NEW r \in Request, StoreTarget(r) \/ ReceiveFile(r) PROVE CopyInv'
  <2>1. UNCHANGED <<documents, late>>
    BY <1>10 DEF StoreTarget, ReceiveFile, tables, bounds
  <2>2. \/ whole' = whole \cup {r} /\ Goto(r, "commit")
        \/ whole' = whole /\ Reply(r, "refused")
    BY <1>10 DEF StoreTarget, ReceiveFile, finalFiles, CopyInv
  <2>3. CASE whole' = whole /\ Reply(r, "refused")
    BY <1>2, <1>3, <2>1, <2>3
  <2>4. CASE whole' = whole \cup {r} /\ Goto(r, "commit")
    <3>1. /\ \A s \in Request : request'[s].intact
          /\ \A s \in Request : s # r => request'[s] = request[s]
      BY <1>1, <2>4 DEF Goto, Fields, CopyInv
    <3>2. QED
      BY <2>1, <2>4, <3>1 DEF CopyInv, At
  <2>5. QED
    BY <2>2, <2>3, <2>4
<1>11. ASSUME NEW r \in Request, StartFile(r) PROVE CopyInv'
  BY <1>2, <1>5, <1>11 DEF StartFile, tables, finalFiles, bounds
<1>12. ASSUME NEW r \in Request, CommitDocument(r) PROVE CopyInv'
  <2>1. request[r].pc = "commit" /\ documents' = documents \cup {r} /\ UNCHANGED <<late, whole>>
    BY <1>12 DEF CommitDocument, At, finalFiles, bounds
  <2>2. \A s \in Request : request'[s].intact /\ (request'[s].pc = "commit" => request[s].pc = "commit")
    BY <1>3, <1>4, <1>12 DEF CommitDocument
  <2>3. QED
    BY <2>1, <2>2 DEF CopyInv, At
<1>13. ASSUME NEW r \in Request, CommitRaises(r) PROVE CopyInv'
  <2>1. /\ request[r].pc = "commit" /\ whole' = whole \ {r}
        /\ \/ documents' = documents \cup {r} /\ late' = late \cup {r}
           \/ documents' = documents /\ late' = late
    BY <1>13 DEF CommitRaises, At, tables
  <2>2. \A s \in Request : request'[s].intact /\ (request'[s].pc = "commit" => request[s].pc = "commit")
    BY <1>3, <1>13 DEF CommitRaises
  <2>3. request'[r].pc = "error" /\ r \notin documents
    BY <1>1, <1>13, <2>1 DEF CommitRaises, Reply, Start, OutcomeInv, Outcome
  <2>4. QED
    BY <2>1, <2>2, <2>3 DEF CopyInv, At
<1>14. CASE ProcessCrash
  <2>1. UNCHANGED <<documents, late, whole>>
    BY <1>14 DEF ProcessCrash, tables, finalFiles, bounds
  <2>2. \A s \in Request : request'[s] = request[s] \/ (request'[s].pc = "dead" /\ request'[s].intact)
    BY <1>14 DEF ProcessCrash, Start
  <2>3. QED
    BY <1>2, <2>1, <2>2 DEF CopyInv
<1>15. QED
  BY <1>6, <1>7, <1>8, <1>9, <1>10, <1>11, <1>12, <1>13, <1>14 DEF Next, CompleteRequest, FileRequest

LEMMA ContentInit == Init => ContentInv
<1> SUFFICES ASSUME Init PROVE ContentInv
  OBVIOUS
<1>1. \A r \in Request : /\ request[r].pc = "unsent" /\ request[r].op = "none"
                         /\ request[r].at = 0 /\ request[r].intact
  BY DEF Init, Start
<1>2. \A u \in Upload, i \in Chunk : temporary[u][i] = None /\ part[u][i] = None
  BY DEF Init, NoFiles
<1>3. OneSender /\ CopyInv
  BY <1>1 DEF OneSender, Sending, CopyInv, At, Init
<1>4. FileInv
  BY <1>1, <1>2, UploadAssumption
  DEF FileInv, FreshFiles, WritersAlone, PathsApart, PartsWhole, Writing
<1>5. QED
  BY <1>3, <1>4 DEF ContentInv

LEMMA TypeAlways == Spec => []TypeInv
BY TypeInit, TypeStep, PTL DEF Spec

LEMMA ContentAlways ==
    ASSUME "chunk" \notin Overlaps
    PROVE  Spec => []ContentInv
<1>1. TypeInv /\ OutcomeInv /\ ContentInv /\ [Next]_vars => ContentInv'
  BY FileStep, CopyStep DEF ContentInv
<1>2. QED
  BY <1>1, TypeAlways, ContentInit, OutcomeAlways, PTL DEF Spec

(* If clients send a chunk again only after its last sending ended, every  *)
(* document is what its client sent: completions may run beside anything,  *)
(* and processes may die and leave half-written temporary files for the    *)
(* next sender to take over.                                               *)
THEOREM DocumentsAreWhole ==
    ASSUME "chunk" \notin Overlaps
    PROVE  Spec => []DocumentIsWhole
<1>1. TypeInv /\ ContentInv => DocumentIsWhole
  BY DEF TypeInv, TypeOK, ContentInv, CopyInv, DocumentIsWhole
<1>2. QED
  BY <1>1, TypeAlways, ContentAlways, PTL

-----------------------------------------------------------------------------
(* Sessions, their directories and the requests about them.                *)

\* While a session can be used, its directory is there.
HasDirectory(u) ==
    opening[u] = "made" \/ (opening[u] = "open" /\ u \in sessions) => u \in dirs

\* What a request can rely on: the session it names was opened, and ended
\* with its document; its acknowledged chunk is there while the session is.
Held(r) ==
    /\ request[r].op \in {"chunk", "complete"} => opening[request[r].upload] = "open"
    /\ request[r].op = "file" => request[r].upload = None
    /\ At(r, "cleanup") => r \in documents /\ request[r].upload \notin sessions
    /\ request[r].op = "complete" /\ r \in documents => request[r].upload \notin sessions
    /\ request[r].op = "chunk" /\ At(r, "ok") /\ request[r].upload \in sessions =>
         part[request[r].upload][request[r].chunk] # None

SessionInv == /\ \A u \in Upload : HasDirectory(u)
              /\ \A r \in Request : Held(r)

\* A step after which open sessions are what they were or ended, with their
\* directories and their chunks.
SessionsKept ==
    /\ \A u \in Upload : opening[u] = "open" =>
         /\ opening'[u] = "open"
         /\ u \in sessions' => u \in sessions
         /\ u \in sessions' => \A i \in Chunk : part[u][i] # None => part'[u][i] # None
    /\ \A u \in Upload : HasDirectory(u)'

(* A request that does not move keeps what it relies on.                   *)
LEMMA HeldByOthers ==
    ASSUME TypeInv, SessionInv, SessionsKept, NEW s \in Request, request'[s] = request[s],
           s \in documents' <=> s \in documents
    PROVE  Held(s)'
<1>1. Held(s) /\ StepFits(s) /\ request[s] \in Fields
  BY DEF SessionInv, TypeInv, TypeOK, Fields, StepsOK
<1>2. request[s].chunk \in Chunk /\ (request[s].op = "complete" => request[s].upload \in Upload)
      /\ (request[s].op = "chunk" => request[s].upload \in Upload)
  BY <1>1 DEF StepFits, Fields
<1>3. At(s, "cleanup") => request[s].op = "complete"
  BY <1>1 DEF StepFits, At
<1>4. QED
  BY <1>1, <1>2, <1>3 DEF Held, SessionsKept, At

(* A step of a request changes nothing of another one.                     *)
LEMMA OthersWait ==
    ASSUME TypeInv, NEW r \in Request,
           ChunkRequest(r) \/ CompleteRequest(r) \/ FileRequest(r) \/ CommitDocument(r) \/ CommitRaises(r)
    PROVE  \A s \in Request : s # r =>
             /\ request'[s] = request[s]
             /\ s \in documents' <=> s \in documents
             /\ s \in late' <=> s \in late
             /\ s \in targets' <=> s \in targets
<1>1. request \in [Request -> Fields]
  BY DEF TypeInv, TypeOK, Fields
<1>2. ASSUME NEW s \in Request, s # r
      PROVE  request'[s] = request[s]
  BY <1>1, <1>2 DEF ChunkRequest, CompleteRequest, FileRequest, CommitDocument, CommitRaises,
     StartChunk, CheckChunk, OpenTemporary, WriteBlock, RefuseLong, RefuseWrongSize, PublishChunk,
     PublishRaises, DropTemporary, StartComplete, CheckComplete, ListChunks, CopyChunk, StoreTarget,
     RemoveSessionFiles, StartFile, ReceiveFile, Require, Goto, Reply
<1>3. /\ documents' = documents \/ documents' = documents \cup {r}
      /\ late' = late \/ late' = late \cup {r}
      /\ targets' = targets \/ targets' = targets \cup {r} \/ targets' = targets \ {r}
  BY DEF ChunkRequest, CompleteRequest, FileRequest, CommitDocument, CommitRaises,
     StartChunk, CheckChunk, OpenTemporary, WriteBlock, RefuseLong, RefuseWrongSize, PublishChunk,
     PublishRaises, DropTemporary, StartComplete, CheckComplete, ListChunks, CopyChunk, StoreTarget,
     RemoveSessionFiles, StartFile, ReceiveFile, tables, bounds, finalFiles
<1>4. QED
  BY <1>2, <1>3

(* How a request moves on, and how it answers.                             *)
LEMMA Moves ==
    ASSUME TypeInv, NEW r \in Request, NEW pc, Goto(r, pc)
    PROVE  /\ request'[r].pc = pc /\ request'[r].op = request[r].op
           /\ request'[r].upload = request[r].upload /\ request'[r].chunk = request[r].chunk
           /\ request'[r].at = request[r].at /\ request'[r].size = request[r].size
BY DEF TypeInv, TypeOK, Goto

LEMMA Answers ==
    ASSUME TypeInv, NEW r \in Request, NEW answer, Reply(r, answer)
    PROVE  /\ request'[r].pc = answer /\ request'[r].op = request[r].op
           /\ request'[r].upload = request[r].upload /\ request'[r].chunk = request[r].chunk
BY DEF TypeInv, TypeOK, Reply, Start

(* Requests about a session, its directory and its chunks.                 *)
LEMMA SessionStep ==
    ASSUME TypeInv, OutcomeInv, SessionInv, [Next]_vars
    PROVE  SessionInv'
<1>1. request \in [Request -> Fields] /\ \A r \in Request : Held(r) /\ StepFits(r)
  BY DEF TypeInv, TypeOK, Fields, SessionInv, StepsOK
<1>2. ASSUME NEW r \in Request, SessionsKept, Held(r)',
             ChunkRequest(r) \/ CompleteRequest(r) \/ FileRequest(r) \/ CommitDocument(r) \/ CommitRaises(r)
      PROVE  SessionInv'
  <2>1. \A s \in Request : s # r => Held(s)'
    BY <1>2, OthersWait, HeldByOthers
  <2>2. QED
    BY <1>2, <2>1 DEF SessionInv, SessionsKept
<1>3. UNCHANGED opening /\ sessions' \subseteq sessions /\ dirs \subseteq dirs' /\ UNCHANGED part
        => SessionsKept
  BY DEF SessionsKept, SessionInv, HasDirectory
<1>4. CASE UNCHANGED vars
  <2>1. SessionsKept
    BY <1>3, <1>4 DEF vars, tables, chunkFiles
  <2>2. QED
    BY <1>4, <2>1, HeldByOthers DEF SessionInv, SessionsKept, vars, tables
<1>5. ASSUME NEW u \in Upload, InitUpload(u) PROVE SessionInv'
  <2>1. request' = request /\ documents' = documents
    BY <1>5 DEF InitUpload, MakeDirectory, CreateSession, CreateSessionRaises, tables
  <2>2. SessionsKept
    <3>1. CASE MakeDirectory(u)
      BY <3>1 DEF MakeDirectory, tables, SessionsKept, SessionInv, HasDirectory, TypeInv, TypeOK
    <3>2. CASE CreateSession(u)
      BY <3>2 DEF CreateSession, chunkFiles, SessionsKept, SessionInv, HasDirectory, TypeInv, TypeOK
    <3>3. CASE CreateSessionRaises(u)
      BY <3>3 DEF CreateSessionRaises, RemoveTree, SessionsKept, SessionInv, HasDirectory, TypeInv, TypeOK
    <3>4. QED
      BY <1>5, <3>1, <3>2, <3>3 DEF InitUpload
  <2>3. QED
    BY <2>1, <2>2, HeldByOthers DEF SessionInv, SessionsKept
<1>6. ASSUME NEW r \in Request, ChunkRequest(r) PROVE SessionInv'
  <2>1. ASSUME NEW u \in Upload, NEW i \in Chunk, NEW n \in 0..(ChunkSize + 1), StartChunk(r, u, i, n)
        PROVE  SessionInv'
    <3>1. SessionsKept
      BY <1>3, <2>1 DEF StartChunk, tables, chunkFiles
    <3>2. request'[r] = Start("chunk", "check", u, i, n) /\ opening'[u] = "open"
      BY <1>1, <2>1 DEF StartChunk
    <3>3. Held(r)'
      BY <3>2 DEF Held, Start, At
    <3>4. QED
      BY <1>2, <1>6, <3>1, <3>3
  <2>2. CASE CheckChunk(r)
    <3>1. SessionsKept /\ opening' = opening /\ request[r].op = "chunk"
      BY <1>3, <2>2 DEF CheckChunk, tables, chunkFiles
    <3>2. Goto(r, "open") \/ Reply(r, "refused")
      BY <2>2 DEF CheckChunk, Require
    <3>3. Held(r)'
      BY <1>1, <3>1, <3>2, Moves, Answers DEF Held, At
    <3>4. QED
      BY <1>2, <1>6, <3>1, <3>3
  <2>3. CASE OpenTemporary(r) \/ WriteBlock(r)
    <3>1. SessionsKept /\ opening' = opening /\ request[r].pc \in {"open", "write"}
      BY <1>3, <2>3 DEF OpenTemporary, WriteBlock, tables, At
    <3>2. request'[r].pc = "write" /\ request'[r].op = request[r].op /\ request'[r].upload = request[r].upload
      BY <1>1, <2>3 DEF OpenTemporary, WriteBlock, At, Fields
    <3>3. Held(r)'
      BY <1>1, <3>1, <3>2 DEF Held, At, StepFits
    <3>4. QED
      BY <1>2, <1>6, <3>1, <3>3
  <2>4. CASE RefuseLong(r) \/ RefuseWrongSize(r) \/ PublishRaises(r)
    <3>1. SessionsKept /\ opening' = opening /\ request[r].pc = "write"
      BY <1>3, <2>4 DEF RefuseLong, RefuseWrongSize, PublishRaises, DropTemporary, Ended, tables, At
    <3>2. Reply(r, "refused") \/ Reply(r, "error")
      BY <2>4 DEF RefuseLong, RefuseWrongSize, PublishRaises, DropTemporary
    <3>3. Held(r)'
      BY <1>1, <3>1, <3>2, Answers DEF Held, At, StepFits
    <3>4. QED
      BY <1>2, <1>6, <3>1, <3>3
  <2>5. CASE PublishChunk(r)
    <3> DEFINE u == request[r].upload
               i == request[r].chunk
    <3>1. request[r].pc = "write" /\ request[r].op = "chunk" /\ u \in Upload /\ i \in Chunk
      BY <1>1, <2>5 DEF PublishChunk, Ended, At, StepFits, Fields
    <3>2. ASSUME NEW v \in Upload, NEW j \in Chunk
          PROVE  part'[v][j] = IF v = u /\ j = i THEN temporary[u][i] ELSE part[v][j]
      BY <2>5, <3>1 DEF PublishChunk, TypeInv, TypeOK
    <3>3. temporary[u][i] # None /\ UNCHANGED <<opening, sessions, dirs>> /\ Reply(r, "ok")
      BY <2>5 DEF PublishChunk, tables
    <3>4. SessionsKept
      BY <3>2, <3>3 DEF SessionsKept, SessionInv, HasDirectory
    <3>5. Held(r)'
      BY <1>1, <3>1, <3>2, <3>3, Answers DEF Held, At
    <3>6. QED
      BY <1>2, <1>6, <3>4, <3>5
  <2>6. QED
    BY <1>6, <2>1, <2>2, <2>3, <2>4, <2>5 DEF ChunkRequest
<1>7. ASSUME NEW r \in Request, CompleteRequest(r) PROVE SessionInv'
  <2>1. ASSUME NEW u \in Upload, StartComplete(r, u)
        PROVE  SessionInv'
    <3>1. SessionsKept
      BY <1>3, <2>1 DEF StartComplete, tables, chunkFiles
    <3>2. request'[r] = Start("complete", "check", u, 0, 0) /\ opening'[u] = "open"
      BY <1>1, <2>1 DEF StartComplete
    <3>3. r \notin documents'
      BY <2>1 DEF StartComplete, tables, OutcomeInv, Outcome, At
    <3>4. Held(r)'
      BY <3>2, <3>3 DEF Held, Start, At
    <3>5. QED
      BY <1>2, <1>7, <3>1, <3>4
  <2>2. CASE CheckComplete(r) \/ ListChunks(r) \/ CopyChunk(r) \/ StoreTarget(r)
    <3>1. SessionsKept /\ UNCHANGED <<opening, documents>>
      BY <1>3, <2>2 DEF CheckComplete, ListChunks, CopyChunk, StoreTarget, tables, chunkFiles
    <3>2. request[r].pc \in {"check", "list", "copy"} /\ request[r].op = "complete"
      BY <1>1, <2>2 DEF CheckComplete, ListChunks, CopyChunk, StoreTarget, At, StepFits
    <3>3. /\ request'[r].pc \in {"list", "copy", "commit", "refused"}
          /\ request'[r].op = request[r].op /\ request'[r].upload = request[r].upload
      <4>1. CASE \E pc \in {"list", "copy", "commit"} : Goto(r, pc)
        BY <4>1, Moves
      <4>2. CASE Reply(r, "refused")
        BY <4>2, Answers
      <4>3. CASE CopyChunk(r) /\ ~Reply(r, "refused")
        <5>1. PICK at, size, intact :
                request' = [request EXCEPT ![r].at = at, ![r].size = size, ![r].intact = intact]
          BY <4>3 DEF CopyChunk
        <5>2. request[r].pc = "copy" /\ request[r] \in Fields
          BY <1>1, <4>3 DEF CopyChunk, At
        <5>3. QED
          BY <1>1, <5>1, <5>2 DEF Fields
      <4>4. QED
        BY <2>2, <4>1, <4>2, <4>3 DEF CheckComplete, ListChunks, StoreTarget, Require
    <3>4. r \notin documents
      BY <3>2 DEF OutcomeInv, Outcome
    <3>5. Held(r)'
      BY <1>1, <3>1, <3>2, <3>3, <3>4 DEF Held, At
    <3>6. QED
      BY <1>2, <1>7, <3>1, <3>5
  <2>3. CASE RemoveSessionFiles(r)
    <3>1. /\ request[r].pc = "cleanup" /\ request[r].op = "complete"
          /\ request[r].upload \in Upload /\ request[r].upload \notin sessions
      BY <1>1, <2>3 DEF RemoveSessionFiles, At, StepFits, Held
    <3>2. Reply(r, "ok") \/ Reply(r, "error")
      BY <2>3 DEF RemoveSessionFiles
    <3>3. UNCHANGED <<opening, sessions, documents>>
      BY <2>3 DEF RemoveSessionFiles, tables
    <3>4. ASSUME NEW v \in Upload, v # request[r].upload
          PROVE  part'[v] = part[v] /\ (v \in dirs' <=> v \in dirs)
      BY <2>3, <3>1, <3>4 DEF RemoveSessionFiles, RemoveTree, chunkFiles, TypeInv, TypeOK
    <3>5. SessionsKept
      BY <1>1, <3>1, <3>3, <3>4 DEF SessionsKept, SessionInv, HasDirectory, Held
    <3>6. Held(r)'
      BY <1>1, <3>1, <3>2, <3>3, Answers DEF Held, At
    <3>7. QED
      BY <1>2, <1>7, <3>5, <3>6
  <2>4. QED
    BY <1>7, <2>1, <2>2, <2>3 DEF CompleteRequest
<1>8. ASSUME NEW r \in Request, FileRequest(r) PROVE SessionInv'
  <2>1. SessionsKept
    BY <1>3, <1>8 DEF FileRequest, StartFile, ReceiveFile, tables, chunkFiles
  <2>2. \/ request'[r] = Start("file", "receive", None, 0, 0)
        \/ request[r].pc = "receive" /\ (Goto(r, "commit") \/ Reply(r, "refused"))
    BY <1>1, <1>8 DEF FileRequest, StartFile, ReceiveFile, At
  <2>3. Held(r)'
    <3>1. CASE request'[r] = Start("file", "receive", None, 0, 0)
      BY <3>1 DEF Held, At, Start
    <3>2. CASE request[r].pc = "receive" /\ (Goto(r, "commit") \/ Reply(r, "refused"))
      <4>1. request[r].op = "file" /\ request[r].upload = None
        BY <1>1, <3>2 DEF Held, StepFits
      <4>2. request'[r].op = "file" /\ request'[r].upload = None /\ request'[r].pc # "cleanup"
        BY <3>2, <4>1, Moves, Answers
      <4>3. QED
        BY <4>2 DEF Held, At
    <3>3. QED
      BY <2>2, <3>1, <3>2
  <2>4. QED
    BY <1>2, <1>8, <2>1, <2>3
<1>9. ASSUME NEW r \in Request, CommitDocument(r) \/ CommitRaises(r) PROVE SessionInv'
  <2>1. SessionsKept /\ opening' = opening
    BY <1>3, <1>9 DEF CommitDocument, CommitRaises, tables, chunkFiles
  <2>2. /\ request[r].pc = "commit" /\ r \notin documents
        /\ \/ documents' = documents \cup {r} /\ sessions' = sessions \ {request[r].upload}
           \/ documents' = documents /\ request'[r].pc = "error"
        /\ \/ Goto(r, "cleanup") /\ request[r].op = "complete" /\ r \in documents'
           \/ Reply(r, "ok") /\ request[r].op # "complete"
           \/ Reply(r, "error")
    BY <1>9, Answers DEF CommitDocument, CommitRaises, tables, At, OutcomeInv, Outcome
  <2>3. Held(r)'
    BY <1>1, <2>1, <2>2, Moves, Answers DEF Held, At
  <2>4. QED
    BY <1>2, <1>9, <2>1, <2>3
<1>10. CASE ProcessCrash
  <2>1. UNCHANGED <<sessions, dirs, documents, part>>
    BY <1>10 DEF ProcessCrash, tables, chunkFiles
  <2>2. SessionsKept
    BY <1>10, <2>1 DEF ProcessCrash, SessionsKept, SessionInv, HasDirectory
  <2>3. ASSUME NEW s \in Request PROVE Held(s)'
    <3>1. CASE request'[s] = request[s]
      BY <2>1, <2>2, <3>1, HeldByOthers
    <3>2. CASE request'[s] = Start(request[s].op, "dead", request[s].upload, request[s].chunk, 0)
      BY <1>1, <2>1, <2>2, <3>2 DEF Held, Start, At, SessionsKept, StepFits
    <3>3. QED
      BY <1>10, <3>1, <3>2 DEF ProcessCrash
  <2>4. QED
    BY <2>2, <2>3 DEF SessionInv, SessionsKept
<1>11. QED
  BY <1>4, <1>5, <1>6, <1>7, <1>8, <1>9, <1>10 DEF Next

LEMMA SessionAlways == Spec => []SessionInv
<1>1. Init => SessionInv
  <2> SUFFICES ASSUME Init PROVE SessionInv
    OBVIOUS
  <2>1. /\ \A r \in Request : request[r].pc = "unsent" /\ request[r].op = "none" /\ r \notin documents
        /\ \A u \in Upload : opening[u] = "unused"
    BY DEF Init, Start
  <2>2. QED
    BY <2>1 DEF SessionInv, HasDirectory, Held, At
<1>2. TypeInv /\ OutcomeInv /\ SessionInv /\ [Next]_vars => SessionInv'
  BY SessionStep
<1>3. QED
  BY <1>1, <1>2, TypeAlways, OutcomeAlways, PTL DEF Spec

(* Whatever completions, crashes and failed commits there are, a chunk     *)
(* that was answered 2xx can be relied on as long as its session lasts, if *)
(* no chunk is sent again while its last sending runs.                     *)
THEOREM AcknowledgedChunksKept ==
    ASSUME "chunk" \notin Overlaps
    PROVE  Spec => []AcknowledgedChunkIsKept
<1>1. ASSUME TypeInv, ContentInv, SessionInv PROVE AcknowledgedChunkIsKept
  <2> SUFFICES ASSUME NEW r \in Request, request[r].op = "chunk", At(r, "ok"),
                      request[r].upload \in sessions
               PROVE  LET f == part[request[r].upload][request[r].chunk] IN
                      f # None /\ blocks[f] = 1..ExpectedSize(request[r].chunk)
    BY DEF AcknowledgedChunkIsKept
  <2>1. request[r].upload \in Upload /\ request[r].chunk \in Chunk
    BY <1>1 DEF TypeInv, TypeOK
  <2>2. part[request[r].upload][request[r].chunk] # None
    BY <1>1 DEF SessionInv, Held
  <2>3. QED
    BY <1>1, <2>1, <2>2 DEF ContentInv, FileInv, PartsWhole
<1>2. QED
  BY <1>1, TypeAlways, ContentAlways, SessionAlways, PTL

(* And a part is as long as its chunk was declared: only two senders of    *)
(* one chunk can make it otherwise.                                        *)
THEOREM PartsHaveDeclaredSize ==
    ASSUME "chunk" \notin Overlaps
    PROVE  Spec => []PartHasDeclaredSize
<1>1. ContentInv => PartHasDeclaredSize
  BY DEF ContentInv, FileInv, PartsWhole, PartHasDeclaredSize, Listed
<1>2. QED
  BY <1>1, ContentAlways, PTL

-----------------------------------------------------------------------------
(* Clients that wait for the answer of a completion.                       *)

\* A completion has its session until it commits, its directory until it is
\* done, and every answer tells what was created.
Waits(r) ==
    /\ request[r].op = "complete" =>
         /\ request[r].pc \in {"list", "copy", "commit"} => request[r].upload \in sessions
         /\ request[r].pc \in {"list", "copy", "commit", "cleanup"} => request[r].upload \in dirs
    /\ request[r].op \in {"complete", "file"} =>
         /\ At(r, "ok") => r \in documents
         /\ At(r, "refused") \/ At(r, "error") => r \notin (documents \ late) \cup targets

WaitInv == OneDocumentPerSession /\ \A r \in Request : Waits(r)

(* A completion that does not move keeps its session and its directory     *)
(* from the completions of other sessions.                                 *)
LEMMA WaitsByOthers ==
    ASSUME TypeInv, WaitInv, NEW r \in Request, NEW s \in Request, s # r, request'[s] = request[s],
           s \in documents' <=> s \in documents, s \in late' <=> s \in late,
           s \in targets' <=> s \in targets,
           ~(Running(r) /\ Running(s) /\ request[s].op = "complete"
               /\ request[s].upload = request[r].upload),
           \/ sessions \subseteq sessions' /\ dirs \subseteq dirs'
           \/ /\ Running(r)
              /\ sessions \ {request[r].upload} \subseteq sessions'
              /\ dirs \ {request[r].upload} \subseteq dirs'
    PROVE  Waits(s)'
<1>1. Waits(s)
  BY DEF WaitInv
<1>2. request[s].pc \in {"list", "copy", "commit", "cleanup"} => Running(s)
  BY DEF Running, Answer
<1>3. QED
  BY <1>1, <1>2 DEF Waits, At

(* No step disturbs a client that waits.                                   *)
LEMMA WaitStep ==
    ASSUME TypeInv, OutcomeInv, SessionInv, WaitInv, ~Overlapping, [Next]_vars
    PROVE  WaitInv'
<1>1. /\ request \in [Request -> Fields]
      /\ \A r \in Request : Held(r) /\ StepFits(r) /\ Outcome(r) /\ Waits(r)
  BY DEF TypeInv, TypeOK, Fields, SessionInv, StepsOK, OutcomeInv, WaitInv
<1>2. ASSUME NEW r \in Request, Waits(r)',
             ChunkRequest(r) \/ CompleteRequest(r) \/ FileRequest(r) \/ CommitDocument(r) \/ CommitRaises(r),
             \/ sessions \subseteq sessions' /\ dirs \subseteq dirs'
             \/ /\ Running(r)
                /\ sessions \ {request[r].upload} \subseteq sessions'
                /\ dirs \ {request[r].upload} \subseteq dirs'
      PROVE  \A s \in Request : Waits(s)'
  <2>1. ASSUME NEW s \in Request, s # r PROVE Waits(s)'
    <3>1. ~(Running(r) /\ Running(s) /\ request[s].op = "complete"
              /\ request[s].upload = request[r].upload)
      BY <2>1 DEF Overlapping
    <3>2. QED
      BY <1>2, <2>1, <3>1, OthersWait, WaitsByOthers
  <2>2. QED
    BY <1>2, <2>1
<1>3. ASSUME NEW r \in Request, Waits(r)', documents' = documents,
             r \in documents => request'[r].op = request[r].op /\ request'[r].upload = request[r].upload,
             ChunkRequest(r) \/ CompleteRequest(r) \/ FileRequest(r),
             \/ sessions \subseteq sessions' /\ dirs \subseteq dirs'
             \/ /\ Running(r)
                /\ sessions \ {request[r].upload} \subseteq sessions'
                /\ dirs \ {request[r].upload} \subseteq dirs'
      PROVE  WaitInv'
  <2>1. \A s \in Request : Waits(s)'
    BY <1>2, <1>3
  <2>2. \A s \in documents :
          s \in Request /\ request'[s].op = request[s].op /\ request'[s].upload = request[s].upload
    BY <1>3, OthersWait DEF TypeInv, TypeOK
  <2>3. OneDocumentPerSession'
    BY <1>3, <2>2 DEF WaitInv, OneDocumentPerSession
  <2>4. QED
    BY <2>1, <2>3 DEF WaitInv
<1>4. CASE UNCHANGED vars
  BY <1>4 DEF vars, tables, chunkFiles, finalFiles, bounds, WaitInv, Waits, At, OneDocumentPerSession
<1>5. ASSUME NEW u \in Upload, InitUpload(u) PROVE WaitInv'
  <2>1. UNCHANGED <<request, documents, late, targets>> /\ sessions \subseteq sessions'
    BY <1>5 DEF InitUpload, MakeDirectory, CreateSession, CreateSessionRaises, tables, finalFiles, bounds
  <2>2. opening[u] # "open" /\ dirs \ {u} \subseteq dirs'
    BY <1>5 DEF InitUpload, MakeDirectory, CreateSession, CreateSessionRaises, RemoveTree, chunkFiles
  <2>3. \A r \in Request : request[r].op = "complete" => request[r].upload # u
    BY <1>1, <2>2 DEF Held
  <2>4. QED
    BY <2>1, <2>2, <2>3 DEF WaitInv, Waits, At, OneDocumentPerSession
<1>6. ASSUME NEW r \in Request, ChunkRequest(r) PROVE WaitInv'
  <2>1. documents' = documents /\ sessions' = sessions /\ dirs \subseteq dirs'
    BY <1>6 DEF ChunkRequest, StartChunk, CheckChunk, OpenTemporary, WriteBlock, RefuseLong,
       RefuseWrongSize, PublishChunk, PublishRaises, DropTemporary, tables, chunkFiles
  <2>2. request[r].pc \in {"unsent", "check", "open", "write"}
    BY <1>6 DEF ChunkRequest, StartChunk, CheckChunk, OpenTemporary, WriteBlock, RefuseLong,
       RefuseWrongSize, PublishChunk, PublishRaises, DropTemporary, Ended, At
  <2>3. r \notin documents
    BY <1>1, <2>2 DEF Outcome
  <2>4. request'[r].op = "chunk"
    <3>1. ASSUME NEW u \in Upload, NEW i \in Chunk, NEW n \in 0..(ChunkSize + 1), StartChunk(r, u, i, n)
          PROVE  request'[r].op = "chunk"
      BY <1>1, <3>1 DEF StartChunk, Start
    <3>2. CASE OpenTemporary(r) \/ WriteBlock(r)
      <4>1. request[r].op = "chunk"
        BY <1>1, <3>2 DEF OpenTemporary, WriteBlock, At, StepFits
      <4>2. CASE OpenTemporary(r)
        BY <1>1, <4>1, <4>2 DEF OpenTemporary, Fields
      <4>3. CASE WriteBlock(r)
        BY <1>1, <4>1, <4>3 DEF WriteBlock, Fields
      <4>4. QED
        BY <3>2, <4>2, <4>3
    <3>3. CASE CheckChunk(r) \/ RefuseLong(r) \/ RefuseWrongSize(r) \/ PublishChunk(r) \/ PublishRaises(r)
      <4>1. request[r].op = "chunk"
        BY <1>1, <3>3 DEF CheckChunk, RefuseLong, RefuseWrongSize, PublishChunk, PublishRaises,
           Ended, At, StepFits
      <4>2. (\E pc : Goto(r, pc)) \/ \E answer : Reply(r, answer)
        BY <3>3 DEF CheckChunk, RefuseLong, RefuseWrongSize, PublishChunk, PublishRaises,
           DropTemporary, Require
      <4>3. QED
        BY <4>1, <4>2, Moves, Answers
    <3>4. QED
      BY <1>6, <3>1, <3>2, <3>3 DEF ChunkRequest
  <2>5. Waits(r)'
    BY <2>4 DEF Waits
  <2>6. QED
    BY <1>3, <1>6, <2>1, <2>3, <2>5
<1>7. ASSUME NEW r \in Request, CompleteRequest(r) PROVE WaitInv'
  <2>1. CASE \E u \in Upload : StartComplete(r, u)
    <3>1. PICK u \in Upload : StartComplete(r, u)
      BY <2>1
    <3>2. /\ UNCHANGED <<documents, sessions, dirs>> /\ request[r].pc = "unsent"
          /\ request'[r] = Start("complete", "check", u, 0, 0)
      BY <1>1, <3>1 DEF StartComplete, tables, chunkFiles, At
    <3>3. r \notin documents
      BY <1>1, <3>2 DEF Outcome
    <3>4. Waits(r)'
      BY <3>2 DEF Waits, Start, At
    <3>5. QED
      BY <1>3, <1>7, <3>2, <3>3, <3>4
  <2>2. CASE CheckComplete(r) \/ ListChunks(r) \/ CopyChunk(r) \/ StoreTarget(r)
    <3>1. /\ request[r].op = "complete" /\ request[r].upload \in Upload
          /\ opening[request[r].upload] = "open"
          /\ request[r].pc \in {"check", "list", "copy"} /\ r \notin documents
      BY <1>1, <2>2 DEF CheckComplete, ListChunks, CopyChunk, StoreTarget, StepFits, At, Outcome, Held
    <3>2. /\ UNCHANGED <<documents, sessions, dirs, late>>
          /\ targets' = targets \/ (targets' = targets \cup {r} /\ request'[r].pc = "commit")
      BY <2>2, Moves DEF CheckComplete, ListChunks, CopyChunk, StoreTarget, tables, chunkFiles,
         finalFiles, bounds
    <3>3. r \notin targets
      BY <1>1, <3>1 DEF Outcome, At
    <3>4. /\ request'[r].op = "complete" /\ request'[r].upload = request[r].upload
          /\ request'[r].pc \in {"list", "copy", "commit", "refused"}
          /\ request'[r].pc # "refused" => request[r].upload \in sessions
      <4>1. CASE \E pc \in {"list", "copy", "commit"} : Goto(r, pc)
        <5>1. request[r].upload \in sessions
          <6>1. CASE CheckComplete(r)
            <7>1. ~Reply(r, "refused")
              BY <4>1, Moves, Answers
            <7>2. QED
              BY <6>1, <7>1 DEF CheckComplete, Require
          <6>2. CASE ~CheckComplete(r)
            BY <1>1, <2>2, <3>1, <6>2 DEF ListChunks, CopyChunk, StoreTarget, At, Waits
          <6>3. QED
            BY <6>1, <6>2
        <5>2. QED
          BY <3>1, <4>1, <5>1, Moves
      <4>2. CASE Reply(r, "refused")
        BY <3>1, <4>2, Answers
      <4>3. CASE CopyChunk(r) /\ ~Reply(r, "refused")
        <5>1. PICK at, size, intact :
                request' = [request EXCEPT ![r].at = at, ![r].size = size, ![r].intact = intact]
          BY <4>3 DEF CopyChunk
        <5>2. request[r].pc = "copy" /\ request[r] \in Fields
          BY <1>1, <4>3 DEF CopyChunk, At
        <5>3. request'[r].op = "complete" /\ request'[r].upload = request[r].upload /\ request'[r].pc = "copy"
          BY <1>1, <3>1, <5>1, <5>2 DEF Fields
        <5>4. QED
          BY <1>1, <3>1, <5>2, <5>3 DEF Waits
      <4>4. QED
        BY <2>2, <4>1, <4>2, <4>3 DEF CheckComplete, ListChunks, StoreTarget, Require
    <3>5. request[r].upload \in sessions => request[r].upload \in dirs
      BY <3>1 DEF SessionInv, HasDirectory
    <3>6. Waits(r)'
      BY <3>1, <3>2, <3>3, <3>4, <3>5 DEF Waits, At
    <3>7. QED
      BY <1>3, <1>7, <3>1, <3>2, <3>6
  <2>3. CASE RemoveSessionFiles(r)
    <3>1. /\ request[r].pc = "cleanup" /\ request[r].op = "complete"
          /\ request[r].upload \in dirs /\ r \in documents
      BY <1>1, <2>3 DEF RemoveSessionFiles, At, StepFits, Held, Waits
    <3>2. /\ Reply(r, "ok") /\ UNCHANGED <<documents, sessions>>
          /\ dirs' = dirs \ {request[r].upload}
      BY <2>3, <3>1 DEF RemoveSessionFiles, RemoveTree, tables
    <3>3. Running(r)
      BY <3>1 DEF Running, Answer
    <3>4. Waits(r)'
      BY <3>1, <3>2, Answers DEF Waits, At
    <3>5. request'[r].op = request[r].op /\ request'[r].upload = request[r].upload
      BY <3>2, Answers
    <3>6. QED
      BY <1>3, <1>7, <3>2, <3>3, <3>4, <3>5
  <2>4. QED
    BY <1>7, <2>1, <2>2, <2>3 DEF CompleteRequest
<1>8. ASSUME NEW r \in Request, FileRequest(r) PROVE WaitInv'
  <2>1. UNCHANGED <<documents, sessions, dirs, late>>
    BY <1>8 DEF FileRequest, StartFile, ReceiveFile, tables, chunkFiles, bounds
  <2>2. request[r].pc \in {"unsent", "receive"} /\ r \notin documents /\ r \notin targets
    BY <1>1, <1>8 DEF FileRequest, StartFile, ReceiveFile, At, Outcome
  <2>3. Waits(r)'
    <3>1. CASE StartFile(r)
      <4>1. request'[r] = Start("file", "receive", None, 0, 0)
        BY <1>1, <3>1 DEF StartFile
      <4>2. QED
        BY <4>1 DEF Waits, At, Start
    <3>2. CASE ReceiveFile(r)
      <4>1. request[r].op = "file"
        BY <1>1, <3>2 DEF ReceiveFile, At, StepFits
      <4>2. \/ Goto(r, "commit")
            \/ Reply(r, "refused") /\ targets' = targets
        BY <3>2 DEF ReceiveFile, finalFiles
      <4>3. QED
        BY <2>1, <2>2, <4>1, <4>2, Moves, Answers DEF Waits, At
    <3>3. QED
      BY <1>8, <3>1, <3>2 DEF FileRequest
  <2>4. QED
    BY <1>3, <1>8, <2>1, <2>2, <2>3
<1>9. ASSUME NEW r \in Request, CommitDocument(r) \/ CommitRaises(r) PROVE WaitInv'
  <2>1. /\ request[r].pc = "commit" /\ r \notin documents /\ Running(r)
        /\ request[r].op \in {"complete", "file"}
    BY <1>1, <1>9 DEF CommitDocument, CommitRaises, At, Outcome, StepFits, Running, Answer
  <2>2. /\ dirs' = dirs
        /\ \/ documents' = documents \cup {r} /\ sessions' = sessions \ {request[r].upload}
           \/ documents' = documents /\ sessions' = sessions
    BY <1>9 DEF CommitDocument, CommitRaises, chunkFiles, tables
  <2>3. request'[r].op = request[r].op /\ request'[r].upload = request[r].upload
    BY <1>9, Moves, Answers DEF CommitDocument, CommitRaises
  <2>4. Waits(r)'
    <3>1. CASE CommitDocument(r)
      <4>1. /\ documents' = documents \cup {r}
            /\ \/ Goto(r, "cleanup") /\ request[r].op = "complete"
               \/ Reply(r, "ok") /\ request[r].op # "complete"
        BY <3>1 DEF CommitDocument
      <4>2. request'[r].pc \in {"cleanup", "ok"}
        BY <4>1, Moves, Answers
      <4>3. request[r].op = "complete" => request[r].upload \in dirs
        BY <1>1, <2>1 DEF Waits
      <4>4. QED
        BY <2>1, <2>2, <2>3, <4>1, <4>2, <4>3 DEF Waits, At
    <3>2. CASE CommitRaises(r)
      <4>1. /\ Reply(r, "error") /\ r \notin targets'
            /\ r \in documents' => r \in late'
        BY <2>1, <3>2 DEF CommitRaises, tables
      <4>2. request'[r].pc = "error"
        BY <4>1, Answers
      <4>3. QED
        BY <4>1, <4>2 DEF Waits, At
    <3>3. QED
      BY <1>9, <3>1, <3>2
  <2>5. \A s \in Request : Waits(s)'
    BY <1>2, <1>9, <2>1, <2>2, <2>4
  <2>6. ASSUME NEW s \in documents, NEW t \in documents', s # t, s \in Request, t \in Request,
               request'[s].op = "complete", request'[t].op = "complete",
               request'[s].upload = request'[t].upload
        PROVE  FALSE
    <3>1. s # r /\ request'[s] = request[s]
      BY <1>9, <2>1, <2>6, OthersWait
    <3>2. CASE t = r
      <4>1. request[s].upload \notin sessions
        BY <1>1, <2>6, <3>1 DEF Held
      <4>2. request[r].upload \in sessions
        BY <1>1, <2>1, <2>3, <2>6, <3>2 DEF Waits
      <4>3. QED
        BY <2>3, <2>6, <3>1, <3>2, <4>1, <4>2
    <3>3. CASE t # r
      <4>1. request'[t] = request[t] /\ t \in documents
        BY <1>9, <2>6, <3>3, OthersWait
      <4>2. QED
        BY <2>6, <3>1, <4>1 DEF WaitInv, OneDocumentPerSession
    <3>4. QED
      BY <3>2, <3>3
  <2>7. documents' \subseteq Request /\ documents' \subseteq documents \cup {r}
    BY <2>2 DEF TypeInv, TypeOK
  <2>8. OneDocumentPerSession'
    BY <2>6, <2>7 DEF OneDocumentPerSession
  <2>9. QED
    BY <2>5, <2>8 DEF WaitInv
<1>10. CASE ProcessCrash
  <2>1. UNCHANGED <<sessions, dirs, documents, late, targets>>
    BY <1>10 DEF ProcessCrash, tables, chunkFiles, finalFiles, bounds
  <2>2. ASSUME NEW s \in Request
        PROVE  /\ request'[s].op = request[s].op /\ request'[s].upload = request[s].upload
               /\ request'[s].pc \in {request[s].pc, "dead"}
    BY <1>10 DEF ProcessCrash, Start
  <2>3. \A s \in Request : Waits(s)'
    BY <1>1, <2>1, <2>2 DEF Waits, At
  <2>4. OneDocumentPerSession'
    BY <2>1, <2>2 DEF WaitInv, OneDocumentPerSession, TypeInv, TypeOK
  <2>5. QED
    BY <2>3, <2>4 DEF WaitInv
<1>11. QED
  BY <1>4, <1>5, <1>6, <1>7, <1>8, <1>9, <1>10 DEF Next

-----------------------------------------------------------------------------
(* Completions that are refused.                                           *)

\* The blocks of the first n chunks.
Copied(n) == IF n = ExpectedChunks THEN FileSize ELSE n * ChunkSize

\* A chunk that is received or kept has an index in range.
IndexInv ==
    /\ \A r \in Request : request[r].pc \in {"open", "write"} => request[r].chunk \in Wanted
    /\ \A u \in Upload, i \in Chunk : temporary[u][i] # None \/ part[u][i] # None => i \in Wanted

\* A completion copies chunks that are all there and add up.
Copies(r) ==
    /\ request[r].op = "complete" /\ request[r].pc \in {"check", "list"} =>
         request[r].at = 0 /\ request[r].size = 0
    /\ At(r, "copy") => /\ request[r].at \in 0..ExpectedChunks
                        /\ request[r].size = Copied(request[r].at)
                        /\ \A i \in Wanted : part[request[r].upload][i] # None

CopiesInv == \A r \in Request : Copies(r)

(* Division, rounded down.                                                 *)
LEMMA Divides ==
    ASSUME NEW a \in Nat, NEW b \in Nat \ {0}
    PROVE  a \div b \in Nat /\ (a \div b) * b <= a /\ a < (a \div b) * b + b
OBVIOUS

(* There is a first chunk, and the last one ends the file.                 *)
LEMMA Pieces ==
    /\ ExpectedChunks \in Nat \ {0}
    /\ (ExpectedChunks - 1) * ChunkSize < FileSize
    /\ FileSize <= ExpectedChunks * ChunkSize
<1> DEFINE a == FileSize + ChunkSize - 1
<1>1. a \in Nat /\ FileSize \in Nat \ {0} /\ ChunkSize \in Nat \ {0} /\ a = FileSize + ChunkSize - 1
  BY UploadAssumption
<1> HIDE DEF a
<1>2. ExpectedChunks = a \div ChunkSize
  BY DEF ExpectedChunks, a
<1>3. /\ ExpectedChunks \in Nat /\ ExpectedChunks * ChunkSize <= a
      /\ a < ExpectedChunks * ChunkSize + ChunkSize
  BY <1>1, <1>2, Divides
<1>4. ExpectedChunks # 0
  BY <1>1, <1>3
<1>5. (ExpectedChunks - 1) * ChunkSize = ExpectedChunks * ChunkSize - ChunkSize
  BY <1>1, <1>3
<1>6. ExpectedChunks * ChunkSize \in Nat
  BY <1>1, <1>3
<1>7. QED
  BY <1>1, <1>3, <1>4, <1>5, <1>6

(* Chunk by chunk the declared sizes add up to the declared size.          *)
LEMMA PiecesAddUp ==
    ASSUME NEW i \in Wanted
    PROVE  /\ i + 1 \in 0..ExpectedChunks
           /\ Copied(i) + ExpectedSize(i) = Copied(i + 1)
           /\ Copied(i + 1) <= FileSize
<1>1. /\ ExpectedChunks \in Nat \ {0} /\ FileSize \in Nat /\ ChunkSize \in Nat \ {0}
      /\ i \in Nat /\ i < ExpectedChunks
  BY Pieces, UploadAssumption DEF Wanted
<1>2. i + 1 \in 0..ExpectedChunks /\ Copied(i) = i * ChunkSize
  BY <1>1 DEF Copied
<1>3. CASE i = ExpectedChunks - 1
  <2>1. i * ChunkSize \in Nat /\ i * ChunkSize < FileSize
    BY <1>1, <1>3, Pieces
  <2>2. ExpectedSize(i) = FileSize - i * ChunkSize /\ Copied(i + 1) = FileSize
    BY <1>1, <1>3 DEF ExpectedSize, Copied
  <2>3. QED
    BY <1>1, <1>2, <2>1, <2>2
<1>4. CASE i # ExpectedChunks - 1
  <2>1. ExpectedSize(i) = ChunkSize /\ Copied(i + 1) = (i + 1) * ChunkSize
    BY <1>1, <1>4 DEF ExpectedSize, Copied
  <2>2. (i + 1) * ChunkSize = i * ChunkSize + ChunkSize /\ i * ChunkSize \in Nat
    BY <1>1
  <2>3. i + 1 <= ExpectedChunks - 1 /\ i + 1 \in Nat /\ ExpectedChunks - 1 \in Nat
    BY <1>1, <1>4
  <2>4. \A m, n, c \in Nat : m <= n => m * c <= n * c
    OBVIOUS
  <2>5. (i + 1) * ChunkSize <= (ExpectedChunks - 1) * ChunkSize
    BY <1>1, <2>3, <2>4
  <2>6. (ExpectedChunks - 1) * ChunkSize \in Nat
    BY <1>1
  <2>7. QED
    BY <1>1, <1>2, <2>1, <2>2, <2>5, <2>6, Pieces
<1>5. QED
  BY <1>3, <1>4

(* No index out of range gets a file.                                      *)
LEMMA IndexStep ==
    ASSUME TypeInv, IndexInv, [Next]_vars
    PROVE  IndexInv'
<1>1. request \in [Request -> Fields] /\ \A r \in Request : StepFits(r)
  BY DEF TypeInv, TypeOK, Fields, StepsOK
<1>2. ASSUME \A r \in Request : request'[r].pc \in {"open", "write"} => request'[r].chunk \in Wanted,
             \A u \in Upload, i \in Chunk : /\ temporary'[u][i] \in {None, temporary[u][i]}
                                            /\ part'[u][i] \in {None, part[u][i]}
      PROVE  IndexInv'
  BY <1>2 DEF IndexInv
<1>3. ASSUME NEW u \in Upload, RemoveTree(u)
      PROVE  \A v \in Upload, i \in Chunk : /\ temporary'[v][i] \in {None, temporary[v][i]}
                                            /\ part'[v][i] \in {None, part[v][i]}
  BY <1>3 DEF RemoveTree, NoFiles, TypeInv, TypeOK
<1>4. CASE UNCHANGED vars
  BY <1>2, <1>4 DEF vars, chunkFiles, IndexInv
<1>5. ASSUME NEW u \in Upload, InitUpload(u) PROVE IndexInv'
  <2>1. request' = request
    BY <1>5 DEF InitUpload, MakeDirectory, CreateSession, CreateSessionRaises
  <2>2. UNCHANGED <<temporary, part>> \/ RemoveTree(u)
    BY <1>5 DEF InitUpload, MakeDirectory, CreateSession, CreateSessionRaises, chunkFiles
  <2>3. QED
    BY <1>2, <1>3, <2>1, <2>2 DEF IndexInv
<1>6. ASSUME NEW r \in Request, request'[r].pc \notin {"open", "write"},
             ChunkRequest(r) \/ CompleteRequest(r) \/ FileRequest(r) \/ CommitDocument(r) \/ CommitRaises(r)
      PROVE  \A s \in Request : request'[s].pc \in {"open", "write"} => request'[s].chunk \in Wanted
  BY <1>6, OthersWait DEF IndexInv
<1>7. ASSUME NEW r \in Request, ChunkRequest(r) PROVE IndexInv'
  <2>1. CASE \E u \in Upload, i \in Chunk, n \in 0..(ChunkSize + 1) : StartChunk(r, u, i, n)
    <3>1. request'[r].pc = "check" /\ UNCHANGED <<temporary, part>>
      BY <1>1, <2>1 DEF StartChunk, Start, chunkFiles
    <3>2. QED
      BY <1>2, <1>6, <1>7, <3>1
  <2>2. CASE CheckChunk(r)
    <3>1. UNCHANGED <<temporary, part>>
      BY <2>2 DEF CheckChunk, chunkFiles
    <3>2. \/ Goto(r, "open") /\ request[r].chunk < ExpectedChunks
          \/ Reply(r, "refused")
      BY <2>2 DEF CheckChunk, Require
    <3>3. request[r].chunk \in Chunk /\ ExpectedChunks \in Nat \ {0}
      BY <1>1, Pieces DEF Fields
    <3>4. request'[r].pc \in {"open", "write"} => request'[r].chunk \in Wanted
      BY <3>2, <3>3, Moves, Answers DEF Wanted, Chunk
    <3>5. QED
      BY <1>2, <1>7, <3>1, <3>4, OthersWait DEF IndexInv
  <2>3. CASE OpenTemporary(r)
    <3> DEFINE u == request[r].upload
               i == request[r].chunk
    <3>1. request[r].pc = "open" /\ u \in Upload /\ i \in Chunk /\ i \in Wanted
      BY <1>1, <2>3 DEF OpenTemporary, At, StepFits, Fields, IndexInv
    <3>2. PICK f : /\ temporary' = [temporary EXCEPT ![u][i] = f]
                   /\ request' = [request EXCEPT ![r].pc = "write", ![r].file = f]
      BY <2>3 DEF OpenTemporary
    <3>3. ASSUME NEW v \in Upload, NEW j \in Chunk
          PROVE  part'[v][j] = part[v][j] /\ (temporary'[v][j] = temporary[v][j] \/ j = i)
      BY <2>3, <3>1, <3>2 DEF OpenTemporary, TypeInv, TypeOK
    <3>4. request'[r].chunk = i
      <4>1. request[r] \in Fields
        BY <1>1
      <4>2. QED
        BY <1>1, <3>2, <4>1 DEF Fields
    <3>5. \A s \in Request : request'[s].pc \in {"open", "write"} => request'[s].chunk \in Wanted
      BY <1>7, <3>1, <3>4, OthersWait DEF IndexInv
    <3> HIDE DEF u, i
    <3>6. QED
      BY <3>1, <3>3, <3>5 DEF IndexInv
  <2>4. CASE WriteBlock(r)
    <3>1. request[r].pc = "write" /\ UNCHANGED <<temporary, part>>
      BY <2>4 DEF WriteBlock, At
    <3>2. request'[r].chunk = request[r].chunk
      BY <1>1, <2>4 DEF WriteBlock
    <3>3. QED
      BY <1>2, <1>7, <3>1, <3>2, OthersWait DEF IndexInv
  <2>5. CASE PublishChunk(r)
    <3> DEFINE u == request[r].upload
               i == request[r].chunk
    <3>1. u \in Upload /\ i \in Chunk /\ i \in Wanted
      BY <1>1, <2>5 DEF PublishChunk, Ended, At, StepFits, Fields, IndexInv
    <3>2. request'[r].pc = "ok"
      BY <2>5, Answers DEF PublishChunk
    <3>3. ASSUME NEW v \in Upload, NEW j \in Chunk
          PROVE  /\ temporary'[v][j] \in {None, temporary[v][j]}
                 /\ part'[v][j] = part[v][j] \/ j = i
      BY <2>5, <3>1 DEF PublishChunk, TypeInv, TypeOK
    <3>4. \A s \in Request : request'[s].pc \in {"open", "write"} => request'[s].chunk \in Wanted
      BY <1>6, <1>7, <3>2
    <3> HIDE DEF u, i
    <3>5. QED
      BY <3>1, <3>3, <3>4 DEF IndexInv
  <2>6. CASE RefuseLong(r) \/ RefuseWrongSize(r) \/ PublishRaises(r)
    <3>1. PICK answer \in Answer : DropTemporary(r, answer)
      BY <2>6 DEF RefuseLong, RefuseWrongSize, PublishRaises, Answer
    <3>2. request'[r].pc \notin {"open", "write"}
      BY <3>1, Answers DEF DropTemporary, Answer
    <3>3. \A u \in Upload, i \in Chunk : /\ temporary'[u][i] \in {None, temporary[u][i]}
                                         /\ part'[u][i] = part[u][i]
      BY <3>1 DEF DropTemporary, TypeInv, TypeOK
    <3>4. QED
      BY <1>2, <1>6, <1>7, <3>2, <3>3
  <2>7. QED
    BY <1>7, <2>1, <2>2, <2>3, <2>4, <2>5, <2>6 DEF ChunkRequest
<1>8. ASSUME NEW r \in Request,
             CompleteRequest(r) \/ FileRequest(r) \/ CommitDocument(r) \/ CommitRaises(r)
      PROVE  IndexInv'
  <2>1. UNCHANGED <<temporary, part>> \/ \E u \in Upload : RemoveTree(u)
    BY <1>1, <1>8 DEF CompleteRequest, FileRequest, StartComplete, CheckComplete, ListChunks, CopyChunk,
       StoreTarget, RemoveSessionFiles, StartFile, ReceiveFile, CommitDocument, CommitRaises,
       chunkFiles, At, StepFits
  <2>2. request'[r].pc \notin {"open", "write"}
    <3>1. CASE (\E u \in Upload : StartComplete(r, u)) \/ StartFile(r)
      BY <1>1, <3>1 DEF StartComplete, StartFile, Start
    <3>2. CASE CopyChunk(r) /\ ~Reply(r, "refused")
      <4>1. request[r].pc = "copy" /\ request[r] \in Fields
        BY <1>1, <3>2 DEF CopyChunk, At
      <4>2. PICK at, size, intact :
              request' = [request EXCEPT ![r].at = at, ![r].size = size, ![r].intact = intact]
        BY <3>2 DEF CopyChunk
      <4>3. QED
        BY <1>1, <4>1, <4>2 DEF Fields
    <3>3. CASE \/ \E pc \in {"list", "copy", "commit", "cleanup"} : Goto(r, pc)
               \/ \E answer \in Answer : Reply(r, answer)
      BY <3>3, Moves, Answers DEF Answer
    <3>4. QED
      BY <1>8, <3>1, <3>2, <3>3 DEF CompleteRequest, FileRequest, CheckComplete, ListChunks,
         StoreTarget, RemoveSessionFiles, ReceiveFile, CommitDocument, CommitRaises, Require, Answer
  <2>3. QED
    BY <1>2, <1>3, <1>6, <1>8, <2>1, <2>2
<1>9. CASE ProcessCrash
  <2>1. UNCHANGED <<temporary, part>>
    BY <1>9 DEF ProcessCrash, chunkFiles
  <2>2. \A s \in Request : request'[s] = request[s] \/ request'[s].pc = "dead"
    BY <1>9 DEF ProcessCrash, Start
  <2>3. QED
    BY <1>2, <2>1, <2>2 DEF IndexInv
<1>10. QED
  BY <1>4, <1>5, <1>7, <1>8, <1>9 DEF Next

(* No copying is disturbed: the chunks stay until the session's completion *)
(* is done with them.                                                      *)
LEMMA CopiesStep ==
    ASSUME TypeInv, SessionInv, FileInv, CopiesInv, ~Overlapping, [Next]_vars
    PROVE  CopiesInv'
<1>1. /\ request \in [Request -> Fields]
      /\ \A r \in Request : StepFits(r) /\ Copies(r) /\ Held(r)
      /\ ExpectedChunks \in Nat \ {0} /\ Wanted \subseteq Chunk
  BY Pieces DEF TypeInv, TypeOK, Fields, StepsOK, CopiesInv, SessionInv, Wanted, Chunk
<1>2. ASSUME NEW r \in Request, Copies(r)',
             ChunkRequest(r) \/ CompleteRequest(r) \/ FileRequest(r) \/ CommitDocument(r) \/ CommitRaises(r),
             \/ \A u \in Upload, i \in Chunk : part[u][i] # None => part'[u][i] # None
             \/ Running(r) /\ \A u \in Upload \ {request[r].upload} : part'[u] = part[u]
      PROVE  CopiesInv'
  <2>1. ASSUME NEW s \in Request, s # r PROVE Copies(s)'
    <3>1. request'[s] = request[s]
      BY <1>2, <2>1, OthersWait
    <3>2. ASSUME At(s, "copy"), NEW i \in Wanted PROVE part'[request[s].upload][i] # None
      <4>1. request[s].op = "complete" /\ request[s].upload \in Upload /\ Running(s)
            /\ part[request[s].upload][i] # None /\ i \in Chunk
        BY <1>1, <3>2 DEF StepFits, At, Running, Answer, Copies
      <4>2. ~(Running(r) /\ request[s].upload = request[r].upload)
        BY <2>1, <4>1 DEF Overlapping
      <4>3. QED
        BY <1>2, <4>1, <4>2
    <3>3. QED
      BY <1>1, <3>1, <3>2 DEF Copies, At
  <2>2. QED
    BY <1>2, <2>1 DEF CopiesInv
<1>3. UNCHANGED part => \A u \in Upload, i \in Chunk : part[u][i] # None => part'[u][i] # None
  OBVIOUS
<1>4. CASE UNCHANGED vars
  BY <1>4 DEF vars, chunkFiles, CopiesInv, Copies, At
<1>5. ASSUME NEW u \in Upload, InitUpload(u) PROVE CopiesInv'
  <2>1. request' = request
    BY <1>5 DEF InitUpload, MakeDirectory, CreateSession, CreateSessionRaises
  <2>2. opening[u] # "open" /\ \A v \in Upload \ {u} : part'[v] = part[v]
    BY <1>5 DEF InitUpload, MakeDirectory, CreateSession, CreateSessionRaises, RemoveTree, chunkFiles,
       TypeInv, TypeOK
  <2>3. ASSUME NEW s \in Request, At(s, "copy") PROVE request[s].upload \in Upload \ {u}
    BY <1>1, <2>2, <2>3 DEF StepFits, At, Held
  <2>4. QED
    BY <2>1, <2>2, <2>3 DEF CopiesInv, Copies, At
<1>6. ASSUME NEW r \in Request, ChunkRequest(r) PROVE CopiesInv'
  <2>1. \A u \in Upload, i \in Chunk : part[u][i] # None => part'[u][i] # None
    <3>1. CASE PublishChunk(r)
      BY <3>1 DEF PublishChunk, TypeInv, TypeOK
    <3>2. CASE ~PublishChunk(r)
      BY <1>3, <1>6, <3>2 DEF ChunkRequest, StartChunk, CheckChunk, OpenTemporary, WriteBlock, RefuseLong,
         RefuseWrongSize, PublishRaises, DropTemporary, chunkFiles
    <3>3. QED
      BY <3>1, <3>2
  <2>2. Copies(r)'
    <3>1. ASSUME NEW u \in Upload, NEW i \in Chunk, NEW n \in 0..(ChunkSize + 1), StartChunk(r, u, i, n)
          PROVE  Copies(r)'
      <4>1. request'[r] = Start("chunk", "check", u, i, n)
        BY <1>1, <3>1 DEF StartChunk
      <4>2. QED
        BY <4>1 DEF Copies, At, Start
    <3>2. CASE OpenTemporary(r)
      <4>1. request'[r].pc = "write"
        BY <1>1, <3>2 DEF OpenTemporary, Fields
      <4>2. QED
        BY <4>1 DEF Copies, At
    <3>3. CASE WriteBlock(r)
      <4>1. request'[r].pc = "write"
        BY <1>1, <3>3 DEF WriteBlock, Fields, At
      <4>2. QED
        BY <4>1 DEF Copies, At
    <3>4. CASE CheckChunk(r) \/ RefuseLong(r) \/ RefuseWrongSize(r) \/ PublishChunk(r) \/ PublishRaises(r)
      <4>1. Goto(r, "open") \/ \E answer \in Answer : Reply(r, answer)
        BY <3>4 DEF CheckChunk, RefuseLong, RefuseWrongSize, PublishChunk, PublishRaises,
           DropTemporary, Require, Answer
      <4>2. request'[r].pc \notin {"check", "list", "copy"}
        BY <4>1, Moves, Answers DEF Answer
      <4>3. QED
        BY <4>2 DEF Copies, At
    <3>5. QED
      BY <1>6, <3>1, <3>2, <3>3, <3>4 DEF ChunkRequest
  <2>3. QED
    BY <1>2, <1>6, <2>1, <2>2
<1>7. ASSUME NEW r \in Request, NEW answer \in Answer, Reply(r, answer) PROVE Copies(r)'
  <2>1. request'[r].pc \notin {"check", "list", "copy"}
    BY <1>7, Answers DEF Answer
  <2>2. QED
    BY <2>1 DEF Copies, At
<1>8. ASSUME NEW r \in Request, CompleteRequest(r) PROVE CopiesInv'
  <2>1. CASE \E u \in Upload : StartComplete(r, u)
    <3>1. PICK u \in Upload : StartComplete(r, u)
      BY <2>1
    <3>2. request'[r] = Start("complete", "check", u, 0, 0) /\ part' = part
      BY <1>1, <3>1 DEF StartComplete, chunkFiles
    <3>3. Copies(r)'
      BY <3>2 DEF Copies, At, Start
    <3>4. QED
      BY <1>2, <1>3, <1>8, <3>2, <3>3
  <2>2. CASE CheckComplete(r)
    <3>1. /\ part' = part /\ request[r].pc = "check" /\ request[r].op = "complete"
          /\ Goto(r, "list") \/ Reply(r, "refused")
      BY <2>2 DEF CheckComplete, At, Require, chunkFiles
    <3>2. Goto(r, "list") => Copies(r)'
      BY <1>1, <3>1, Moves DEF Copies, At
    <3>3. QED
      BY <1>2, <1>3, <1>7, <1>8, <3>1, <3>2 DEF Answer
  <2>3. CASE ListChunks(r)
    <3>1. /\ part' = part /\ request[r].pc = "list" /\ request[r].op = "complete"
          /\ (Goto(r, "copy") /\ Listed(request[r].upload) = Wanted) \/ Reply(r, "refused")
      BY <1>1, <2>3 DEF ListChunks, At, Require, chunkFiles, StepFits
    <3>2. Copied(0) = 0 /\ 0 \in 0..ExpectedChunks
      BY <1>1, UploadAssumption DEF Copied
    <3>3. CASE Goto(r, "copy") /\ Listed(request[r].upload) = Wanted
      <4>1. \A i \in Wanted : part'[request'[r].upload][i] # None
        BY <3>1, <3>3, Moves DEF Listed
      <4>2. request'[r].pc = "copy" /\ request'[r].at = 0 /\ request'[r].size = 0
        BY <1>1, <3>1, <3>3, Moves DEF Copies
      <4>3. QED
        BY <1>2, <1>3, <1>8, <3>1, <3>2, <4>1, <4>2 DEF Copies, At
    <3>4. QED
      BY <1>2, <1>3, <1>7, <1>8, <3>1, <3>3 DEF Answer
  <2>4. CASE CopyChunk(r)
    <3>1. part' = part /\ request[r].pc = "copy"
      BY <2>4 DEF CopyChunk, At, chunkFiles
    <3>2. CASE Reply(r, "refused")
      BY <1>2, <1>3, <1>7, <1>8, <3>1, <3>2 DEF Answer
    <3>3. CASE ~Reply(r, "refused")
      <4> DEFINE u == request[r].upload
                 i == request[r].at
                 size == request[r].size + extent[part[u][i]]
      <4>1. /\ i \in Wanted /\ u \in Upload /\ part[u][i] # None
            /\ request[r].size = Copied(i)
        BY <1>1, <2>4, <3>1 DEF CopyChunk, At, Copies, StepFits, Wanted
      <4>2. extent[part[u][i]] = ExpectedSize(i)
        BY <1>1, <4>1 DEF FileInv, PartsWhole
      <4>3. i + 1 \in 0..ExpectedChunks /\ size = Copied(i + 1)
        BY <4>1, <4>2, PiecesAddUp
      <4>4. PICK intact :
              request' = [request EXCEPT ![r].at = i + 1, ![r].size = size, ![r].intact = intact]
        BY <2>4, <3>3 DEF CopyChunk
      <4> HIDE DEF size
      <4>5. request'[r].at = i + 1 /\ request'[r].size = size /\ request'[r].upload = u
            /\ request'[r].pc = "copy"
        BY <1>1, <3>1, <4>4 DEF Fields
      <4>6. Copies(r)'
        BY <1>1, <3>1, <4>3, <4>5 DEF Copies, At
      <4>7. QED
        BY <1>2, <1>3, <1>8, <3>1, <4>6
    <3>4. QED
      BY <3>2, <3>3
  <2>5. CASE StoreTarget(r)
    <3>1. part' = part /\ (Goto(r, "commit") \/ Reply(r, "refused"))
      BY <2>5 DEF StoreTarget, chunkFiles
    <3>2. Goto(r, "commit") => Copies(r)'
      BY Moves DEF Copies, At
    <3>3. QED
      BY <1>2, <1>3, <1>7, <1>8, <3>1, <3>2 DEF Answer
  <2>6. CASE RemoveSessionFiles(r)
    <3>1. Running(r) /\ request[r].upload \in Upload
      BY <1>1, <2>6 DEF RemoveSessionFiles, At, Running, Answer, StepFits
    <3>2. \A u \in Upload \ {request[r].upload} : part'[u] = part[u]
      BY <2>6, <3>1 DEF RemoveSessionFiles, RemoveTree, chunkFiles, TypeInv, TypeOK
    <3>3. Reply(r, "ok") \/ Reply(r, "error")
      BY <2>6 DEF RemoveSessionFiles
    <3>4. QED
      BY <1>2, <1>7, <1>8, <3>1, <3>2, <3>3 DEF Answer
  <2>7. QED
    BY <1>8, <2>1, <2>2, <2>3, <2>4, <2>5, <2>6 DEF CompleteRequest
<1>9. ASSUME NEW r \in Request, FileRequest(r) \/ CommitDocument(r) \/ CommitRaises(r) PROVE CopiesInv'
  <2>1. part' = part
    BY <1>9 DEF FileRequest, StartFile, ReceiveFile, CommitDocument, CommitRaises, chunkFiles
  <2>2. \/ request'[r] = Start("file", "receive", None, 0, 0)
        \/ \E pc \in {"commit", "cleanup"} : Goto(r, pc)
        \/ \E answer \in Answer : Reply(r, answer)
    BY <1>1, <1>9 DEF FileRequest, StartFile, ReceiveFile, CommitDocument, CommitRaises, Answer
  <2>3. request'[r].pc \notin {"check", "list", "copy"}
    BY <2>2, Moves, Answers DEF Start, Answer
  <2>4. Copies(r)'
    BY <2>3 DEF Copies, At
  <2>5. QED
    BY <1>2, <1>3, <1>9, <2>1, <2>4
<1>10. CASE ProcessCrash
  <2>1. part' = part
    BY <1>10 DEF ProcessCrash, chunkFiles
  <2>2. \A s \in Request : request'[s] = request[s] \/ request'[s].pc = "dead"
    BY <1>10 DEF ProcessCrash, Start
  <2>3. QED
    BY <1>1, <2>1, <2>2 DEF CopiesInv, Copies, At
<1>11. QED
  BY <1>4, <1>5, <1>6, <1>8, <1>9, <1>10 DEF Next

\* What holds of behaviours in which every client has waited so far.
WaitedInv == overlapped \/ (~Overlapping /\ WaitInv)
CompletedInv == overlapped \/ CopiesInv

(* The history variable watches; the uploads behave as ever.               *)
LEMMA WatchedSpec == MCSpec => Spec
<1>1. MCInit => Init
  BY DEF MCInit
<1>2. [MCNext]_<<vars, overlapped>> => [Next]_vars
  BY DEF MCNext
<1>3. QED
  BY <1>1, <1>2, PTL DEF MCSpec, Spec

LEMMA WaitedAlways == MCSpec => []WaitedInv
<1>1. MCInit => WaitedInv
  <2> SUFFICES ASSUME MCInit PROVE ~Overlapping /\ WaitInv
    BY DEF WaitedInv
  <2>1. /\ \A r \in Request : request[r].pc = "unsent" /\ request[r].op = "none"
        /\ documents = {}
    BY DEF MCInit, Init, Start
  <2>2. QED
    BY <2>1 DEF Overlapping, Running, WaitInv, OneDocumentPerSession, Waits
<1>2. TypeInv /\ OutcomeInv /\ SessionInv /\ WaitedInv /\ [MCNext]_<<vars, overlapped>> => WaitedInv'
  <2> SUFFICES ASSUME TypeInv, OutcomeInv, SessionInv, WaitedInv, [MCNext]_<<vars, overlapped>>
               PROVE  WaitedInv'
    OBVIOUS
  <2>1. CASE UNCHANGED <<vars, overlapped>>
    <3>1. UNCHANGED vars
      BY <2>1
    <3>2. Overlapping' <=> Overlapping
      BY <3>1 DEF vars, Overlapping, Running
    <3>3. WaitInv /\ ~Overlapping => WaitInv'
      BY <3>1, WaitStep
    <3>4. QED
      BY <2>1, <3>2, <3>3 DEF WaitedInv
  <2>2. CASE MCNext
    <3>1. [Next]_vars /\ overlapped' = (overlapped \/ Overlapping')
      BY <2>2 DEF MCNext
    <3>2. WaitInv /\ ~Overlapping => WaitInv'
      BY <3>1, WaitStep
    <3>3. QED
      BY <3>1, <3>2, Zenon DEF WaitedInv
  <2>3. QED
    BY <2>1, <2>2
<1>3. QED
  BY <1>1, <1>2, WatchedSpec, TypeAlways, OutcomeAlways, SessionAlways, PTL DEF MCSpec

LEMMA CompletedAlways ==
    ASSUME "chunk" \notin Overlaps
    PROVE  MCSpec => []CompletedInv
<1>1. MCInit => CompletedInv
  <2> SUFFICES ASSUME MCInit PROVE CopiesInv
    BY DEF CompletedInv
  <2>1. \A r \in Request : request[r].pc = "unsent" /\ request[r].op = "none"
    BY DEF MCInit, Init, Start
  <2>2. QED
    BY <2>1 DEF CopiesInv, Copies, At
<1>2. TypeInv /\ SessionInv /\ ContentInv /\ WaitedInv /\ CompletedInv
        /\ [MCNext]_<<vars, overlapped>> => CompletedInv'
  <2> SUFFICES ASSUME TypeInv, SessionInv, ContentInv, WaitedInv, CompletedInv,
                      [MCNext]_<<vars, overlapped>>
               PROVE  CompletedInv'
    OBVIOUS
  <2>1. [Next]_vars /\ (overlapped => overlapped')
    <3>1. CASE UNCHANGED <<vars, overlapped>>
      BY <3>1
    <3>2. CASE MCNext
      BY <3>2, Zenon DEF MCNext
    <3>3. QED
      BY <3>1, <3>2
  <2>2. CopiesInv /\ ~Overlapping => CopiesInv'
    BY <2>1, CopiesStep DEF ContentInv
  <2>3. QED
    BY <2>1, <2>2, Zenon DEF CompletedInv, WaitedInv
<1>3. QED
  BY <1>1, <1>2, WatchedSpec, TypeAlways, SessionAlways, ContentAlways, WaitedAlways, PTL DEF MCSpec

LEMMA IndexAlways == Spec => []IndexInv
<1>1. Init => IndexInv
  BY DEF Init, Start, NoFiles, IndexInv
<1>2. TypeInv /\ IndexInv /\ [Next]_vars => IndexInv'
  BY IndexStep
<1>3. QED
  BY <1>1, <1>2, TypeAlways, PTL DEF Spec

(* As long as clients wait for the answer of a completion, or for its      *)
(* loss, a 2xx means the document is there and any other answer that       *)
(* nothing was created (but by a commit that raised late), whatever else   *)
(* runs, fails or dies.                                                    *)
THEOREM WaitingClientsAreTold == MCSpec => []WaitingClientIsTold
<1>1. WaitedInv => WaitingClientIsTold
  BY DEF WaitedInv, WaitInv, Waits, WaitingClientIsTold, AnswerTellsOutcome
<1>2. QED
  BY <1>1, WaitedAlways, PTL

(* Such a client gets one document of a session, however often it sends    *)
(* the completion again.                                                   *)
THEOREM WaitingClientsGetOne == MCSpec => []WaitingClientGetsOne
<1>1. WaitedInv => WaitingClientGetsOne
  BY DEF WaitedInv, WaitInv, WaitingClientGetsOne
<1>2. QED
  BY <1>1, WaitedAlways, PTL

(* And its completion is refused for its chunks only if one is missing:    *)
(* what was accepted has the sizes that add up, and no index out of range. *)
THEOREM CompletionsAreNotRefused ==
    ASSUME "chunk" \notin Overlaps
    PROVE  MCSpec => RefusedOnlyIfIncomplete
<1>1. ASSUME TypeInv, ContentInv, IndexInv, CopiesInv, Next PROVE RefusedForMissingChunk
  <2> SUFFICES ASSUME NEW r \in Request, request'[r].pc = "refused", At(r, "list") \/ At(r, "copy")
               PROVE  /\ At(r, "list") => \E i \in Wanted : part[request[r].upload][i] = None
                      /\ At(r, "copy") => request[r].at = ExpectedChunks /\ request[r].size = FileSize
    BY DEF RefusedForMissingChunk
  <2>1. /\ request \in [Request -> Fields] /\ StepFits(r) /\ Copies(r)
        /\ ExpectedChunks \in Nat \ {0} /\ Wanted \subseteq Chunk
    BY <1>1, Pieces DEF TypeInv, TypeOK, Fields, StepsOK, CopiesInv, Wanted, Chunk
  <2>2. request[r].upload \in Upload /\ request'[r] # request[r]
    BY <2>1 DEF StepFits, At
  <2>3. ChunkRequest(r) \/ CompleteRequest(r) \/ FileRequest(r) \/ CommitDocument(r) \/ CommitRaises(r)
    <3>1. ASSUME NEW u \in Upload, InitUpload(u) PROVE FALSE
      BY <2>2, <3>1 DEF InitUpload, MakeDirectory, CreateSession, CreateSessionRaises
    <3>2. ASSUME ProcessCrash PROVE FALSE
      BY <2>2, <3>2 DEF ProcessCrash, Start
    <3>3. ASSUME NEW s \in Request, s # r,
                 ChunkRequest(s) \/ CompleteRequest(s) \/ FileRequest(s) \/ CommitDocument(s) \/ CommitRaises(s)
          PROVE  FALSE
      BY <1>1, <2>2, <3>3, OthersWait
    <3>4. QED
      BY <1>1, <3>1, <3>2, <3>3 DEF Next
  <2>4. ListChunks(r) \/ CopyChunk(r) \/ StoreTarget(r)
    BY <2>3 DEF ChunkRequest, CompleteRequest, FileRequest, StartChunk, CheckChunk, OpenTemporary, WriteBlock,
       RefuseLong, RefuseWrongSize, PublishChunk, PublishRaises, Ended, StartComplete, CheckComplete,
       RemoveSessionFiles, StartFile, ReceiveFile, CommitDocument, CommitRaises, At
  <2>5. CASE ListChunks(r)
    <3>1. At(r, "list") /\ Listed(request[r].upload) # Wanted
      <4>1. ~Goto(r, "copy")
        BY <1>1, Moves
      <4>2. QED
        BY <2>5, <4>1 DEF ListChunks, Require
    <3>2. \A i \in Chunk : part[request[r].upload][i] # None => i \in Wanted
      BY <1>1, <2>2 DEF IndexInv
    <3>3. \E i \in Wanted : part[request[r].upload][i] = None
      BY <2>1, <3>1, <3>2 DEF Listed
    <3>4. QED
      BY <3>1, <3>3 DEF At
  <2>6. CASE CopyChunk(r)
    <3> DEFINE u == request[r].upload
               i == request[r].at
    <3>1. /\ i \in Wanted /\ part[u][i] # None /\ request[r].size = Copied(i)
      BY <2>1, <2>6 DEF CopyChunk, At, Copies, Wanted
    <3>2. extent[part[u][i]] = ExpectedSize(i)
      BY <1>1, <2>1, <2>2, <3>1 DEF ContentInv, FileInv, PartsWhole
    <3>3. request[r].size + extent[part[u][i]] = Copied(i + 1) /\ Copied(i + 1) <= FileSize
      BY <3>1, <3>2, PiecesAddUp
    <3>4. request[r].size + extent[part[u][i]] \in Nat
      BY <1>1, <2>1, <2>2, <3>1 DEF TypeInv, TypeOK
    <3>5. ~(request[r].size + extent[part[u][i]] > FileSize)
      BY <3>3, <3>4, UploadAssumption
    <3>6. PICK at, size, intact :
            request' = [request EXCEPT ![r].at = at, ![r].size = size, ![r].intact = intact]
      BY <2>6, <3>1, <3>5 DEF CopyChunk
    <3>7. request[r].pc = "copy" /\ request[r] \in Fields
      BY <2>1, <2>6 DEF CopyChunk, At
    <3>8. request'[r].pc = "copy"
      BY <2>1, <3>6, <3>7 DEF Fields
    <3>9. QED
      BY <3>8
  <2>7. CASE StoreTarget(r)
    <3>1. At(r, "copy") /\ request[r].at = ExpectedChunks
      BY <2>7 DEF StoreTarget
    <3>2. QED
      BY <2>1, <3>1 DEF Copies, Copied, At
  <2>8. QED
    BY <2>4, <2>5, <2>6, <2>7
<1>2. TypeInv /\ ContentInv /\ IndexInv /\ CompletedInv /\ [MCNext]_<<vars, overlapped>>
        => [overlapped' \/ RefusedForMissingChunk]_vars
  <2> SUFFICES ASSUME TypeInv, ContentInv, IndexInv, CompletedInv, MCNext, ~overlapped'
               PROVE  RefusedForMissingChunk
    BY Zenon
  <2>1. CopiesInv /\ Next
    BY Zenon DEF MCNext, CompletedInv
  <2>2. QED
    BY <1>1, <2>1
<1>3. QED
  BY <1>2, WatchedSpec, TypeAlways, ContentAlways, IndexAlways, CompletedAlways, PTL
  DEF MCSpec, RefusedOnlyIfIncomplete
=============================================================================
