------------------------- MODULE IngestionPipeline -------------------------
(***************************************************************************)
(* The asynchronous ingestion and deletion pipeline: HTTP handlers of      *)
(* main.py write the document and job tables and add messages to the Redis *)
(* stream rag:jobs; the workers of worker.py take messages from it, write  *)
(* the parsed file and the two retrieval backends (or clear them), and     *)
(* write the tables again.  Every round trip to a store is one action, so  *)
(* handlers and workers interleave between them.                           *)
(*                                                                         *)
(* Abstractions.  A query and the commit that follows it in one session    *)
(* are one step.  An error after a commit took effect is not modelled for  *)
(* PostgreSQL (it is for Redis XADD).  The pending-entries list of the     *)
(* consumer group is not read by any code, so only what dead processes     *)
(* leave there is kept, in lost.                                           *)
(***************************************************************************)
EXTENDS Naturals, Sequences, FiniteSets

CONSTANTS
    Document,    \* documents, uploaded and not yet ingested at the start
    Job,         \* job ids; as many requests as there are ids are accepted
    Worker,      \* worker processes (consumers of the group)
    Handler,     \* concurrent HTTP requests
    IngestMode,  \* the modes the ingest requests ask for
    MaxAttempts, \* settings.runtime.worker_max_attempts
    MaxChunks,   \* bound on the number of chunks a parse yields
    MaxFaults,   \* bound on failing operations
    MaxCrashes,  \* bound on processes that die
    QueueFaults, \* the ways XADD may go wrong
    None         \* no message, no document

ASSUME PipelineAssumption ==
    /\ MaxAttempts \in Nat \ {0}
    /\ MaxChunks \in Nat \ {0}
    /\ MaxFaults \in Nat
    /\ MaxCrashes \in Nat
    /\ IngestMode \subseteq {"milvus", "graph", "mg"}
    /\ QueueFaults \subseteq {"refused", "reply_lost", "duplicated"}

Backend == {"milvus", "neo4j"}

\* The backends a mode writes or clears.
ModeBackends == [milvus |-> {"milvus"}, graph |-> {"neo4j"}, mg |-> Backend]

Message == [job: Job, document: Document, operation: {"ingest", "delete"},
            mode: {"milvus", "graph", "mg"}, attempts: 0..MaxAttempts]

ASSUME NoneAssumption == None \notin Message /\ None \notin Document

VARIABLES
    doc,      \* knowledge_documents: status, backend_status, chunk_count
    job,      \* ingestion_jobs: document, status, attempts
    stream,   \* rag:jobs, the entries the group has not delivered yet
    dead,     \* rag:jobs:dead-letter
    audit,    \* audit_events about jobs
    chunks,   \* chunk indexes of a document that a backend holds
    original, \* documents whose uploaded file exists
    parsed,   \* documents whose parsed markdown file exists
    worker,   \* what each worker does, its message and its local variables
    handler,  \* what each request does and the message it is to send
    lost,     \* messages a process held when it died
    faults,   \* operations that failed so far
    crashes   \* processes that died so far

tables == <<doc, job, audit>>
queues == <<stream, dead>>
stores == <<chunks, original, parsed>>
bounds == <<lost, faults, crashes>>
vars == <<tables, queues, stores, worker, handler, bounds>>

-----------------------------------------------------------------------------
DocumentStatus == {"uploaded", "queued", "processing", "ready", "failed",
                   "delete_queued", "deleting", "delete_failed", "gone"}

\* "unused": the id is not given yet.  "gone": the row went with its document
\* (ON DELETE CASCADE).
JobStatus == {"unused", "queued", "processing", "succeeded", "failed", "gone"}

AuditEvent == {"requested", "enqueue_failed", "attempt_failed", "succeeded"}

WorkerStep == {"idle", "received", "marking", "parse", "insert", "publish",
               "clear", "unlink", "finish", "record", "reflect", "resend",
               "report", "ack"}

HandlerStep == {"idle", "mark", "create", "enqueue",
                "reject_job", "reject_document", "reject_audit"}

\* A worker at step pc with message m and nothing done about it yet.
Starting(pc, m) == [pc |-> pc, msg |-> m, indexed |-> FALSE, count |-> 0,
                    todo |-> {}, failed |-> FALSE]

IdleWorker == Starting("idle", None)

IdleHandler == [pc |-> "idle", msg |-> None]

Exists(d) == doc[d].status # "gone"
JobExists(j) == job[j].status \notin {"unused", "gone"}

\* update_document and update_job change the given fields, and return None,
\* which no caller looks at, when the row is not there.
UpdateDocument(d, row) == doc' = IF Exists(d) THEN [doc EXCEPT ![d] = row] ELSE doc
UpdateJob(j, row) == job' = IF JobExists(j) THEN [job EXCEPT ![j] = row] ELSE job

Event(j, event, attempts) == [job |-> j, event |-> event, attempts |-> attempts]

Init ==
    /\ doc = [d \in Document |-> [status |-> "uploaded", backends |-> {}, count |-> 0]]
    /\ job = [j \in Job |-> [document |-> None, status |-> "unused", attempts |-> 0]]
    /\ stream = <<>>
    /\ dead = {}
    /\ audit = {}
    /\ chunks = [d \in Document |-> [b \in Backend |-> {}]]
    /\ original = Document
    /\ parsed = {}
    /\ worker = [w \in Worker |-> IdleWorker]
    /\ handler = [h \in Handler |-> IdleHandler]
    /\ lost = {}
    /\ faults = 0
    /\ crashes = 0

Fault == faults < MaxFaults /\ faults' = faults + 1
NoFault == UNCHANGED faults

-----------------------------------------------------------------------------
(* HTTP handlers.                                                          *)

\* The request that handler h starts, under a job id nobody uses.
Accept(h, d, operation, mode) ==
    /\ handler[h].pc = "idle"
    /\ Exists(d)
    /\ \E j \in Job :
         /\ job[j].status = "unused"
         /\ \A g \in Handler : handler[g].msg # None => handler[g].msg.job # j
         /\ handler' = [handler EXCEPT ![h] = [pc |-> "mark",
              msg |-> [job |-> j, document |-> d, operation |-> operation,
                       mode |-> mode, attempts |-> 0]]]
    /\ UNCHANGED <<tables, queues, stores, worker, bounds>>

\* ingest_document refuses (409) and bulk_ingest_documents skips a document
\* with a task under way; a document that is being deleted passes.
AcceptIngest(h, d) ==
    /\ doc[d].status \notin {"queued", "processing", "delete_queued"}
    /\ \E mode \in IngestMode : Accept(h, d, "ingest", mode)

\* remove_document looks at no status.
AcceptDelete(h, d) == Accept(h, d, "delete", "mg")

\* bulk_remove_documents and remove_knowledge_base skip what is queued already.
AcceptBulkDelete(h, d) ==
    /\ doc[d].status # "delete_queued"
    /\ Accept(h, d, "delete", "mg")

\* The handler's update_document.  If the row went meanwhile the next call
\* subscripts None and the request ends with an error.
MarkDocument(h) ==
    LET m == handler[h].msg IN
    /\ handler[h].pc = "mark"
    /\ UpdateDocument(m.document, [doc[m.document] EXCEPT
         !.status = IF m.operation = "delete" THEN "delete_queued" ELSE "queued"])
    /\ handler' = [handler EXCEPT ![h] =
         IF Exists(m.document) THEN [@ EXCEPT !.pc = "create"] ELSE IdleHandler]
    /\ UNCHANGED <<job, audit, queues, stores, worker, bounds>>

\* create_job_with_audit; the foreign key refuses a job without a document.
CreateJob(h) ==
    LET m == handler[h].msg IN
    /\ handler[h].pc = "create"
    /\ IF Exists(m.document)
       THEN /\ job' = [job EXCEPT ![m.job] =
                 [document |-> m.document, status |-> "queued", attempts |-> 0]]
            /\ audit' = audit \cup {Event(m.job, "requested", 0)}
            /\ handler' = [handler EXCEPT ![h].pc = "enqueue"]
       ELSE /\ handler' = [handler EXCEPT ![h] = IdleHandler]
            /\ UNCHANGED <<job, audit>>
    /\ UNCHANGED <<doc, queues, stores, worker, bounds>>

Enqueue(h) ==
    /\ handler[h].pc = "enqueue"
    /\ stream' = Append(stream, handler[h].msg)
    /\ handler' = [handler EXCEPT ![h] = IdleHandler]
    /\ UNCHANGED <<tables, dead, stores, worker, bounds>>

\* XADD raises: it was refused, or it took effect and the reply was lost.
EnqueueRaises(h) ==
    /\ handler[h].pc = "enqueue"
    /\ \/ "refused" \in QueueFaults /\ UNCHANGED stream
       \/ "reply_lost" \in QueueFaults /\ stream' = Append(stream, handler[h].msg)
    /\ Fault
    /\ handler' = [handler EXCEPT ![h].pc = "reject_job"]
    /\ UNCHANGED <<tables, dead, stores, worker, lost, crashes>>

\* The client sent XADD again after a lost connection and it took effect twice.
EnqueueTwice(h) ==
    /\ handler[h].pc = "enqueue"
    /\ "duplicated" \in QueueFaults
    /\ Fault
    /\ stream' = stream \o <<handler[h].msg, handler[h].msg>>
    /\ handler' = [handler EXCEPT ![h] = IdleHandler]
    /\ UNCHANGED <<tables, dead, stores, worker, lost, crashes>>

\* Mutant of RejectJob: the job keeps its status.
RejectJobForgotten(h) ==
    /\ handler[h].pc = "reject_job"
    /\ handler' = [handler EXCEPT ![h].pc = "reject_document"]
    /\ UNCHANGED <<tables, queues, stores, worker, bounds>>

\* What the handler does when enqueue_job raised, three commits.
RejectJob(h) ==
    LET m == handler[h].msg IN
    /\ handler[h].pc = "reject_job"
    /\ UpdateJob(m.job, [job[m.job] EXCEPT !.status = "failed"])
    /\ handler' = [handler EXCEPT ![h].pc = "reject_document"]
    /\ UNCHANGED <<doc, audit, queues, stores, worker, bounds>>

\* Mutant of RejectDocument: the document keeps its status.
RejectDocumentForgotten(h) ==
    /\ handler[h].pc = "reject_document"
    /\ handler' = [handler EXCEPT ![h].pc = "reject_audit"]
    /\ UNCHANGED <<tables, queues, stores, worker, bounds>>

RejectDocument(h) ==
    LET m == handler[h].msg IN
    /\ handler[h].pc = "reject_document"
    /\ UpdateDocument(m.document, [doc[m.document] EXCEPT
         !.status = IF m.operation = "delete" THEN "delete_failed" ELSE "failed"])
    /\ handler' = [handler EXCEPT ![h].pc = "reject_audit"]
    /\ UNCHANGED <<job, audit, queues, stores, worker, bounds>>

RejectAudit(h) ==
    /\ handler[h].pc = "reject_audit"
    /\ audit' = audit \cup {Event(handler[h].msg.job, "enqueue_failed", 0)}
    /\ handler' = [handler EXCEPT ![h] = IdleHandler]
    /\ UNCHANGED <<doc, job, queues, stores, worker, bounds>>

HandlerCrash(h) ==
    /\ handler[h].pc # "idle"
    /\ crashes < MaxCrashes
    /\ crashes' = crashes + 1
    /\ lost' = lost \cup {handler[h].msg}
    /\ handler' = [handler EXCEPT ![h] = IdleHandler]
    /\ UNCHANGED <<tables, queues, stores, worker, faults>>

-----------------------------------------------------------------------------
(* Workers: process_message.                                               *)

\* Worker w is at step pc; its next step is next.
At(w, pc) == worker[w].pc = pc
Goto(w, next) == worker' = [worker EXCEPT ![w].pc = next]

\* Mutant of Receive: the entry is handed out and stays deliverable.
ReceiveKeeping(w) ==
    /\ At(w, "idle")
    /\ stream # <<>>
    /\ worker' = [worker EXCEPT ![w] = Starting("received", Head(stream))]
    /\ UNCHANGED <<tables, queues, stores, handler, bounds>>

\* run_worker: XREADGROUP with ">" hands out the next undelivered entry.
Receive(w) ==
    /\ At(w, "idle")
    /\ stream # <<>>
    /\ worker' = [worker EXCEPT ![w] = Starting("received", Head(stream))]
    /\ stream' = Tail(stream)
    /\ UNCHANGED <<tables, dead, stores, handler, bounds>>

\* The job is found and its document read: whether the row records indexed
\* chunks is decided here, from this copy, for the rest of the operation.
BeginJob(w) ==
    LET m == worker[w].msg
        row == doc[m.document] IN
    /\ At(w, "received")
    /\ JobExists(m.job) /\ job[m.job].status # "succeeded"
    /\ Exists(m.document)
    /\ UpdateJob(m.job, [job[m.job] EXCEPT !.status = "processing"])
    /\ worker' = [worker EXCEPT ![w] =
         [@ EXCEPT !.pc = "marking", !.indexed = row.count > 0 \/ row.backends # {}]]
    /\ UNCHANGED <<doc, audit, queues, stores, handler, bounds>>

\* A message of a job that succeeded is only acknowledged.
SkipJob(w) ==
    /\ At(w, "received")
    /\ job[worker[w].msg.job].status = "succeeded"
    /\ Goto(w, "ack")
    /\ UNCHANGED <<tables, queues, stores, handler, bounds>>

\* The job or document row is missing: RuntimeError.
MissingJob(w) ==
    LET m == worker[w].msg IN
    /\ At(w, "received")
    /\ ~JobExists(m.job) \/ (job[m.job].status # "succeeded" /\ ~Exists(m.document))
    /\ Goto(w, "record")
    /\ UNCHANGED <<tables, queues, stores, handler, bounds>>

\* Mutant of MarkProcessing: a deletion clears the backends of the last ingestion.
MarkProcessingNarrow(w) ==
    LET m == worker[w].msg IN
    /\ At(w, "marking")
    /\ UpdateDocument(m.document, [doc[m.document] EXCEPT
         !.status = IF m.operation = "delete" THEN "deleting" ELSE "processing"])
    /\ worker' = [worker EXCEPT ![w] =
         [@ EXCEPT !.todo = IF m.operation = "delete" THEN doc[m.document].backends ELSE {},
                   !.pc = IF m.operation = "ingest" THEN "parse"
                          ELSE IF worker[w].indexed THEN "clear" ELSE "unlink"]]
    /\ UNCHANGED <<job, audit, queues, stores, handler, bounds>>

\* update_document("processing" or "deleting"), then the operation starts.
MarkProcessing(w) ==
    LET m == worker[w].msg IN
    /\ At(w, "marking")
    /\ UpdateDocument(m.document, [doc[m.document] EXCEPT
         !.status = IF m.operation = "delete" THEN "deleting" ELSE "processing"])
    /\ worker' = [worker EXCEPT ![w] =
         [@ EXCEPT !.todo = IF m.operation = "delete" THEN ModeBackends[m.mode] ELSE {},
                   !.pc = IF m.operation = "ingest" THEN "parse"
                          ELSE IF worker[w].indexed THEN "clear" ELSE "unlink"]]
    /\ UNCHANGED <<job, audit, queues, stores, handler, bounds>>

\* clean_document_str and split_text: the parsed file is written, n chunks
\* result.  The number is the parser's: two parses of a file may differ.
Parse(w) ==
    LET m == worker[w].msg IN
    /\ At(w, "parse")
    /\ m.document \in original
    /\ parsed' = parsed \cup {m.document}
    /\ \E n \in 1..MaxChunks :
         worker' = [worker EXCEPT ![w] =
           [@ EXCEPT !.pc = "insert", !.count = n, !.todo = ModeBackends[m.mode]]]
    /\ UNCHANGED <<tables, queues, chunks, original, handler, bounds>>

\* Without the uploaded file every parser fails; otherwise it may fail, or
\* yield no chunk after the parsed file is written.
ParseRaises(w) ==
    LET m == worker[w].msg IN
    /\ At(w, "parse")
    /\ \/ m.document \notin original /\ UNCHANGED parsed /\ NoFault
       \/ m.document \in original /\ Fault /\ parsed' \in {parsed, parsed \cup {m.document}}
    /\ Goto(w, "record")
    /\ UNCHANGED <<tables, queues, chunks, original, handler, lost, crashes>>

\* Worker w is done with backend b: gather returns after the last one and
\* raises if any of them failed.
BackendDone(w, b, failed, next) ==
    LET left == worker[w].todo \ {b}
        anyFailed == worker[w].failed \/ failed IN
    worker' = [worker EXCEPT ![w] =
      [@ EXCEPT !.todo = left, !.failed = anyFailed,
                !.pc = IF left # {} THEN worker[w].pc
                       ELSE IF anyFailed THEN "record" ELSE next]]

\* Node ids depend only on document, version and index: an insert overwrites.
\* A failing insert leaves the first k chunks in place.
InsertBackend(w, b) ==
    LET d == worker[w].msg.document
        Written(k) == chunks' = [chunks EXCEPT ![d][b] = @ \cup 1..k] IN
    /\ At(w, "insert")
    /\ b \in worker[w].todo
    /\ \/ Written(worker[w].count) /\ BackendDone(w, b, FALSE, "publish") /\ NoFault
       \/ /\ \E k \in 0..worker[w].count : Written(k)
          /\ BackendDone(w, b, TRUE, "publish")
          /\ Fault
    /\ UNCHANGED <<tables, queues, original, parsed, handler, lost, crashes>>

\* Mutant of Publish: the row names every backend, whatever the mode.
PublishAll(w) ==
    /\ At(w, "publish")
    /\ UpdateDocument(worker[w].msg.document,
         [status |-> "ready", backends |-> Backend, count |-> worker[w].count])
    /\ Goto(w, "finish")
    /\ UNCHANGED <<job, audit, queues, stores, handler, bounds>>

\* _ingest_document after insert_service; nothing happens if the row is gone.
Publish(w) ==
    LET m == worker[w].msg IN
    /\ At(w, "publish")
    /\ UpdateDocument(m.document,
         [status |-> "ready", backends |-> ModeBackends[m.mode], count |-> worker[w].count])
    /\ Goto(w, "finish")
    /\ UNCHANGED <<job, audit, queues, stores, handler, bounds>>

\* delete_document_data on one backend; a failing call may have taken effect.
ClearBackend(w, b) ==
    LET d == worker[w].msg.document
        cleared == [chunks EXCEPT ![d][b] = {}] IN
    /\ At(w, "clear")
    /\ b \in worker[w].todo
    /\ \/ chunks' = cleared /\ BackendDone(w, b, FALSE, "unlink") /\ NoFault
       \/ chunks' \in {chunks, cleared} /\ BackendDone(w, b, TRUE, "unlink") /\ Fault
    /\ UNCHANGED <<tables, queues, original, parsed, handler, lost, crashes>>

\* Mutant of Unlink: the parsed file is forgotten.
UnlinkOriginal(w) ==
    /\ At(w, "unlink")
    /\ original' = original \ {worker[w].msg.document}
    /\ Goto(w, "finish")
    /\ UNCHANGED <<tables, queues, chunks, parsed, handler, bounds>>

\* remove_storage_path twice: the parsed file, then the uploaded one.
Unlink(w) ==
    LET d == worker[w].msg.document IN
    /\ At(w, "unlink")
    /\ \/ /\ parsed' = parsed \ {d} /\ original' = original \ {d}
          /\ Goto(w, "finish") /\ NoFault
       \/ /\ parsed' \in {parsed, parsed \ {d}} /\ UNCHANGED original
          /\ Goto(w, "record") /\ Fault
    /\ UNCHANGED <<tables, queues, chunks, handler, lost, crashes>>

\* The last transaction: the document goes with its jobs, or the job succeeded.
Finish(w) ==
    LET m == worker[w].msg
        attempts == m.attempts + 1 IN
    /\ At(w, "finish")
    /\ JobExists(m.job)
    /\ m.operation = "delete" => Exists(m.document)
    /\ IF m.operation = "delete"
       THEN /\ doc' = [doc EXCEPT ![m.document] =
                         [status |-> "gone", backends |-> {}, count |-> 0]]
            /\ job' = [j \in Job |-> IF JobExists(j) /\ job[j].document = m.document
                                     THEN [job[j] EXCEPT !.status = "gone"] ELSE job[j]]
       ELSE /\ job' = [job EXCEPT ![m.job].status = "succeeded",
                                  ![m.job].attempts = attempts]
            /\ UNCHANGED doc
    /\ audit' = audit \cup {Event(m.job, "succeeded", attempts)}
    /\ Goto(w, "ack")
    /\ UNCHANGED <<queues, stores, handler, bounds>>

MissingAtFinish(w) ==
    LET m == worker[w].msg IN
    /\ At(w, "finish")
    /\ ~JobExists(m.job) \/ (m.operation = "delete" /\ ~Exists(m.document))
    /\ Goto(w, "record")
    /\ UNCHANGED <<tables, queues, stores, handler, bounds>>

\* A statement of process_message raises before it has an effect.
DatabaseRaises(w) ==
    /\ worker[w].pc \in {"received", "marking", "publish", "finish"}
    /\ Fault
    /\ Goto(w, "record")
    /\ UNCHANGED <<tables, queues, stores, handler, lost, crashes>>

-----------------------------------------------------------------------------
(* Workers: _record_failure, which commits twice, sends and audits.        *)

\* The message of the next attempt, or of the dead letter.
Again(w) == [worker[w].msg EXCEPT !.attempts = @ + 1]

\* Mutant of Exhausted: one attempt too many.
ExhaustedLate(w) == worker[w].msg.attempts + 1 > MaxAttempts
Exhausted(w) == worker[w].msg.attempts + 1 >= MaxAttempts

\* Mutant of RecordFailure: the attempt is not counted in the row.
RecordFailureUncounted(w) ==
    LET j == worker[w].msg.job IN
    /\ At(w, "record")
    /\ UpdateJob(j, [job[j] EXCEPT !.status = IF Exhausted(w) THEN "failed" ELSE "queued"])
    /\ Goto(w, "reflect")
    /\ UNCHANGED <<doc, audit, queues, stores, handler, bounds>>

RecordFailure(w) ==
    LET m == Again(w) IN
    /\ At(w, "record")
    /\ UpdateJob(m.job, [job[m.job] EXCEPT
         !.status = IF Exhausted(w) THEN "failed" ELSE "queued", !.attempts = m.attempts])
    /\ Goto(w, "reflect")
    /\ UNCHANGED <<doc, audit, queues, stores, handler, bounds>>

\* Mutant of ReflectFailure: the document of the last attempt stays queued.
ReflectFailureQueued(w) ==
    LET m == worker[w].msg IN
    /\ At(w, "reflect")
    /\ UpdateDocument(m.document, [doc[m.document] EXCEPT
         !.status = IF m.operation = "delete" THEN "delete_queued" ELSE "queued"])
    /\ Goto(w, "resend")
    /\ UNCHANGED <<job, audit, queues, stores, handler, bounds>>

ReflectFailure(w) ==
    LET m == worker[w].msg
        delete == m.operation = "delete" IN
    /\ At(w, "reflect")
    /\ UpdateDocument(m.document, [doc[m.document] EXCEPT
         !.status = IF Exhausted(w) THEN IF delete THEN "delete_failed" ELSE "failed"
                    ELSE IF delete THEN "delete_queued" ELSE "queued"])
    /\ Goto(w, "resend")
    /\ UNCHANGED <<job, audit, queues, stores, handler, bounds>>

\* Mutants of Resend: it never sends a retry, or goes to XACK past the audit
\* event.
ResendForgotten(w) ==
    /\ At(w, "resend")
    /\ dead' = IF Exhausted(w) THEN dead \cup {Again(w)} ELSE dead
    /\ Goto(w, "report")
    /\ UNCHANGED <<tables, stream, stores, handler, bounds>>

ResendUnaudited(w) ==
    /\ At(w, "resend")
    /\ IF Exhausted(w)
       THEN dead' = dead \cup {Again(w)} /\ UNCHANGED stream
       ELSE stream' = Append(stream, Again(w)) /\ UNCHANGED dead
    /\ Goto(w, "ack")
    /\ UNCHANGED <<tables, stores, handler, bounds>>

\* To the dead letters, or back to the end of the stream.
Resend(w) ==
    /\ At(w, "resend")
    /\ IF Exhausted(w)
       THEN dead' = dead \cup {Again(w)} /\ UNCHANGED stream
       ELSE stream' = Append(stream, Again(w)) /\ UNCHANGED dead
    /\ Goto(w, "report")
    /\ UNCHANGED <<tables, stores, handler, bounds>>

ResendTwice(w) ==
    /\ At(w, "resend")
    /\ ~Exhausted(w)
    /\ "duplicated" \in QueueFaults
    /\ Fault
    /\ stream' = stream \o <<Again(w), Again(w)>>
    /\ Goto(w, "report")
    /\ UNCHANGED <<tables, dead, stores, handler, lost, crashes>>

ReportFailure(w) ==
    /\ At(w, "report")
    /\ audit' = audit \cup {Event(worker[w].msg.job, "attempt_failed", Again(w).attempts)}
    /\ Goto(w, "ack")
    /\ UNCHANGED <<doc, job, queues, stores, handler, bounds>>

\* XACK; the worker goes back to XREADGROUP.
Acknowledge(w) ==
    /\ At(w, "ack")
    /\ worker' = [worker EXCEPT ![w] = IdleWorker]
    /\ UNCHANGED <<tables, queues, stores, handler, bounds>>

\* The process dies (an exception of _record_failure included) and is started
\* again.  Its entry stays in the pending list, which no code reads.
WorkerCrash(w) ==
    /\ ~At(w, "idle")
    /\ crashes < MaxCrashes
    /\ crashes' = crashes + 1
    /\ lost' = lost \cup {worker[w].msg}
    /\ worker' = [worker EXCEPT ![w] = IdleWorker]
    /\ UNCHANGED <<tables, queues, stores, handler, faults>>

-----------------------------------------------------------------------------
HandlerStart(h) ==
    \E d \in Document : AcceptIngest(h, d) \/ AcceptDelete(h, d) \/ AcceptBulkDelete(h, d)

HandlerRuns(h) ==
    \/ MarkDocument(h)
    \/ CreateJob(h)
    \/ Enqueue(h)
    \/ EnqueueRaises(h)
    \/ EnqueueTwice(h)
    \/ RejectJob(h)
    \/ RejectDocument(h)
    \/ RejectAudit(h)

Operation(w) ==
    \/ Parse(w)
    \/ ParseRaises(w)
    \/ \E b \in Backend : InsertBackend(w, b) \/ ClearBackend(w, b)
    \/ Publish(w)
    \/ Unlink(w)

ProcessMessage(w) ==
    \/ BeginJob(w)
    \/ SkipJob(w)
    \/ MissingJob(w)
    \/ MarkProcessing(w)
    \/ Operation(w)
    \/ Finish(w)
    \/ MissingAtFinish(w)
    \/ DatabaseRaises(w)
    \/ RecordFailure(w)
    \/ ReflectFailure(w)
    \/ Resend(w)
    \/ ResendTwice(w)
    \/ ReportFailure(w)
    \/ Acknowledge(w)

WorkerRuns(w) == Receive(w) \/ ProcessMessage(w)

Next ==
    \/ \E h \in Handler : HandlerStart(h) \/ HandlerRuns(h) \/ HandlerCrash(h)
    \/ \E w \in Worker : WorkerRuns(w) \/ WorkerCrash(w)

Spec == Init /\ [][Next]_vars

\* A request under way and a running worker go on; nobody has to send a
\* request, and nothing has to fail or die.
Fairness ==
    /\ \A h \in Handler : WF_vars(HandlerRuns(h))
    /\ \A w \in Worker : WF_vars(WorkerRuns(w))

FairSpec == Spec /\ Fairness

-----------------------------------------------------------------------------
(* Type invariant.                                                         *)

TablesOK ==
    /\ doc \in [Document -> [status: DocumentStatus, backends: SUBSET Backend,
                             count: 0..MaxChunks]]
    /\ job \in [Job -> [document: Document \cup {None}, status: JobStatus,
                        attempts: 0..MaxAttempts]]
    /\ audit \subseteq [job: Job, event: AuditEvent, attempts: 0..MaxAttempts]

QueuesOK == stream \in Seq(Message) /\ dead \subseteq Message

StoresOK ==
    /\ chunks \in [Document -> [Backend -> SUBSET (1..MaxChunks)]]
    /\ original \subseteq Document
    /\ parsed \subseteq Document

WorkersOK ==
    /\ worker \in [Worker -> [pc: WorkerStep, msg: Message \cup {None}, indexed: BOOLEAN,
                              count: 0..MaxChunks, todo: SUBSET Backend, failed: BOOLEAN]]
    /\ \A w \in Worker : worker[w].msg = None <=> At(w, "idle")

HandlersOK ==
    /\ handler \in [Handler -> [pc: HandlerStep, msg: Message \cup {None}]]
    /\ \A h \in Handler : handler[h].msg = None <=> handler[h].pc = "idle"

BoundsOK ==
    /\ lost \subseteq Message
    /\ faults \in 0..MaxFaults
    /\ crashes \in 0..MaxCrashes

TypeOK == TablesOK /\ QueuesOK /\ StoresOK /\ WorkersOK /\ HandlersOK /\ BoundsOK

-----------------------------------------------------------------------------
(* Who still has to act on a message.                                      *)

\* Worker w has not yet settled the fate of its message: it is neither done
\* with it nor past the write that gave the job up.
Unsettled(w) ==
    /\ worker[w].pc \notin {"idle", "report", "ack"}
    /\ worker[w].pc \in {"reflect", "resend"} => ~Exhausted(w)

\* Worker w has still to write the status its document ends up with.
StatusDue(w) ==
    \/ worker[w].pc \in {"received", "marking", "parse", "insert", "publish",
                         "clear", "unlink", "record", "reflect"}
    \/ At(w, "finish") /\ worker[w].msg.operation = "delete"
    \/ At(w, "resend") /\ ~Exhausted(w)

Waiting(j) == \E i \in DOMAIN stream : stream[i].job = j
Worked(j) == \E w \in Worker : Unsettled(w) /\ worker[w].msg.job = j
Requested(j) ==
    \E h \in Handler : handler[h].pc \in {"enqueue", "reject_job"} /\ handler[h].msg.job = j
Lost(j) == \E m \in lost : m.job = j

(* No job is dropped silently: while the job table says a job is queued or *)
(* being processed, its message is in the stream, or a worker or a request *)
(* is still to act on it, or the process that held it died.                *)
ActiveJobIsCarried ==
    \A j \in Job : job[j].status \in {"queued", "processing"} =>
        Waiting(j) \/ Worked(j) \/ Requested(j) \/ Lost(j)

(* No document is locked out: ingest_document answers 409 while the status *)
(* is queued, processing or delete_queued, so somebody must still be going *)
(* to change it (or have died).                                            *)
BusyDocumentIsCarried ==
    \A d \in Document : doc[d].status \in {"queued", "processing", "delete_queued", "deleting"} =>
        \/ \E i \in DOMAIN stream : stream[i].document = d
        \/ \E w \in Worker : StatusDue(w) /\ worker[w].msg.document = d
        \/ \E h \in Handler : /\ handler[h].pc \in {"create", "enqueue", "reject_job", "reject_document"}
                              /\ handler[h].msg.document = d
        \/ \E m \in lost : m.document = d

(* A retry never runs beside the attempt it replaces: if XADD has no lost  *)
(* reply and no duplicate, the message of a job is at one place only, so   *)
(* no two workers execute one job, whatever fails or dies.                 *)
OneCarrierPerJob ==
    /\ \A i, k \in DOMAIN stream : stream[i].job = stream[k].job => i = k
    /\ \A w \in Worker : Unsettled(w) =>
         /\ ~Waiting(worker[w].msg.job)
         /\ \A v \in Worker : Unsettled(v) /\ worker[v].msg.job = worker[w].msg.job => v = w
    /\ \A h \in Handler : handler[h].pc # "idle" =>
         ~Waiting(handler[h].msg.job) /\ ~Worked(handler[h].msg.job)

(* With one worker, what the document page calls ready is in every backend *)
(* the row names, as many chunks as the row counts (_ingest_document).     *)
ReadyIsIndexed ==
    \A d \in Document : doc[d].status = "ready" =>
        \A b \in doc[d].backends : 1..doc[d].count \subseteq chunks[d][b]

(* With one worker, no file of a document outlives its row: the row goes   *)
(* in a later step than the files, and retries, crashes and requests that  *)
(* come in between do not bring a file back.                               *)
RemovedHasNoFile ==
    \A d \in Document : doc[d].status = "gone" => d \notin original \cup parsed

(* Nothing of a document stays retrievable once its row is gone: nobody    *)
(* could name it to delete it any more (_delete_document).                 *)
RemovedIsUnindexed ==
    \A d \in Document : doc[d].status = "gone" => \A b \in Backend : chunks[d][b] = {}

(* With one worker, a deletion is complete as long as nothing failed yet,  *)
(* whatever order ingestions of different modes and deletions come in.     *)
OrderlyRemovalIsComplete == faults = 0 /\ crashes = 0 => RemovedIsUnindexed

(* No message leaves the pending list before the outcome of its attempt is *)
(* in the audit trail: commits, sends and XACK come in the right order.    *)
AcknowledgedIsAudited ==
    [][\A w \in Worker : At(w, "ack") /\ ~At(w, "ack")' =>
         \E e \in audit :
            /\ e.job = worker[w].msg.job
            /\ \/ e.event = "succeeded"
               \/ e = Event(e.job, "attempt_failed", Again(w).attempts)]_vars

(* If no process dies, every requested job ends: succeeded, failed after   *)
(* its attempts, refused by the queue, or gone with its document.          *)
JobsSettle ==
    \A j \in Job : job[j].status \in {"queued", "processing"}
                     ~> job[j].status \in {"succeeded", "failed", "gone"}

(* If no process dies, no document stays locked for ever, whatever the     *)
(* requests and attempts that overlap write to its status.                 *)
DocumentsSettle ==
    \A d \in Document :
        []<>(doc[d].status \notin {"queued", "processing", "delete_queued", "deleting"})

-----------------------------------------------------------------------------
(* How a reader of the job table sees the jobs.                            *)
PhaseOf == [unused |-> "unrequested", queued |-> "open", processing |-> "open",
            succeeded |-> "succeeded", failed |-> "failed", gone |-> "removed"]

Ledger == INSTANCE JobLedger WITH
    owner <- [j \in Job |-> job[j].document],
    phase <- [j \in Job |-> PhaseOf[job[j].status]],
    tries <- [j \in Job |-> job[j].attempts]

(* The pipeline keeps the promise of the job table, with any number of     *)
(* workers, failures and crashes, if XADD has no lost reply and no         *)
(* duplicate: attempts count up by one and a closed job stays closed.      *)
ImplementsLedger == Ledger!Spec
=============================================================================
