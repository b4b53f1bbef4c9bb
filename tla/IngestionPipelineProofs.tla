----------------------- MODULE IngestionPipelineProofs -----------------------
(* Theorems of IngestionPipeline for every set of documents, jobs, workers *)
(* and requests, every bound and every kind of queue fault.                *)
EXTENDS IngestionPipeline, SequenceTheorems, TLAPS

(* Type correctness is not inductive: a retry counts its message up, so    *)
(* every message that may still be tried must be below the limit.          *)
Retriable(m) == m.attempts < MaxAttempts

StreamLive == \A i \in DOMAIN stream : Retriable(stream[i])
WorkersLive == \A w \in Worker : ~At(w, "idle") => Retriable(worker[w].msg)
HandlersLive == \A h \in Handler : handler[h].pc # "idle" => Retriable(handler[h].msg)

TypeInv == TypeOK /\ StreamLive /\ WorkersLive /\ HandlersLive

LEMMA InitType == Init => TypeInv
BY PipelineAssumption, NoneAssumption
   DEF Init, TypeInv, TypeOK, TablesOK, QueuesOK, StoresOK, WorkersOK, HandlersOK, BoundsOK,
       StreamLive, WorkersLive, HandlersLive, IdleWorker, Starting, IdleHandler, At, DocumentStatus,
       JobStatus, WorkerStep, HandlerStep, Backend

(* Adding a live message once or twice keeps the stream well typed and     *)
(* live; so does taking its head.                                          *)
LEMMA AddedOnce ==
  ASSUME QueuesOK, StreamLive, NEW m \in Message, Retriable(m), UNCHANGED dead,
         stream' = Append(stream, m)
  PROVE  QueuesOK' /\ StreamLive'
<1>1. /\ stream' \in Seq(Message) /\ DOMAIN stream' = 1..Len(stream)+1
      /\ \A i \in 1..Len(stream) : stream'[i] = stream[i]
      /\ stream'[Len(stream)+1] = m
  BY AppendProperties DEF QueuesOK
<1>2. DOMAIN stream = 1..Len(stream) /\ Len(stream) \in Nat
  BY DEF QueuesOK
<1> QED
  BY <1>1, <1>2 DEF QueuesOK, StreamLive, Retriable

LEMMA AddedTwice ==
  ASSUME QueuesOK, StreamLive, NEW m \in Message, Retriable(m), UNCHANGED dead,
         stream' = stream \o <<m, m>>
  PROVE  QueuesOK' /\ StreamLive'
<1>1. stream' \in Seq(Message) /\ DOMAIN stream' = 1..Len(stream)+2
  BY ConcatProperties DEF QueuesOK
<1>2. \A i \in 1..Len(stream)+2 : stream'[i] = IF i <= Len(stream) THEN stream[i] ELSE m
  BY ConcatProperties DEF QueuesOK
<1>3. DOMAIN stream = 1..Len(stream) /\ Len(stream) \in Nat
  BY DEF QueuesOK
<1> QED
  BY <1>1, <1>2, <1>3 DEF QueuesOK, StreamLive, Retriable

LEMMA AcceptType ==
  ASSUME TypeInv, NEW h \in Handler, NEW d \in Document,
         NEW mode \in {"milvus", "graph", "mg"}, NEW op \in {"ingest", "delete"},
         Accept(h, d, op, mode)
  PROVE  TypeInv'
<1> USE DEF TypeInv, TypeOK
<1>1. HandlersOK' /\ HandlersLive'
  <2> PICK j \in Job : handler' = [handler EXCEPT ![h] = [pc |-> "mark",
              msg |-> [job |-> j, document |-> d, operation |-> op,
                       mode |-> mode, attempts |-> 0]]]
    BY DEF Accept
  <2> DEFINE m == [job |-> j, document |-> d, operation |-> op, mode |-> mode, attempts |-> 0]
  <2>1. m \in Message /\ m.attempts = 0
    BY PipelineAssumption DEF Message
  <2> HIDE DEF m
  <2>2. handler' = [handler EXCEPT ![h] = [pc |-> "mark", msg |-> m]]
    BY DEF m
  <2> QED
    BY <2>1, <2>2, PipelineAssumption, NoneAssumption DEF HandlersOK, HandlersLive, HandlerStep, Retriable
<1>2. UNCHANGED <<tables, queues, stores, worker, bounds>>
  BY DEF Accept
<1> QED
  BY <1>1, <1>2 DEF tables, queues, stores, bounds, TablesOK, QueuesOK, StoresOK, WorkersOK, BoundsOK, StreamLive, WorkersLive, At

(* The message that a busy worker or request holds.                        *)
LEMMA HeldByHandler ==
  ASSUME TypeInv, NEW h \in Handler, handler[h].pc # "idle"
  PROVE  /\ handler[h].msg \in Message /\ handler[h].msg.job \in Job
         /\ handler[h].msg.document \in Document /\ Retriable(handler[h].msg)
BY NoneAssumption DEF TypeInv, TypeOK, HandlersOK, HandlersLive, Message

LEMMA HeldByWorker ==
  ASSUME TypeInv, NEW w \in Worker, ~At(w, "idle")
  PROVE  /\ worker[w].msg \in Message /\ worker[w].msg.job \in Job
         /\ worker[w].msg.document \in Document /\ worker[w].msg.attempts + 1 \in 1..MaxAttempts
         /\ Retriable(worker[w].msg)
<1>1. worker[w].msg \in Message /\ Retriable(worker[w].msg)
  BY NoneAssumption DEF TypeInv, TypeOK, WorkersOK, WorkersLive
<1> QED
  BY <1>1, PipelineAssumption DEF Message, Retriable

(* What a step leaves alone stays well typed.                              *)
LEMMA Untouched ==
  ASSUME TypeInv
  PROVE  /\ UNCHANGED tables => TablesOK'
         /\ UNCHANGED queues => QueuesOK' /\ StreamLive'
         /\ UNCHANGED stores => StoresOK'
         /\ UNCHANGED worker => WorkersOK' /\ WorkersLive'
         /\ UNCHANGED handler => HandlersOK' /\ HandlersLive'
         /\ UNCHANGED bounds => BoundsOK'
         /\ UNCHANGED <<lost, crashes>> /\ (Fault \/ NoFault) => BoundsOK'
BY PipelineAssumption
   DEF TypeInv, TypeOK, tables, queues, stores, bounds, TablesOK, QueuesOK, StoresOK, WorkersOK,
       WorkersLive, HandlersOK, HandlersLive, BoundsOK, StreamLive, At, Fault, NoFault

LEMMA HandlerType ==
  ASSUME TypeInv, NEW h \in Handler, HandlerRuns(h) \/ HandlerCrash(h)
  PROVE  TypeInv'
<1> DEFINE m == handler[h].msg
<1>1. /\ m \in Message /\ m.job \in Job /\ m.document \in Document /\ Retriable(m)
      /\ handler[h].pc # "idle"
  BY HeldByHandler
     DEF HandlerRuns, MarkDocument, CreateJob, Enqueue, EnqueueRaises, EnqueueTwice, RejectJob,
         RejectDocument, RejectAudit, HandlerCrash
<1>2. ASSUME \/ handler' = [handler EXCEPT ![h] = IdleHandler]
             \/ \E next \in HandlerStep \ {"idle"} : handler' = [handler EXCEPT ![h].pc = next]
      PROVE  HandlersOK' /\ HandlersLive'
  BY <1>1, <1>2, NoneAssumption DEF TypeInv, TypeOK, HandlersOK, HandlersLive, HandlerStep, IdleHandler
<1>3. CASE MarkDocument(h)
  <2>1. TablesOK'
    BY <1>1, <1>3 DEF TypeInv, TypeOK, MarkDocument, TablesOK, UpdateDocument, DocumentStatus
  <2>2. HandlersOK' /\ HandlersLive'
    BY <1>2, <1>3 DEF MarkDocument, HandlerStep
  <2> QED
    BY <1>3, <2>1, <2>2, Untouched DEF MarkDocument, TypeInv, TypeOK
<1>4. CASE CreateJob(h)
  <2>1. TablesOK'
    BY <1>1, <1>4, PipelineAssumption
       DEF TypeInv, TypeOK, CreateJob, TablesOK, JobStatus, Event, AuditEvent
  <2>2. HandlersOK' /\ HandlersLive'
    BY <1>2, <1>4 DEF CreateJob, HandlerStep
  <2> QED
    BY <1>4, <2>1, <2>2, Untouched DEF CreateJob, TypeInv, TypeOK
<1>5. CASE Enqueue(h) \/ EnqueueRaises(h) \/ EnqueueTwice(h)
  <2>1. QueuesOK' /\ StreamLive'
    BY <1>1, <1>5, AddedOnce, AddedTwice, Untouched
       DEF Enqueue, EnqueueRaises, EnqueueTwice, TypeInv, TypeOK, queues
  <2>2. HandlersOK' /\ HandlersLive'
    BY <1>2, <1>5 DEF Enqueue, EnqueueRaises, EnqueueTwice, HandlerStep
  <2>3. BoundsOK'
    BY <1>5, Untouched DEF Enqueue, EnqueueRaises, EnqueueTwice
  <2> QED
    BY <1>5, <2>1, <2>2, <2>3, Untouched DEF Enqueue, EnqueueRaises, EnqueueTwice, TypeInv, TypeOK
<1>6. CASE RejectJob(h) \/ RejectDocument(h) \/ RejectAudit(h)
  <2>1. TablesOK'
    <3>1. CASE RejectJob(h)
      BY <1>1, <3>1, PipelineAssumption DEF TypeInv, TypeOK, RejectJob, TablesOK, UpdateJob, JobStatus
    <3>2. CASE RejectDocument(h)
      BY <1>1, <3>2, PipelineAssumption
         DEF TypeInv, TypeOK, RejectDocument, TablesOK, UpdateDocument, DocumentStatus
    <3>3. CASE RejectAudit(h)
      BY <1>1, <3>3, PipelineAssumption
         DEF TypeInv, TypeOK, RejectAudit, TablesOK, Event, AuditEvent
    <3> QED
      BY <1>6, <3>1, <3>2, <3>3
  <2>2. HandlersOK' /\ HandlersLive'
    BY <1>2, <1>6 DEF RejectJob, RejectDocument, RejectAudit, HandlerStep
  <2> QED
    BY <1>6, <2>1, <2>2, Untouched DEF RejectJob, RejectDocument, RejectAudit, TypeInv, TypeOK
<1>7. CASE HandlerCrash(h)
  <2>1. BoundsOK'
    BY <1>1, <1>7, PipelineAssumption DEF TypeInv, TypeOK, HandlerCrash, BoundsOK
  <2> QED
    BY <1>2, <1>7, <2>1, Untouched DEF HandlerCrash, TypeInv, TypeOK
<1> QED
  BY <1>3, <1>4, <1>5, <1>6, <1>7 DEF HandlerRuns, HandlerCrash

WorkerRecord == [pc: WorkerStep, msg: Message \cup {None}, indexed: BOOLEAN,
                 count: 0..MaxChunks, todo: SUBSET Backend, failed: BOOLEAN]

(* A worker that becomes r, a well typed record with a live message, and a *)
(* worker that only goes on to another step.                               *)
LEMMA WorkerBecomes ==
  ASSUME TypeInv, NEW w \in Worker, NEW r \in WorkerRecord, worker' = [worker EXCEPT ![w] = r],
         r.msg = None <=> r.pc = "idle", r.pc # "idle" => Retriable(r.msg)
  PROVE  WorkersOK' /\ WorkersLive'
BY DEF TypeInv, TypeOK, WorkersOK, WorkersLive, At, WorkerRecord

LEMMA WorkerMoves ==
  ASSUME TypeInv, NEW w \in Worker, ~At(w, "idle"), NEW r \in WorkerRecord,
         worker' = [worker EXCEPT ![w] = r], r.msg = worker[w].msg, r.pc # "idle"
  PROVE  WorkersOK' /\ WorkersLive'
BY WorkerBecomes, HeldByWorker, NoneAssumption

LEMMA WorkerGoes ==
  ASSUME TypeInv, NEW w \in Worker, ~At(w, "idle"),
         NEW next \in WorkerStep \ {"idle"}, Goto(w, next)
  PROVE  WorkersOK' /\ WorkersLive'
BY DEF TypeInv, TypeOK, WorkersOK, WorkersLive, At, Goto

LEMMA WorkerRests ==
  ASSUME TypeInv, NEW w \in Worker, worker' = [worker EXCEPT ![w] = IdleWorker]
  PROVE  WorkersOK' /\ WorkersLive'
BY PipelineAssumption
   DEF TypeInv, TypeOK, WorkersOK, WorkersLive, At, IdleWorker, Starting, WorkerStep, Backend

LEMMA ModesType == \A mode \in {"milvus", "graph", "mg"} : ModeBackends[mode] \subseteq Backend
BY DEF ModeBackends, Backend

LEMMA ReceiveType ==
  ASSUME TypeInv, NEW w \in Worker, Receive(w)
  PROVE  TypeInv'
<1>1. /\ Head(stream) \in Message /\ Retriable(Head(stream))
      /\ QueuesOK' /\ StreamLive'
  BY HeadTailProperties DEF Receive, TypeInv, TypeOK, QueuesOK, StreamLive, Retriable
<1>2. WorkersOK' /\ WorkersLive'
  <2>1. Starting("received", Head(stream)) \in WorkerRecord
    BY <1>1, PipelineAssumption DEF Starting, WorkerRecord, WorkerStep
  <2> QED
    BY <1>1, <2>1, WorkerBecomes, NoneAssumption DEF Receive, Starting
<1> QED
  BY <1>1, <1>2, Untouched DEF Receive, TypeInv, TypeOK

LEMMA BackendDoneType ==
  ASSUME TypeInv, NEW w \in Worker, ~At(w, "idle"), NEW b \in Backend, NEW failed \in BOOLEAN,
         NEW next \in {"publish", "unlink"}, BackendDone(w, b, failed, next)
  PROVE  WorkersOK' /\ WorkersLive'
<1> DEFINE left == worker[w].todo \ {b}
           anyFailed == worker[w].failed \/ failed
           r == [worker[w] EXCEPT !.todo = left, !.failed = anyFailed,
                  !.pc = IF left # {} THEN worker[w].pc
                         ELSE IF anyFailed THEN "record" ELSE next]
<1>1. worker[w] \in WorkerRecord
  BY DEF TypeInv, TypeOK, WorkersOK, WorkerRecord
<1>2. r \in WorkerRecord /\ r.msg = worker[w].msg /\ r.pc # "idle"
  BY <1>1 DEF WorkerRecord, WorkerStep, At
<1>3. worker' = [worker EXCEPT ![w] = r]
  BY DEF BackendDone
<1> HIDE DEF r
<1> QED
  BY <1>2, <1>3, WorkerMoves

LEMMA OperationType ==
  ASSUME TypeInv, NEW w \in Worker, Operation(w)
  PROVE  TypeInv'
<1> DEFINE m == worker[w].msg
<1>1. /\ m \in Message /\ m.job \in Job /\ m.document \in Document
      /\ m.mode \in {"milvus", "graph", "mg"} /\ ~At(w, "idle")
  BY HeldByWorker
     DEF Operation, Parse, ParseRaises, InsertBackend, ClearBackend, Publish, Unlink, At, Message
<1>2. CASE Parse(w)
  <2>1. WorkersOK' /\ WorkersLive'
    <3> PICK n \in 1..MaxChunks : worker' = [worker EXCEPT ![w] =
           [@ EXCEPT !.pc = "insert", !.count = n, !.todo = ModeBackends[m.mode]]]
      BY <1>2 DEF Parse
    <3> DEFINE r == [worker[w] EXCEPT !.pc = "insert", !.count = n, !.todo = ModeBackends[m.mode]]
    <3>1. worker[w] \in WorkerRecord /\ n \in 0..MaxChunks
      BY PipelineAssumption DEF TypeInv, TypeOK, WorkersOK, WorkerRecord
    <3> HIDE DEF m
    <3>2. ModeBackends[m.mode] \subseteq Backend
      BY <1>1, ModesType
    <3>3. r \in WorkerRecord /\ r.msg = worker[w].msg /\ r.pc # "idle"
      BY <3>1, <3>2 DEF WorkerRecord, WorkerStep
    <3>4. worker' = [worker EXCEPT ![w] = r]
      OBVIOUS
    <3> HIDE DEF r
    <3> QED
      BY <1>1, <3>3, <3>4, WorkerMoves
  <2>2. StoresOK'
    BY <1>1, <1>2 DEF Parse, TypeInv, TypeOK, StoresOK
  <2> QED
    BY <1>2, <2>1, <2>2, Untouched DEF Parse, TypeInv, TypeOK
<1>3. CASE ParseRaises(w)
  <2>1. StoresOK' /\ BoundsOK'
    BY <1>1, <1>3, Untouched DEF ParseRaises, TypeInv, TypeOK, StoresOK
  <2> QED
    BY <1>1, <1>3, <2>1, WorkerGoes, Untouched DEF ParseRaises, TypeInv, TypeOK, WorkerStep
<1>4. ASSUME NEW b \in Backend, InsertBackend(w, b) PROVE TypeInv'
  <2>1. worker[w].count \in 0..MaxChunks
    BY DEF TypeInv, TypeOK, WorkersOK
  <2>2. PICK k \in 0..worker[w].count : chunks' = [chunks EXCEPT ![m.document][b] = @ \cup 1..k]
    <3>1. worker[w].count \in 0..worker[w].count
      BY <2>1, PipelineAssumption
    <3> QED
      BY <1>4, <3>1 DEF InsertBackend
  <2>3. 1..k \subseteq 1..MaxChunks
    BY <2>1, PipelineAssumption
  <2>4. StoresOK'
    <3>1. chunks' \in [Document -> [Backend -> SUBSET (1..MaxChunks)]]
      BY <1>1, <2>2, <2>3 DEF TypeInv, TypeOK, StoresOK
    <3> QED
      BY <1>4, <3>1 DEF InsertBackend, TypeInv, TypeOK, StoresOK
  <2>5. WorkersOK' /\ WorkersLive'
    BY <1>1, <1>4, BackendDoneType DEF InsertBackend
  <2>6. BoundsOK'
    BY <1>4, Untouched DEF InsertBackend
  <2> QED
    BY <1>4, <2>4, <2>5, <2>6, Untouched DEF InsertBackend, TypeInv, TypeOK
<1>5. ASSUME NEW b \in Backend, ClearBackend(w, b) PROVE TypeInv'
  <2>1. StoresOK'
    <3>1. \/ UNCHANGED chunks
          \/ chunks' = [chunks EXCEPT ![m.document][b] = {}]
      BY <1>5 DEF ClearBackend
    <3> QED
      BY <1>1, <1>5, <3>1 DEF ClearBackend, TypeInv, TypeOK, StoresOK
  <2>2. WorkersOK' /\ WorkersLive'
    BY <1>1, <1>5, BackendDoneType DEF ClearBackend
  <2>3. BoundsOK'
    BY <1>5, Untouched DEF ClearBackend
  <2> QED
    BY <1>5, <2>1, <2>2, <2>3, Untouched DEF ClearBackend, TypeInv, TypeOK
<1>6. CASE Publish(w)
  <2>1. TablesOK'
    BY <1>1, <1>6, ModesType
       DEF Publish, UpdateDocument, TypeInv, TypeOK, TablesOK, WorkersOK, DocumentStatus
  <2> QED
    BY <1>1, <1>6, <2>1, WorkerGoes, Untouched DEF Publish, TypeInv, TypeOK, WorkerStep
<1>7. CASE Unlink(w)
  <2>1. StoresOK' /\ BoundsOK'
    BY <1>1, <1>7, Untouched DEF Unlink, TypeInv, TypeOK, StoresOK
  <2>2. WorkersOK' /\ WorkersLive'
    BY <1>1, <1>7, WorkerGoes DEF Unlink, WorkerStep
  <2> QED
    BY <1>7, <2>1, <2>2, Untouched DEF Unlink, TypeInv, TypeOK
<1> QED
  BY <1>2, <1>3, <1>4, <1>5, <1>6, <1>7 DEF Operation

LEMMA BeginType ==
  ASSUME TypeInv, NEW w \in Worker, BeginJob(w) \/ MarkProcessing(w)
  PROVE  TypeInv'
<1> DEFINE m == worker[w].msg
<1>1. /\ m \in Message /\ m.job \in Job /\ m.document \in Document
      /\ m.mode \in {"milvus", "graph", "mg"} /\ ~At(w, "idle")
  BY HeldByWorker DEF BeginJob, MarkProcessing, At, Message
<1>2. worker[w] \in WorkerRecord
  BY DEF TypeInv, TypeOK, WorkersOK, WorkerRecord
<1>3. CASE BeginJob(w)
  <2> DEFINE r == [worker[w] EXCEPT !.pc = "marking",
                    !.indexed = doc[m.document].count > 0 \/ doc[m.document].backends # {}]
  <2>1. TablesOK'
    BY <1>1, <1>3 DEF BeginJob, UpdateJob, TypeInv, TypeOK, TablesOK, JobStatus
  <2>2. r \in WorkerRecord /\ r.msg = worker[w].msg /\ r.pc # "idle"
    BY <1>2 DEF WorkerRecord, WorkerStep
  <2>3. worker' = [worker EXCEPT ![w] = r]
    BY <1>3 DEF BeginJob
  <2> HIDE DEF r
  <2> QED
    BY <1>1, <1>3, <2>1, <2>2, <2>3, WorkerMoves, Untouched DEF BeginJob, TypeInv, TypeOK
<1>4. CASE MarkProcessing(w)
  <2> DEFINE todo == IF m.operation = "delete" THEN ModeBackends[m.mode] ELSE {}
             next == IF m.operation = "ingest" THEN "parse"
                     ELSE IF worker[w].indexed THEN "clear" ELSE "unlink"
             r == [worker[w] EXCEPT !.todo = todo, !.pc = next]
  <2>1. TablesOK'
    BY <1>1, <1>4 DEF MarkProcessing, UpdateDocument, TypeInv, TypeOK, TablesOK, DocumentStatus
  <2>2. worker' = [worker EXCEPT ![w] = r]
    BY <1>4 DEF MarkProcessing
  <2>3. todo \subseteq Backend /\ next \in WorkerStep \ {"idle"}
    BY <1>1, ModesType DEF WorkerStep
  <2> HIDE DEF todo, next
  <2>4. r \in WorkerRecord /\ r.msg = worker[w].msg /\ r.pc # "idle"
    BY <1>2, <2>3 DEF WorkerRecord, WorkerStep
  <2> HIDE DEF r
  <2> QED
    BY <1>1, <1>4, <2>1, <2>2, <2>4, WorkerMoves, Untouched DEF MarkProcessing, TypeInv, TypeOK
<1> QED
  BY <1>3, <1>4

LEMMA OutcomeType ==
  ASSUME TypeInv, NEW w \in Worker,
         \/ SkipJob(w) \/ MissingJob(w) \/ Finish(w) \/ MissingAtFinish(w) \/ DatabaseRaises(w)
         \/ RecordFailure(w) \/ ReflectFailure(w) \/ Resend(w) \/ ResendTwice(w)
         \/ ReportFailure(w) \/ Acknowledge(w) \/ WorkerCrash(w)
  PROVE  TypeInv'
<1> DEFINE m == worker[w].msg
<1>1. /\ m \in Message /\ m.job \in Job /\ m.document \in Document /\ ~At(w, "idle")
      /\ m.attempts + 1 \in 0..MaxAttempts /\ m.attempts + 1 = Again(w).attempts
      /\ Again(w).job \in Job /\ Again(w) \in Message /\ (~Exhausted(w) => Retriable(Again(w)))
  <2>1. ~At(w, "idle")
    BY DEF SkipJob, MissingJob, Finish, MissingAtFinish, DatabaseRaises, RecordFailure,
           ReflectFailure, Resend, ResendTwice, ReportFailure, Acknowledge, WorkerCrash, At
  <2>2. m \in Message /\ m.attempts + 1 \in 0..MaxAttempts /\ m.attempts \in Nat
    BY <2>1, HeldByWorker, PipelineAssumption DEF Message
  <2> QED
    BY <2>1, <2>2, PipelineAssumption DEF Again, Exhausted, Retriable, Message
<1>2. CASE SkipJob(w) \/ MissingJob(w) \/ MissingAtFinish(w) \/ DatabaseRaises(w)
  <2>1. PICK next \in {"ack", "record"} : Goto(w, next)
    BY <1>2 DEF SkipJob, MissingJob, MissingAtFinish, DatabaseRaises
  <2>2. WorkersOK' /\ WorkersLive'
    BY <1>1, <2>1, WorkerGoes DEF WorkerStep
  <2>3. BoundsOK'
    BY <1>2, Untouched DEF SkipJob, MissingJob, MissingAtFinish, DatabaseRaises
  <2> QED
    BY <1>2, <2>2, <2>3, Untouched
       DEF SkipJob, MissingJob, MissingAtFinish, DatabaseRaises, TypeInv, TypeOK
<1>3. CASE Finish(w)
  <2>1. doc' \in [Document -> [status: DocumentStatus, backends: SUBSET Backend, count: 0..MaxChunks]]
    BY <1>1, <1>3, PipelineAssumption DEF Finish, TypeInv, TypeOK, TablesOK, DocumentStatus
  <2>2. job' \in [Job -> [document: Document \cup {None}, status: JobStatus, attempts: 0..MaxAttempts]]
    BY <1>1, <1>3 DEF Finish, TypeInv, TypeOK, TablesOK, JobStatus
  <2>3. audit' \subseteq [job: Job, event: AuditEvent, attempts: 0..MaxAttempts]
    BY <1>1, <1>3 DEF Finish, TypeInv, TypeOK, TablesOK, Event, AuditEvent
  <2>4. WorkersOK' /\ WorkersLive'
    BY <1>1, <1>3, WorkerGoes DEF Finish, WorkerStep
  <2> QED
    BY <1>3, <2>1, <2>2, <2>3, <2>4, Untouched DEF Finish, TypeInv, TypeOK, TablesOK
<1>4. CASE RecordFailure(w) \/ ReflectFailure(w)
  <2>1. ASSUME RecordFailure(w) PROVE TablesOK'
    <3>1. Again(w).job \in Job /\ Again(w).attempts \in 0..MaxAttempts
      BY <1>1
    <3>2. PICK row : UpdateJob(Again(w).job, row) /\ row =
            [job[Again(w).job] EXCEPT !.status = IF Exhausted(w) THEN "failed" ELSE "queued",
                                      !.attempts = Again(w).attempts]
      BY <2>1 DEF RecordFailure
    <3>3. row \in [document: Document \cup {None}, status: JobStatus, attempts: 0..MaxAttempts]
      BY <3>1, <3>2 DEF TypeInv, TypeOK, TablesOK, JobStatus
    <3> QED
      BY <2>1, <3>1, <3>2, <3>3 DEF RecordFailure, UpdateJob, TypeInv, TypeOK, TablesOK
  <2>2. ASSUME ReflectFailure(w) PROVE TablesOK'
    <3>1. PICK status \in DocumentStatus :
            UpdateDocument(m.document, [doc[m.document] EXCEPT !.status = status])
      BY <2>2 DEF ReflectFailure, DocumentStatus
    <3>2. doc' \in [Document -> [status: DocumentStatus, backends: SUBSET Backend, count: 0..MaxChunks]]
      BY <1>1, <3>1 DEF UpdateDocument, TypeInv, TypeOK, TablesOK
    <3> QED
      BY <2>2, <3>2 DEF ReflectFailure, TypeInv, TypeOK, TablesOK
  <2>3. WorkersOK' /\ WorkersLive'
    BY <1>1, <1>4, WorkerGoes DEF RecordFailure, ReflectFailure, WorkerStep
  <2> QED
    BY <1>4, <2>1, <2>2, <2>3, Untouched DEF RecordFailure, ReflectFailure, TypeInv, TypeOK
<1>5. CASE Resend(w) \/ ResendTwice(w)
  <2>1. QueuesOK' /\ StreamLive'
    <3>1. CASE Exhausted(w)
      BY <1>1, <1>5, <3>1 DEF Resend, ResendTwice, TypeInv, TypeOK, QueuesOK, StreamLive
    <3>2. CASE ~Exhausted(w)
      BY <1>1, <1>5, <3>2, AddedOnce, AddedTwice DEF Resend, ResendTwice, TypeInv, TypeOK
    <3> QED
      BY <3>1, <3>2
  <2>2. WorkersOK' /\ WorkersLive'
    BY <1>1, <1>5, WorkerGoes DEF Resend, ResendTwice, WorkerStep
  <2>3. BoundsOK'
    BY <1>5, Untouched DEF Resend, ResendTwice
  <2> QED
    BY <1>5, <2>1, <2>2, <2>3, Untouched DEF Resend, ResendTwice, TypeInv, TypeOK
<1>6. CASE ReportFailure(w)
  <2>1. TablesOK'
    BY <1>1, <1>6 DEF ReportFailure, TypeInv, TypeOK, TablesOK, Event, AuditEvent
  <2> QED
    BY <1>1, <1>6, <2>1, WorkerGoes, Untouched DEF ReportFailure, WorkerStep, TypeInv, TypeOK
<1>7. CASE Acknowledge(w) \/ WorkerCrash(w)
  <2>1. BoundsOK'
    BY <1>1, <1>7, Untouched, PipelineAssumption DEF Acknowledge, WorkerCrash, TypeInv, TypeOK, BoundsOK
  <2> QED
    BY <1>7, <2>1, WorkerRests, Untouched DEF Acknowledge, WorkerCrash, TypeInv, TypeOK
<1> QED
  BY <1>2, <1>3, <1>4, <1>5, <1>6, <1>7

LEMMA NextType == TypeInv /\ [Next]_vars => TypeInv'
<1> SUFFICES ASSUME TypeInv, [Next]_vars PROVE TypeInv'
  OBVIOUS
<1>1. ASSUME NEW h \in Handler, HandlerStart(h) PROVE TypeInv'
  BY <1>1, AcceptType, PipelineAssumption
     DEF HandlerStart, AcceptIngest, AcceptDelete, AcceptBulkDelete
<1>2. ASSUME NEW w \in Worker, WorkerRuns(w) \/ WorkerCrash(w) PROVE TypeInv'
  BY <1>2, ReceiveType, BeginType, OperationType, OutcomeType DEF WorkerRuns, ProcessMessage
<1>3. CASE UNCHANGED vars
  BY <1>3, Untouched DEF vars, TypeInv, TypeOK
<1> QED
  BY <1>1, <1>2, <1>3, HandlerType DEF Next

(* Every variable keeps its type, in particular no message is ever tried   *)
(* more than MaxAttempts times, whatever fails, dies or is duplicated.     *)
THEOREM TypeCorrect == Spec => []TypeOK
<1>1. Spec => []TypeInv
  BY InitType, NextType, PTL DEF Spec
<1>2. TypeInv => TypeOK
  BY DEF TypeInv
<1> QED
  BY <1>1, <1>2, PTL
-----------------------------------------------------------------------------
(* No job is dropped and none is carried twice: theorems about the places  *)
(* a message may be at.                                                    *)
(* What makes it inductive: the message of a job names the document its    *)
(* row names, so the deletion that ends a job removes that very job; and a *)
(* request holds a job id nobody else holds until it creates the row.      *)
Owned(m) == job[m.job].status # "unused" /\ job[m.job].document = m.document

StreamOwned == \A i \in DOMAIN stream : Owned(stream[i])
WorkersOwned == \A w \in Worker : ~At(w, "idle") => Owned(worker[w].msg)
HandlersOwned ==
    \A h \in Handler :
      /\ handler[h].pc \notin {"idle", "mark", "create"} => Owned(handler[h].msg)
      /\ handler[h].pc \in {"mark", "create"} => job[handler[h].msg.job].status = "unused"
HandlersApart ==
    \A g, h \in Handler : g # h /\ handler[g].pc # "idle" /\ handler[h].pc # "idle"
        => handler[g].msg.job # handler[h].msg.job

OwnedInv == StreamOwned /\ WorkersOwned /\ HandlersOwned /\ HandlersApart

-----------------------------------------------------------------------------
(* What a step does to the job table, and where the messages go.           *)

\* A row, once created, stays and keeps its document.
RowsKept ==
    \A j \in Job :
      /\ job[j].status = "unused" => job'[j] = job[j]
      /\ job[j].status # "unused" =>
           job'[j].status # "unused" /\ job'[j].document = job[j].document

\* Worker w goes on with its message, or is done with it.
Advances(w) ==
    \E r \in WorkerRecord :
      /\ worker' = [worker EXCEPT ![w] = r]
      /\ r = IdleWorker \/ (r.msg = worker[w].msg /\ r.pc # "idle")

\* A step of w inside process_message that sends nothing.
Works(w) ==
    \/ BeginJob(w) \/ SkipJob(w) \/ MissingJob(w) \/ MarkProcessing(w) \/ Operation(w)
    \/ Finish(w) \/ MissingAtFinish(w) \/ DatabaseRaises(w) \/ RecordFailure(w)
    \/ ReflectFailure(w) \/ ReportFailure(w) \/ Acknowledge(w)

Sends(w) == Resend(w) \/ ResendTwice(w)

Active(j) == job[j].status \in {"queued", "processing"}

(* A record of the job table that a step writes.                           *)
LEMMA RowUpdated ==
  ASSUME TypeInv, NEW j \in Job, NEW row, UpdateJob(j, row),
         row.document = job[j].document, row.status # "unused"
  PROVE  RowsKept
BY DEF TypeInv, TypeOK, TablesOK, UpdateJob, RowsKept, JobExists

LEMMA WorkerAdvances ==
  ASSUME TypeInv, NEW w \in Worker, Works(w) \/ Sends(w) \/ WorkerCrash(w)
  PROVE  Advances(w) /\ ~At(w, "idle") /\ worker[w].msg \in Message
<1> DEFINE m == worker[w].msg
<1>1. ~At(w, "idle") /\ m \in Message
  <2>1. ~At(w, "idle")
    BY DEF Works, Sends, BeginJob, SkipJob, MissingJob, MarkProcessing, Operation, Parse, ParseRaises,
           InsertBackend, ClearBackend, Publish, Unlink, Finish, MissingAtFinish, DatabaseRaises,
           RecordFailure, ReflectFailure, Resend, ResendTwice, ReportFailure, Acknowledge,
           WorkerCrash, At
  <2> QED
    BY <2>1, HeldByWorker
<1>2. TypeInv' /\ worker[w] \in WorkerRecord
  BY BeginType, OperationType, OutcomeType
     DEF Works, Sends, TypeInv, TypeOK, WorkersOK, WorkerRecord
<1>3. worker'[w] \in WorkerRecord /\ DOMAIN worker = Worker /\ w \in Worker
  BY <1>2 DEF TypeInv, TypeOK, WorkersOK, WorkerRecord
<1> DEFINE Goes == /\ worker' = [worker EXCEPT ![w] = worker'[w]]
                   /\ \/ worker'[w] = IdleWorker
                      \/ worker'[w].msg = worker[w].msg /\ worker'[w].pc # "idle"
<1>4. ASSUME NEW r, worker' = [worker EXCEPT ![w] = r],
             r = IdleWorker \/ (r.msg = worker[w].msg /\ r.pc # "idle")
      PROVE  Goes
  BY <1>3, <1>4
<1> HIDE DEF Goes
<1>5. ASSUME NEW next \in WorkerStep \ {"idle"}, Goto(w, next) PROVE Goes
  <2>1. worker' = [worker EXCEPT ![w] = [worker[w] EXCEPT !.pc = next]]
    BY <1>5 DEF Goto
  <2>2. [worker[w] EXCEPT !.pc = next].msg = worker[w].msg /\ [worker[w] EXCEPT !.pc = next].pc # "idle"
    BY <1>2, <1>5 DEF WorkerRecord
  <2> QED
    BY <2>1, <2>2, <1>4
<1>6. ASSUME NEW b, NEW failed, NEW next \in {"publish", "unlink"}, BackendDone(w, b, failed, next)
      PROVE  Goes
  <2> DEFINE left == worker[w].todo \ {b}
             anyFailed == worker[w].failed \/ failed
             pc == IF left # {} THEN worker[w].pc ELSE IF anyFailed THEN "record" ELSE next
             r == [worker[w] EXCEPT !.todo = left, !.failed = anyFailed, !.pc = pc]
  <2>1. worker' = [worker EXCEPT ![w] = r]
    BY <1>6 DEF BackendDone
  <2>2. pc # "idle"
    BY <1>1 DEF At
  <2> HIDE DEF pc
  <2>3. r.msg = worker[w].msg /\ r.pc # "idle"
    BY <1>2, <2>2 DEF WorkerRecord
  <2> HIDE DEF r
  <2> QED
    BY <2>1, <2>3, <1>4
<1>7. ASSUME BeginJob(w) PROVE Goes
  <2> DEFINE r == [worker[w] EXCEPT !.pc = "marking",
                    !.indexed = doc[m.document].count > 0 \/ doc[m.document].backends # {}]
  <2>1. worker' = [worker EXCEPT ![w] = r] /\ r.msg = worker[w].msg /\ r.pc # "idle"
    BY <1>2, <1>7 DEF BeginJob, WorkerRecord
  <2> HIDE DEF r
  <2> QED
    BY <2>1, <1>4
<1>8. ASSUME MarkProcessing(w) PROVE Goes
  <2> DEFINE next == IF m.operation = "ingest" THEN "parse"
                     ELSE IF worker[w].indexed THEN "clear" ELSE "unlink"
             todo == IF m.operation = "delete" THEN ModeBackends[m.mode] ELSE {}
             r == [worker[w] EXCEPT !.todo = todo, !.pc = next]
  <2>1. worker' = [worker EXCEPT ![w] = r] /\ next # "idle"
    BY <1>8 DEF MarkProcessing
  <2> HIDE DEF next, todo
  <2>2. r.msg = worker[w].msg /\ r.pc # "idle"
    BY <1>2, <2>1 DEF WorkerRecord
  <2> HIDE DEF r
  <2> QED
    BY <2>1, <2>2, <1>4
<1>9. ASSUME Parse(w) PROVE Goes
  <2> PICK n \in 1..MaxChunks : worker' = [worker EXCEPT ![w] =
         [@ EXCEPT !.pc = "insert", !.count = n, !.todo = ModeBackends[m.mode]]]
    BY <1>9 DEF Parse
  <2> DEFINE r == [worker[w] EXCEPT !.pc = "insert", !.count = n, !.todo = ModeBackends[m.mode]]
  <2>1. worker' = [worker EXCEPT ![w] = r] /\ r.msg = worker[w].msg /\ r.pc # "idle"
    BY <1>2 DEF WorkerRecord
  <2> HIDE DEF r
  <2> QED
    BY <2>1, <1>4
<1>10. ASSUME Acknowledge(w) \/ WorkerCrash(w) PROVE Goes
  BY <1>4, <1>10 DEF Acknowledge, WorkerCrash
<1>11. ASSUME Operation(w) PROVE Goes
  BY <1>5, <1>6, <1>9, <1>11
     DEF Operation, ParseRaises, InsertBackend, ClearBackend, Publish, Unlink, WorkerStep
<1>12. Goes
  BY <1>5, <1>7, <1>8, <1>10, <1>11
     DEF Works, Sends, SkipJob, MissingJob, Finish, MissingAtFinish, DatabaseRaises, RecordFailure,
         ReflectFailure, Resend, ResendTwice, ReportFailure, WorkerStep
<1> QED
  BY <1>1, <1>3, <1>12 DEF Advances, Goes

\* The steps of process_message up to its outcome.
Early == {"received", "marking", "parse", "insert", "publish", "clear", "unlink", "finish"}

(* A worker that only goes on to another step.                             *)
LEMMA Goes ==
  ASSUME TypeInv, NEW w \in Worker, NEW next, Goto(w, next)
  PROVE  worker'[w] = [worker[w] EXCEPT !.pc = next] /\ worker'[w].pc = next
         /\ worker'[w].msg = worker[w].msg
BY DEF Goto, TypeInv, TypeOK, WorkersOK

(* The steps that touch no job, until one of them fails.                   *)
LEMMA EarlyStep ==
  ASSUME TypeInv, NEW w \in Worker,
         MissingJob(w) \/ MissingAtFinish(w) \/ DatabaseRaises(w) \/ MarkProcessing(w) \/ Operation(w)
  PROVE  /\ UNCHANGED job
         /\ worker[w].pc \in Early /\ worker'[w].pc \in Early \cup {"record"}
         /\ worker'[w].msg = worker[w].msg
<1>1. worker[w] \in WorkerRecord /\ DOMAIN worker = Worker
  BY DEF TypeInv, TypeOK, WorkersOK, WorkerRecord
<1>2. UNCHANGED job
  BY DEF MissingJob, MissingAtFinish, DatabaseRaises, MarkProcessing, Operation, Parse, ParseRaises,
         InsertBackend, ClearBackend, Publish, Unlink, tables
<1>3. ASSUME NEW b, NEW failed, NEW next \in {"publish", "unlink"}, BackendDone(w, b, failed, next),
             worker[w].pc \in Early
      PROVE  worker'[w].pc \in Early \cup {"record"} /\ worker'[w].msg = worker[w].msg
  BY <1>1, <1>3 DEF BackendDone, Early, WorkerRecord
<1>4. ASSUME Parse(w) \/ MarkProcessing(w)
      PROVE  worker[w].pc \in Early /\ worker'[w].pc \in Early /\ worker'[w].msg = worker[w].msg
  <2>1. CASE Parse(w)
    BY <1>1, <2>1 DEF Parse, Early, WorkerRecord, At
  <2>2. CASE MarkProcessing(w)
    BY <1>1, <2>2 DEF MarkProcessing, Early, WorkerRecord, At
  <2> QED
    BY <1>4, <2>1, <2>2
<1>5. worker[w].pc \in Early
  BY <1>4
     DEF Operation, ParseRaises, InsertBackend, ClearBackend, Publish, Unlink, MissingJob,
         MissingAtFinish, DatabaseRaises, Early, At
<1>6. {"publish", "finish", "unlink"} \subseteq Early
  BY DEF Early
<1>7. worker'[w].pc \in Early \cup {"record"} /\ worker'[w].msg = worker[w].msg
  BY <1>3, <1>4, <1>5, <1>6, Goes
     DEF Operation, ParseRaises, InsertBackend, ClearBackend, Publish, Unlink, MissingJob,
         MissingAtFinish, DatabaseRaises
<1> QED
  BY <1>2, <1>5, <1>7

(* A step that sends nothing changes who carries an active job only for    *)
(* the job of w, and never leaves that job active and uncarried.           *)
LEMMA WorkSettles ==
  ASSUME TypeInv, OwnedInv, NEW w \in Worker, Works(w)
  PROVE  /\ RowsKept
         /\ \A j \in Job : Active(j)' =>
              \/ Unsettled(w)' /\ worker'[w].msg.job = j
              \/ Active(j) /\ ~(Unsettled(w) /\ worker[w].msg.job = j)
         /\ Unsettled(w)' => Unsettled(w)
<1> DEFINE m == worker[w].msg
           Settles == /\ \A j \in Job : Active(j)' =>
                           \/ Unsettled(w)' /\ worker'[w].msg.job = j
                           \/ Active(j) /\ ~(Unsettled(w) /\ worker[w].msg.job = j)
                      /\ Unsettled(w)' => Unsettled(w)
<1>1. /\ ~At(w, "idle") /\ m \in Message /\ m.job \in Job /\ Owned(m)
      /\ worker[w] \in WorkerRecord
      /\ worker'[w] \in WorkerRecord
      /\ worker'[w].msg = m \/ worker'[w].pc = "idle"
      /\ DOMAIN worker = Worker
  BY WorkerAdvances
     DEF Advances, OwnedInv, WorkersOwned, IdleWorker, Starting, Message, TypeInv, TypeOK, WorkersOK,
         WorkerRecord
<1>2. ASSUME NEW next, Goto(w, next) PROVE worker'[w].pc = next /\ worker'[w].msg = m
  BY <1>2, Goes
<1>7. CASE MissingJob(w) \/ MissingAtFinish(w) \/ DatabaseRaises(w) \/ MarkProcessing(w) \/ Operation(w)
  <2>1. /\ UNCHANGED job
        /\ worker[w].pc \in Early /\ worker'[w].pc \in Early \cup {"record"} /\ worker'[w].msg = m
    BY <1>7, EarlyStep
  <2>2. Unsettled(w) /\ Unsettled(w)'
    BY <2>1 DEF Unsettled, Early
  <2> QED
    BY <2>1, <2>2 DEF RowsKept, Active
<1>8. CASE BeginJob(w)
  <2>1. worker'[w].pc = "marking" /\ At(w, "received")
    BY <1>1, <1>8 DEF BeginJob, WorkerRecord
  <2>2. Unsettled(w) /\ Unsettled(w)' /\ worker'[w].msg = m
    BY <1>1, <2>1 DEF Unsettled, At
  <2>3. UpdateJob(m.job, [job[m.job] EXCEPT !.status = "processing"])
    BY <1>8 DEF BeginJob
  <2>4. RowsKept /\ \A j \in Job : j # m.job => job'[j] = job[j]
    BY <1>1, <2>3 DEF RowsKept, UpdateJob, JobExists, TypeInv, TypeOK, TablesOK
  <2> QED
    BY <2>2, <2>4 DEF Active
<1>9. CASE SkipJob(w)
  <2>1. UNCHANGED job /\ worker'[w].pc = "ack" /\ job[m.job].status = "succeeded"
    BY <1>2, <1>9 DEF SkipJob, tables
  <2> QED
    BY <1>9, <2>1 DEF RowsKept, Active, Unsettled, SkipJob, At
<1>10. CASE Finish(w)
  <2>1. worker'[w].pc = "ack"
    BY <1>2, <1>10 DEF Finish
  <2>2. RowsKept /\ \A j \in Job : Active(j)' => j # m.job /\ Active(j)
    <3>1. CASE m.operation = "delete"
      BY <1>1, <1>10, <3>1 DEF Finish, RowsKept, Active, JobExists, Owned, TypeInv, TypeOK, TablesOK
    <3>2. CASE m.operation # "delete"
      BY <1>1, <1>10, <3>2 DEF Finish, RowsKept, Active, JobExists, TypeInv, TypeOK, TablesOK
    <3> QED
      BY <3>1, <3>2
  <2> QED
    BY <2>1, <2>2 DEF Active, Unsettled
<1>11. CASE RecordFailure(w)
  <2>1. worker'[w].pc = "reflect" /\ worker'[w].msg = m /\ At(w, "record")
    BY <1>2, <1>11 DEF RecordFailure
  <2>2. Unsettled(w) /\ (Unsettled(w)' <=> ~Exhausted(w))
    BY <2>1 DEF Unsettled, Exhausted, At
  <2> DEFINE row == [job[m.job] EXCEPT !.status = IF Exhausted(w) THEN "failed" ELSE "queued",
                                       !.attempts = Again(w).attempts]
  <2>3. /\ UpdateJob(m.job, row) /\ row.document = job[m.job].document
        /\ row.status = IF Exhausted(w) THEN "failed" ELSE "queued"
    <3>1. UpdateJob(m.job, row)
      BY <1>1, <1>11 DEF RecordFailure, Again, Message
    <3> QED
      BY <1>1, <3>1 DEF TypeInv, TypeOK, TablesOK
  <2> HIDE DEF row
  <2>4. RowsKept
    BY <1>1, <2>3, RowUpdated
  <2>5. \A j \in Job : Active(j)' => (j # m.job /\ Active(j)) \/ (j = m.job /\ ~Exhausted(w))
    BY <1>1, <2>3 DEF UpdateJob, JobExists, Active, TypeInv, TypeOK, TablesOK
  <2> QED
    BY <2>1, <2>2, <2>4, <2>5
<1>12. CASE ReflectFailure(w)
  <2>1. worker'[w].pc = "resend" /\ worker'[w].msg = m /\ At(w, "reflect") /\ UNCHANGED job
    BY <1>2, <1>12 DEF ReflectFailure
  <2>2. Unsettled(w)' <=> Unsettled(w)
    BY <2>1 DEF Unsettled, Exhausted, At
  <2> QED
    BY <2>1, <2>2 DEF RowsKept, Active
<1>13. CASE ReportFailure(w) \/ Acknowledge(w)
  <2>1. ~Unsettled(w) /\ UNCHANGED job
    BY <1>13 DEF ReportFailure, Acknowledge, Unsettled, At, tables
  <2>2. worker'[w].pc \in {"idle", "ack"}
    BY <1>1, <1>2, <1>13 DEF ReportFailure, Acknowledge, IdleWorker, Starting
  <2> QED
    BY <2>1, <2>2 DEF RowsKept, Active, Unsettled
<1> QED
  BY <1>7, <1>8, <1>9, <1>10, <1>11, <1>12, <1>13 DEF Works

(* What the other steps of a worker do: it sends its message again, unless *)
(* it is exhausted, it takes the head of the stream, or it dies.           *)
Arrives(m) ==
    /\ DOMAIN stream \subseteq DOMAIN stream'
    /\ \E i \in DOMAIN stream' : i \notin DOMAIN stream
    /\ \A i \in DOMAIN stream' : stream'[i] = IF i \in DOMAIN stream THEN stream[i] ELSE m

LEMMA ArrivesOnce ==
  ASSUME QueuesOK, NEW m \in Message, stream' = Append(stream, m)
  PROVE  Arrives(m) /\ \A i, k \in DOMAIN stream' \ DOMAIN stream : i = k
<1>1. /\ DOMAIN stream = 1..Len(stream) /\ Len(stream) \in Nat
      /\ DOMAIN stream' = 1..Len(stream) + 1
      /\ \A i \in 1..Len(stream) : stream'[i] = stream[i]
      /\ stream'[Len(stream) + 1] = m
  BY AppendProperties DEF QueuesOK
<1>2. Len(stream) + 1 \in DOMAIN stream' /\ Len(stream) + 1 \notin DOMAIN stream
  BY <1>1
<1> QED
  BY <1>1, <1>2 DEF Arrives

LEMMA ArrivesTwice ==
  ASSUME QueuesOK, NEW m \in Message, stream' = stream \o <<m, m>>
  PROVE  Arrives(m)
<1>1. DOMAIN stream' = 1..Len(stream) + 2 /\ DOMAIN stream = 1..Len(stream) /\ Len(stream) \in Nat
  BY ConcatProperties DEF QueuesOK
<1>2. \A i \in 1..Len(stream) + 2 : stream'[i] = IF i <= Len(stream) THEN stream[i] ELSE m
  BY ConcatProperties DEF QueuesOK
<1>3. Len(stream) + 1 \in DOMAIN stream' /\ Len(stream) + 1 \notin DOMAIN stream
  BY <1>1
<1> QED
  BY <1>1, <1>2, <1>3 DEF Arrives

LEMMA SendArrives ==
  ASSUME TypeInv, NEW w \in Worker, Sends(w)
  PROVE  /\ UNCHANGED <<job, handler, lost>> /\ ~Unsettled(w)' /\ RowsKept
         /\ \/ Exhausted(w) /\ ~Unsettled(w) /\ UNCHANGED stream
            \/ /\ Unsettled(w) /\ Arrives(Again(w))
               /\ Resend(w) => \A i, k \in DOMAIN stream' \ DOMAIN stream : i = k
         /\ Again(w) \in Message /\ Again(w).job = worker[w].msg.job
         /\ Again(w).document = worker[w].msg.document
<1>1. worker[w].msg \in Message /\ ~At(w, "idle") /\ worker[w] \in WorkerRecord /\ QueuesOK
      /\ worker[w].msg.attempts + 1 \in 0..MaxAttempts
  BY WorkerAdvances, HeldByWorker, PipelineAssumption
     DEF TypeInv, TypeOK, WorkersOK, WorkerRecord
<1>2. Again(w) \in Message /\ Again(w).job = worker[w].msg.job
      /\ Again(w).document = worker[w].msg.document
  BY <1>1 DEF Again, Message
<1>3. At(w, "resend") /\ worker'[w].pc = "report"
  BY <1>1 DEF Sends, Resend, ResendTwice, Goto, TypeInv, TypeOK, WorkersOK
<1>4. ~Unsettled(w)' /\ (Unsettled(w) <=> ~Exhausted(w))
  BY <1>3 DEF Unsettled, At
<1>5. UNCHANGED <<job, handler, lost>>
  BY DEF Sends, Resend, ResendTwice, tables, bounds
<1>6. CASE Resend(w)
  BY <1>1, <1>2, <1>4, <1>5, <1>6, ArrivesOnce DEF Resend, RowsKept
<1>7. CASE ResendTwice(w) /\ ~Resend(w)
  BY <1>1, <1>2, <1>4, <1>5, <1>7, ArrivesTwice DEF ResendTwice, RowsKept
<1> QED
  BY <1>6, <1>7 DEF Sends

LEMMA ReceiveTakes ==
  ASSUME TypeInv, NEW w \in Worker, Receive(w)
  PROVE  /\ UNCHANGED <<job, handler, lost>> /\ RowsKept /\ At(w, "idle")
         /\ worker' = [worker EXCEPT ![w] = Starting("received", stream[1])]
         /\ 1 \in DOMAIN stream /\ Unsettled(w)'
         /\ \A i \in DOMAIN stream' : i + 1 \in DOMAIN stream /\ stream'[i] = stream[i + 1] /\ i \in Nat \ {0}
         /\ \A i \in DOMAIN stream : i = 1 \/ (i - 1 \in DOMAIN stream' /\ i \in Nat)
<1>1. stream \in Seq(Message) /\ stream # <<>> /\ w \in DOMAIN worker
  BY DEF Receive, TypeInv, TypeOK, QueuesOK, WorkersOK
<1>2. /\ Head(stream) = stream[1] /\ DOMAIN stream = 1..Len(stream) /\ Len(stream) \in Nat \ {0}
      /\ DOMAIN Tail(stream) = 1..Len(stream) - 1
      /\ \A i \in 1..Len(stream) - 1 : Tail(stream)[i] = stream[i + 1]
  BY <1>1, HeadTailProperties
<1>3. worker'[w].pc = "received"
  BY <1>1 DEF Receive, Starting
<1> QED
  BY <1>1, <1>2, <1>3 DEF Receive, RowsKept, Unsettled, tables, bounds

-----------------------------------------------------------------------------
(* The strengthening is inductive.                                         *)
LEMMA OwnedKept ==
  ASSUME TypeInv, OwnedInv, RowsKept
  PROVE  /\ \A m \in Message : Owned(m) => Owned(m)'
         /\ UNCHANGED stream => StreamOwned'
         /\ UNCHANGED worker => WorkersOwned'
         /\ UNCHANGED handler => HandlersOwned' /\ HandlersApart'
<1>1. ASSUME NEW m \in Message, Owned(m) PROVE Owned(m)'
  BY <1>1 DEF Owned, RowsKept, Message
<1>2. ASSUME UNCHANGED stream PROVE StreamOwned'
  BY <1>1, <1>2 DEF TypeInv, TypeOK, QueuesOK, OwnedInv, StreamOwned
<1>3. ASSUME UNCHANGED worker PROVE WorkersOwned'
  BY <1>1, <1>3, HeldByWorker DEF OwnedInv, WorkersOwned, At
<1>4. ASSUME UNCHANGED handler PROVE HandlersOwned' /\ HandlersApart'
  BY <1>1, <1>4, HeldByHandler DEF OwnedInv, HandlersOwned, HandlersApart, RowsKept
<1> QED
  BY <1>1, <1>2, <1>3, <1>4

LEMMA OwnedWorker ==
  ASSUME TypeInv, OwnedInv, NEW w \in Worker, WorkerRuns(w) \/ WorkerCrash(w)
  PROVE  OwnedInv'
<1>1. CASE Works(w) \/ Sends(w) \/ WorkerCrash(w)
  <2>1. Advances(w) /\ worker[w].msg \in Message /\ ~At(w, "idle")
    BY <1>1, WorkerAdvances
  <2>2. RowsKept /\ UNCHANGED handler
    BY <1>1, WorkSettles, SendArrives
       DEF Works, BeginJob, SkipJob, MissingJob, MarkProcessing, Operation, Parse, ParseRaises,
           InsertBackend, ClearBackend, Publish, Unlink, Finish, MissingAtFinish, DatabaseRaises,
           RecordFailure, ReflectFailure, ReportFailure, Acknowledge, WorkerCrash, RowsKept, tables
  <2>3. Owned(worker[w].msg)
    BY <2>1 DEF OwnedInv, WorkersOwned
  <2>4. WorkersOwned'
    <3>1. PICK r \in WorkerRecord : /\ worker' = [worker EXCEPT ![w] = r]
                                    /\ r = IdleWorker \/ (r.msg = worker[w].msg /\ r.pc # "idle")
      BY <2>1 DEF Advances
    <3>2. ASSUME NEW v \in Worker, ~At(v, "idle")' PROVE Owned(worker[v].msg)'
      <4>1. ~At(v, "idle") /\ worker'[v].msg = worker[v].msg
        BY <2>1, <3>1, <3>2 DEF At, IdleWorker, Starting, TypeInv, TypeOK, WorkersOK
      <4>2. worker[v].msg \in Message /\ Owned(worker[v].msg)
        BY <4>1, HeldByWorker DEF OwnedInv, WorkersOwned
      <4> QED
        BY <2>2, <4>1, <4>2 DEF Owned, RowsKept, Message
    <3> QED
      BY <3>2 DEF WorkersOwned
  <2>5. StreamOwned'
    <3>1. CASE Sends(w) /\ ~Exhausted(w)
      <4>1. Arrives(Again(w)) /\ Owned(Again(w)) /\ Again(w) \in Message
        BY <2>3, <3>1, SendArrives DEF Owned
      <4>2. UNCHANGED job
        BY <3>1, SendArrives
      <4> QED
        BY <4>1, <4>2 DEF OwnedInv, StreamOwned, Owned, Arrives
    <3>2. CASE Sends(w) /\ Exhausted(w)
      BY <2>2, <3>2, SendArrives, OwnedKept DEF Sends, Resend, ResendTwice
    <3>3. CASE ~Sends(w)
      <4>1. UNCHANGED stream
        BY <1>1, <3>3
           DEF Works, BeginJob, SkipJob, MissingJob, MarkProcessing, Operation, Parse, ParseRaises,
               InsertBackend, ClearBackend, Publish, Unlink, Finish, MissingAtFinish, DatabaseRaises,
               RecordFailure, ReflectFailure, ReportFailure, Acknowledge, WorkerCrash, queues
      <4> QED
        BY <2>2, <4>1, OwnedKept
    <3> QED
      BY <3>1, <3>2, <3>3
  <2> QED
    BY <2>2, <2>4, <2>5, OwnedKept DEF OwnedInv
<1>2. CASE Receive(w)
  <2>1. /\ UNCHANGED <<job, handler>> /\ RowsKept /\ 1 \in DOMAIN stream
        /\ worker' = [worker EXCEPT ![w] = Starting("received", stream[1])]
        /\ \A i \in DOMAIN stream' : i + 1 \in DOMAIN stream /\ stream'[i] = stream[i + 1]
    BY <1>2, ReceiveTakes
  <2>2. StreamOwned'
    BY <2>1 DEF OwnedInv, StreamOwned, Owned
  <2>3. WorkersOwned'
    BY <2>1 DEF OwnedInv, StreamOwned, WorkersOwned, Owned, At, Starting, TypeInv, TypeOK, WorkersOK
  <2> QED
    BY <2>1, <2>2, <2>3, OwnedKept DEF OwnedInv
<1> QED
  BY <1>1, <1>2 DEF WorkerRuns, ProcessMessage, Works, Sends

\* The request that h starts holds message m, under an id nobody uses.
Starts(h, m) ==
    /\ handler[h].pc = "idle"
    /\ handler' = [handler EXCEPT ![h] = [pc |-> "mark", msg |-> m]]
    /\ job[m.job].status = "unused"
    /\ \A g \in Handler : handler[g].msg # None => handler[g].msg.job # m.job
    /\ UNCHANGED <<job, stream, worker, lost>>

LEMMA StartMessage ==
  ASSUME TypeInv, NEW h \in Handler, HandlerStart(h)
  PROVE  \E m \in Message : Starts(h, m) /\ m.attempts = 0 /\ (m.operation = "delete" => m.mode = "mg")
<1>1. PICK d \in Document, operation \in {"ingest", "delete"}, mode \in {"milvus", "graph", "mg"} :
        Accept(h, d, operation, mode) /\ (operation = "delete" => mode = "mg")
  BY PipelineAssumption DEF HandlerStart, AcceptIngest, AcceptDelete, AcceptBulkDelete
<1>2. PICK j \in Job :
        /\ job[j].status = "unused"
        /\ \A g \in Handler : handler[g].msg # None => handler[g].msg.job # j
        /\ handler' = [handler EXCEPT ![h] = [pc |-> "mark",
              msg |-> [job |-> j, document |-> d, operation |-> operation,
                       mode |-> mode, attempts |-> 0]]]
  BY <1>1 DEF Accept
<1> DEFINE m == [job |-> j, document |-> d, operation |-> operation, mode |-> mode, attempts |-> 0]
<1>3. m \in Message /\ m.job = j /\ m.attempts = 0 /\ (m.operation = "delete" => m.mode = "mg")
  BY <1>1, PipelineAssumption DEF Message
<1>4. handler' = [handler EXCEPT ![h] = [pc |-> "mark", msg |-> m]]
  BY <1>2
<1>5. handler[h].pc = "idle" /\ UNCHANGED <<job, stream, worker, lost>>
  BY <1>1 DEF Accept, tables, queues, bounds
<1> HIDE DEF m
<1> QED
  BY <1>2, <1>3, <1>4, <1>5 DEF Starts

LEMMA OwnedHandler ==
  ASSUME TypeInv, OwnedInv, NEW h \in Handler,
         HandlerStart(h) \/ HandlerRuns(h) \/ HandlerCrash(h)
  PROVE  OwnedInv'
<1> DEFINE m == handler[h].msg
<1>1. CASE HandlerStart(h)
  <2>1. PICK n \in Message : Starts(h, n)
    BY <1>1, StartMessage
  <2>2. HandlersOwned' /\ HandlersApart'
    BY <2>1, NoneAssumption
       DEF OwnedInv, HandlersOwned, HandlersApart, Starts, Owned, TypeInv, TypeOK, HandlersOK
  <2> QED
    BY <2>1, <2>2, OwnedKept DEF Starts, OwnedInv, RowsKept
<1>2. ASSUME ~HandlerStart(h)
      PROVE  m \in Message /\ m.job \in Job /\ handler[h].pc # "idle" /\ UNCHANGED worker
  BY <1>2, HeldByHandler
     DEF HandlerRuns, MarkDocument, CreateJob, Enqueue, EnqueueRaises, EnqueueTwice, RejectJob,
         RejectDocument, RejectAudit, HandlerCrash
<1>4. ASSUME \/ handler' = [handler EXCEPT ![h] = IdleHandler]
             \/ \E next \in HandlerStep : handler' = [handler EXCEPT ![h].pc = next],
             ~HandlerStart(h)
      PROVE  HandlersApart'
  BY <1>2, <1>4 DEF OwnedInv, HandlersApart, TypeInv, TypeOK, HandlersOK, IdleHandler
<1>5. CASE CreateJob(h) /\ Exists(m.document) /\ ~HandlerStart(h)
  <2>1. /\ job' = [job EXCEPT ![m.job] =
                     [document |-> m.document, status |-> "queued", attempts |-> 0]]
        /\ handler' = [handler EXCEPT ![h].pc = "enqueue"]
        /\ job[m.job].status = "unused"
    BY <1>2, <1>5 DEF CreateJob, OwnedInv, HandlersOwned
  <2>2. \A n \in Message : Owned(n) => Owned(n)'
    BY <1>2, <2>1 DEF Owned, TypeInv, TypeOK, TablesOK, Message
  <2>3. StreamOwned' /\ WorkersOwned'
    BY <1>2, <1>5, <2>2, HeldByWorker
       DEF CreateJob, OwnedInv, StreamOwned, WorkersOwned, TypeInv, TypeOK, QueuesOK, queues, At
  <2>4. HandlersOwned'
    <3>1. handler'[h].msg = m /\ handler'[h].pc = "enqueue"
          /\ job'[m.job].status = "queued" /\ job'[m.job].document = m.document
      BY <1>2, <1>5, <2>1 DEF TypeInv, TypeOK, TablesOK, HandlersOK
    <3>2. ASSUME NEW g \in Handler, g # h, handler[g].pc # "idle"
          PROVE  handler'[g] = handler[g] /\ handler[g].msg \in Message /\ handler[g].msg.job \in Job
                 /\ job'[handler[g].msg.job] = job[handler[g].msg.job]
      BY <1>2, <1>5, <2>1, <3>2, HeldByHandler
         DEF TypeInv, TypeOK, TablesOK, HandlersOK, OwnedInv, HandlersApart
    <3> QED
      BY <1>2, <2>1, <3>1, <3>2 DEF OwnedInv, HandlersOwned, Owned, TypeInv, TypeOK, HandlersOK
  <2>5. HandlersApart'
    BY <1>4, <1>5, <2>1 DEF HandlerStep
  <2> QED
    BY <2>3, <2>4, <2>5 DEF OwnedInv
<1> HIDE DEF m
<1>6. ASSUME RowsKept, ~HandlerStart(h), NEW next,
             \/ handler' = [handler EXCEPT ![h] = IdleHandler]
             \/ /\ handler' = [handler EXCEPT ![h].pc = next]
                /\ \/ handler[h].pc = "mark" /\ next = "create"
                   \/ /\ handler[h].pc \notin {"mark", "create"}
                      /\ next \in {"reject_job", "reject_document", "reject_audit"}
      PROVE  HandlersOwned'
  <2>1. ASSUME NEW g \in Handler, g # h PROVE handler'[g] = handler[g]
    BY <1>6, <2>1 DEF TypeInv, TypeOK, HandlersOK
  <2>2. \/ handler'[h].pc = "idle"
        \/ /\ handler'[h].msg = m
           /\ \/ handler[h].pc = "mark" /\ handler'[h].pc = "create"
              \/ /\ handler[h].pc \notin {"mark", "create"}
                 /\ handler'[h].pc \in {"reject_job", "reject_document", "reject_audit"}
    BY <1>6 DEF TypeInv, TypeOK, HandlersOK, IdleHandler, m
  <2>3. /\ handler[h].pc = "mark" => job'[m.job].status = "unused"
        /\ handler[h].pc \notin {"mark", "create"} =>
             job'[m.job].status # "unused" /\ job'[m.job].document = m.document
    BY <1>2, <1>6 DEF OwnedInv, HandlersOwned, Owned, RowsKept, m
  <2>4. \A g \in Handler : handler[g].pc # "idle" => handler[g].msg.job \in Job
    BY HeldByHandler
  <2> QED
    BY <1>6, <2>1, <2>2, <2>3, <2>4 DEF OwnedInv, HandlersOwned, Owned, RowsKept
<1>7. CASE ~HandlerStart(h) /\ (\/ MarkDocument(h) \/ (CreateJob(h) /\ ~Exists(m.document))
                                \/ RejectJob(h) \/ RejectDocument(h) \/ RejectAudit(h) \/ HandlerCrash(h))
  <2>1. RowsKept
    <3>1. CASE RejectJob(h)
      <4> DEFINE row == [job[m.job] EXCEPT !.status = "failed"]
      <4>1. row.document = job[m.job].document /\ row.status = "failed" /\ UpdateJob(m.job, row)
        BY <1>2, <1>7, <3>1 DEF RejectJob, TypeInv, TypeOK, TablesOK, m
      <4> HIDE DEF row
      <4> QED
        BY <1>2, <1>7, <4>1, RowUpdated
    <3>2. CASE ~RejectJob(h)
      BY <1>7, <3>2 DEF MarkDocument, CreateJob, RejectDocument, RejectAudit, HandlerCrash, RowsKept, tables, m
    <3> QED
      BY <3>1, <3>2
  <2>2. UNCHANGED stream
    BY <1>7 DEF MarkDocument, CreateJob, RejectJob, RejectDocument, RejectAudit, HandlerCrash, queues
  <2>3. HandlersOwned' /\ HandlersApart'
    BY <1>4, <1>6, <1>7, <2>1
       DEF MarkDocument, CreateJob, RejectJob, RejectDocument, RejectAudit, HandlerCrash, HandlerStep, m
  <2> QED
    BY <1>2, <1>7, <2>1, <2>2, <2>3, OwnedKept DEF OwnedInv
<1>8. CASE ~HandlerStart(h) /\ (Enqueue(h) \/ EnqueueRaises(h) \/ EnqueueTwice(h))
  <2>1. RowsKept /\ UNCHANGED job /\ handler[h].pc = "enqueue"
    BY <1>8 DEF Enqueue, EnqueueRaises, EnqueueTwice, RowsKept, tables
  <2>2. UNCHANGED stream \/ Arrives(m)
    BY <1>2, <1>8, ArrivesOnce, ArrivesTwice
       DEF Enqueue, EnqueueRaises, EnqueueTwice, TypeInv, TypeOK, m
  <2>3. Owned(m)
    BY <2>1 DEF OwnedInv, HandlersOwned, m
  <2>4. StreamOwned'
    <3>1. CASE UNCHANGED stream
      BY <2>1, <3>1, OwnedKept
    <3>2. CASE Arrives(m)
      BY <2>1, <2>3, <3>2 DEF OwnedInv, StreamOwned, Owned, Arrives
    <3> QED
      BY <2>2, <3>1, <3>2
  <2>5. HandlersOwned' /\ HandlersApart'
    BY <1>4, <1>6, <1>8, <2>1 DEF Enqueue, EnqueueRaises, EnqueueTwice, HandlerStep
  <2> QED
    BY <1>2, <1>8, <2>1, <2>4, <2>5, OwnedKept DEF OwnedInv
<1> QED
  BY <1>1, <1>5, <1>7, <1>8 DEF HandlerRuns

LEMMA OwnedNext == TypeInv /\ OwnedInv /\ [Next]_vars => TypeInv' /\ OwnedInv'
<1> SUFFICES ASSUME TypeInv, OwnedInv, [Next]_vars PROVE OwnedInv'
  BY NextType
<1>1. CASE Next
  BY <1>1, OwnedWorker, OwnedHandler DEF Next
<1>2. CASE UNCHANGED vars
  BY <1>2, OwnedKept DEF vars, tables, queues, RowsKept, OwnedInv
<1> QED
  BY <1>1, <1>2

LEMMA OwnedInit == Init => TypeInv /\ OwnedInv
BY InitType, NoneAssumption
   DEF Init, OwnedInv, StreamOwned, WorkersOwned, HandlersOwned, HandlersApart, At, IdleWorker, Starting,
       IdleHandler

-----------------------------------------------------------------------------
(* Every step leaves each active job with somebody.                        *)
Carried(j) == Waiting(j) \/ Worked(j) \/ Requested(j) \/ Lost(j)

LEMMA WorkerElsewhere ==
  ASSUME TypeInv, NEW w \in Worker, NEW v \in Worker, v # w, NEW r, worker' = [worker EXCEPT ![w] = r]
  PROVE  worker'[v] = worker[v] /\ (Unsettled(v)' <=> Unsettled(v))
BY DEF TypeInv, TypeOK, WorkersOK, Unsettled, Exhausted

LEMMA CarriedWorker ==
  ASSUME TypeInv, OwnedInv, ActiveJobIsCarried, NEW w \in Worker, WorkerRuns(w) \/ WorkerCrash(w)
  PROVE  ActiveJobIsCarried'
<1> SUFFICES ASSUME NEW j \in Job, Active(j)' PROVE Carried(j)'
  BY DEF ActiveJobIsCarried, Active, Carried
<1>1. Active(j) => Carried(j)
  BY DEF ActiveJobIsCarried, Active, Carried
<1>2. CASE Works(w)
  <2>1. /\ UNCHANGED <<stream, handler, lost>>
        /\ \/ Unsettled(w)' /\ worker'[w].msg.job = j
           \/ Active(j) /\ ~(Unsettled(w) /\ worker[w].msg.job = j)
    BY <1>2, WorkSettles
       DEF Works, BeginJob, SkipJob, MissingJob, MarkProcessing, Operation, Parse, ParseRaises,
           InsertBackend, ClearBackend, Publish, Unlink, Finish, MissingAtFinish, DatabaseRaises,
           RecordFailure, ReflectFailure, ReportFailure, Acknowledge, queues, bounds
  <2>2. \A v \in Worker : v # w => worker'[v] = worker[v] /\ (Unsettled(v)' <=> Unsettled(v))
    BY <1>2, WorkerAdvances, WorkerElsewhere DEF Advances
  <2> QED
    BY <1>1, <2>1, <2>2 DEF Carried, Waiting, Worked, Requested, Lost
<1>3. CASE Sends(w)
  <2>1. UNCHANGED <<job, handler, lost>>
    BY <1>3, SendArrives
  <2>2. \A v \in Worker : v # w => worker'[v] = worker[v] /\ (Unsettled(v)' <=> Unsettled(v))
    BY <1>3, WorkerAdvances, WorkerElsewhere DEF Advances
  <2>3. Waiting(j) => Waiting(j)'
    BY <1>3, SendArrives DEF Waiting, Arrives
  <2>4. Unsettled(w) /\ worker[w].msg.job = j => Waiting(j)'
    BY <1>3, SendArrives DEF Waiting, Arrives
  <2> QED
    BY <1>1, <2>1, <2>2, <2>3, <2>4 DEF Carried, Worked, Requested, Lost, Active
<1>4. CASE Receive(w)
  <2>1. /\ UNCHANGED <<job, handler, lost>> /\ Unsettled(w)' /\ At(w, "idle")
        /\ worker' = [worker EXCEPT ![w] = Starting("received", stream[1])]
        /\ \A i \in DOMAIN stream' : stream'[i] = stream[i + 1] /\ i \in Nat
        /\ \A i \in DOMAIN stream : i = 1 \/ (i - 1 \in DOMAIN stream' /\ i \in Nat)
    BY <1>4, ReceiveTakes
  <2>2. worker'[w].msg = stream[1]
    BY <2>1 DEF Starting, TypeInv, TypeOK, WorkersOK
  <2>3. Waiting(j) => Waiting(j)' \/ Worked(j)'
    BY <2>1, <2>2 DEF Waiting, Worked
  <2>4. \A v \in Worker : v # w => worker'[v] = worker[v] /\ (Unsettled(v)' <=> Unsettled(v))
    BY <2>1, WorkerElsewhere
  <2> QED
    BY <1>1, <2>1, <2>3, <2>4 DEF Carried, Worked, Requested, Lost, Active, Unsettled, At
<1>5. CASE WorkerCrash(w)
  <2>1. /\ UNCHANGED <<job, handler, stream>> /\ lost' = lost \cup {worker[w].msg}
        /\ worker' = [worker EXCEPT ![w] = IdleWorker]
    BY <1>5 DEF WorkerCrash, tables, queues
  <2>2. \A v \in Worker : v # w => worker'[v] = worker[v] /\ (Unsettled(v)' <=> Unsettled(v))
    BY <2>1, WorkerElsewhere
  <2> QED
    BY <1>1, <2>1, <2>2 DEF Carried, Waiting, Worked, Requested, Lost, Active
<1> QED
  BY <1>2, <1>3, <1>4, <1>5 DEF WorkerRuns, ProcessMessage, Works, Sends

LEMMA CarriedHandler ==
  ASSUME TypeInv, OwnedInv, ActiveJobIsCarried, NEW h \in Handler,
         HandlerStart(h) \/ HandlerRuns(h) \/ HandlerCrash(h)
  PROVE  ActiveJobIsCarried'
<1> DEFINE m == handler[h].msg
<1> SUFFICES ASSUME NEW j \in Job, Active(j)' PROVE Carried(j)'
  BY DEF ActiveJobIsCarried, Active, Carried
<1>1. Active(j) => Carried(j)
  BY DEF ActiveJobIsCarried, Active, Carried
<1>2. ASSUME NEW r, handler' = [handler EXCEPT ![h] = r]
      PROVE  \A g \in Handler : g # h => handler'[g] = handler[g]
  BY <1>2 DEF TypeInv, TypeOK, HandlersOK
<1>3. UNCHANGED worker => (Worked(j) => Worked(j)')
  BY DEF Worked, Unsettled, Exhausted
<1>4. CASE HandlerStart(h)
  <2>1. PICK n \in Message : Starts(h, n)
    BY <1>4, StartMessage
  <2>2. \A g \in Handler : g # h => handler'[g] = handler[g]
    BY <2>1, <1>2 DEF Starts
  <2> QED
    BY <1>1, <1>3, <2>1, <2>2 DEF Starts, Carried, Waiting, Requested, Lost, Active
<1>5. CASE ~HandlerStart(h)
  <2>1. UNCHANGED worker /\ m \in Message
    BY <1>5, HeldByHandler
       DEF HandlerRuns, MarkDocument, CreateJob, Enqueue, EnqueueRaises, EnqueueTwice, RejectJob,
           RejectDocument, RejectAudit, HandlerCrash
  <2>2. Lost(j) => Lost(j)'
    BY <1>5 DEF HandlerRuns, MarkDocument, CreateJob, Enqueue, EnqueueRaises, EnqueueTwice, RejectJob,
           RejectDocument, RejectAudit, HandlerCrash, Lost, bounds
  <2>3. \A g \in Handler : g # h => handler'[g] = handler[g]
    BY <1>2, <1>5
       DEF HandlerRuns, MarkDocument, CreateJob, Enqueue, EnqueueRaises, EnqueueTwice, RejectJob,
           RejectDocument, RejectAudit, HandlerCrash
  <2>4. CASE MarkDocument(h) \/ RejectDocument(h) \/ RejectAudit(h)
    BY <1>1, <1>3, <2>1, <2>2, <2>3, <2>4
       DEF MarkDocument, RejectDocument, RejectAudit, Carried, Waiting, Requested, Active, queues
  <2>5. CASE CreateJob(h)
    <3>1. UNCHANGED stream /\ handler[h].pc = "create"
      BY <2>5 DEF CreateJob, queues
    <3>2. \/ job' = job
          \/ /\ \A k \in Job : k # m.job => job'[k] = job[k]
             /\ handler'[h].pc = "enqueue" /\ handler'[h].msg = m
      BY <2>5 DEF CreateJob, TypeInv, TypeOK, TablesOK, HandlersOK
    <3>3. Requested(j) => Requested(j)'
      BY <2>3, <3>1 DEF Requested
    <3>4. CASE job' = job
      BY <1>1, <1>3, <2>1, <2>2, <3>1, <3>3, <3>4 DEF Carried, Waiting, Active
    <3>5. CASE job' # job
      BY <1>1, <1>3, <2>1, <2>2, <3>1, <3>2, <3>3, <3>5 DEF Carried, Waiting, Requested, Active
    <3> QED
      BY <3>4, <3>5
  <2>6. CASE Enqueue(h) \/ EnqueueRaises(h) \/ EnqueueTwice(h)
    <3>1. UNCHANGED job /\ (UNCHANGED stream \/ Arrives(m))
      BY <2>1, <2>6, ArrivesOnce, ArrivesTwice
         DEF Enqueue, EnqueueRaises, EnqueueTwice, TypeInv, TypeOK, tables
    <3>2. Waiting(j) => Waiting(j)'
      BY <3>1 DEF Waiting, Arrives
    <3>3. m.job = j => Waiting(j)' \/ Requested(j)'
      <4>1. CASE Enqueue(h) \/ EnqueueTwice(h)
        <5>1. Arrives(m)
          BY <2>1, <4>1, ArrivesOnce, ArrivesTwice DEF Enqueue, EnqueueTwice, TypeInv, TypeOK
        <5> QED
          BY <5>1 DEF Waiting, Arrives
      <4>2. CASE EnqueueRaises(h)
        BY <4>2 DEF EnqueueRaises, Requested, TypeInv, TypeOK, HandlersOK
      <4> QED
        BY <2>6, <4>1, <4>2
    <3> QED
      BY <1>1, <1>3, <2>1, <2>2, <2>3, <3>1, <3>2, <3>3 DEF Carried, Requested, Active
  <2>7. CASE RejectJob(h)
    <3>1. UNCHANGED stream /\ m.job # j /\ Active(j)
      BY <2>1, <2>7
         DEF RejectJob, UpdateJob, JobExists, Active, queues, TypeInv, TypeOK, TablesOK, Message
    <3> QED
      BY <1>1, <1>3, <2>1, <2>2, <2>3, <3>1 DEF Carried, Waiting, Requested
  <2>8. CASE HandlerCrash(h)
    BY <1>1, <1>3, <2>1, <2>3, <2>8
       DEF HandlerCrash, Carried, Waiting, Requested, Lost, Active, tables, queues
  <2> QED
    BY <1>5, <2>4, <2>5, <2>6, <2>7, <2>8 DEF HandlerRuns
<1> QED
  BY <1>4, <1>5

(* Whatever fails, dies, is sent twice or answered late, a job that the    *)
(* table calls queued or processing is never without a message, a worker   *)
(* or a request that will act on it, except if the process that held it    *)
(* died.                                                                   *)
THEOREM NoJobDropped == Spec => []ActiveJobIsCarried
<1> DEFINE Inv == TypeInv /\ OwnedInv /\ ActiveJobIsCarried
<1>1. Init => Inv
  BY OwnedInit DEF Init, ActiveJobIsCarried
<1>2. Inv /\ [Next]_vars => Inv'
  <2> SUFFICES ASSUME Inv, [Next]_vars PROVE ActiveJobIsCarried'
    BY OwnedNext
  <2>1. CASE Next
    BY <2>1, CarriedWorker, CarriedHandler DEF Next
  <2>2. CASE UNCHANGED vars
    BY <2>2 DEF vars, tables, queues, bounds, ActiveJobIsCarried, Waiting, Worked, Requested, Lost,
                Unsettled, Exhausted
  <2> QED
    BY <2>1, <2>2
<1>3. Inv => ActiveJobIsCarried
  OBVIOUS
<1> QED
  BY <1>1, <1>2, <1>3, PTL DEF Spec

-----------------------------------------------------------------------------
(* No two workers ever execute one job at the same time, if an XADD that   *)
(* raises had no effect and one that returns took effect once.             *)
XaddIsExact == QueueFaults \subseteq {"refused"}

\* OneCarrierPerJob, part by part.
StreamOnce == \A i, k \in DOMAIN stream : stream[i].job = stream[k].job => i = k
WorkersOnce ==
    \A w \in Worker : Unsettled(w) =>
      /\ ~Waiting(worker[w].msg.job)
      /\ \A v \in Worker : Unsettled(v) /\ worker[v].msg.job = worker[w].msg.job => v = w
HandlersOnce ==
    \A h \in Handler : handler[h].pc # "idle" =>
      ~Waiting(handler[h].msg.job) /\ ~Worked(handler[h].msg.job)

LEMMA Parts == StreamOnce' /\ WorkersOnce' /\ HandlersOnce' => OneCarrierPerJob'
BY DEF OneCarrierPerJob, StreamOnce, WorkersOnce, HandlersOnce

\* Less is waiting and less is worked on than before.
Fewer ==
    /\ UNCHANGED stream
    /\ \A v \in Worker : Unsettled(v)' => Unsettled(v) /\ worker'[v].msg = worker[v].msg

LEMMA FewerIsOnce ==
  ASSUME OneCarrierPerJob, Fewer, UNCHANGED handler
  PROVE  OneCarrierPerJob'
<1>1. StreamOnce' /\ \A j : Waiting(j)' <=> Waiting(j)
  BY DEF OneCarrierPerJob, StreamOnce, Fewer, Waiting
<1>2. \A j : Worked(j)' => Worked(j)
  BY DEF Worked, Fewer
<1>3. WorkersOnce'
  BY <1>1 DEF OneCarrierPerJob, WorkersOnce, Fewer, Waiting
<1>4. HandlersOnce'
  BY <1>1, <1>2 DEF OneCarrierPerJob, HandlersOnce, Waiting, Worked
<1> QED
  BY <1>1, <1>3, <1>4, Parts

LEMMA OnceWorker ==
  ASSUME XaddIsExact, TypeInv, OwnedInv, OneCarrierPerJob,
         NEW w \in Worker, WorkerRuns(w) \/ WorkerCrash(w)
  PROVE  OneCarrierPerJob'
<1> DEFINE m == worker[w].msg
<1>1. CASE Works(w) \/ WorkerCrash(w)
  <2>1. UNCHANGED <<stream, handler>>
    BY <1>1
       DEF Works, BeginJob, SkipJob, MissingJob, MarkProcessing, Operation, Parse, ParseRaises,
           InsertBackend, ClearBackend, Publish, Unlink, Finish, MissingAtFinish, DatabaseRaises,
           RecordFailure, ReflectFailure, ReportFailure, Acknowledge, WorkerCrash, queues
  <2>2. PICK r \in WorkerRecord : /\ worker' = [worker EXCEPT ![w] = r]
                                  /\ r = IdleWorker \/ (r.msg = m /\ r.pc # "idle")
    BY <1>1, WorkerAdvances DEF Advances
  <2>3. worker'[w] = r
    BY <2>2 DEF TypeInv, TypeOK, WorkersOK
  <2>4. Unsettled(w)' => Unsettled(w) /\ worker'[w].msg = m
    <3>1. CASE r = IdleWorker
      BY <2>3, <3>1 DEF Unsettled, IdleWorker, Starting
    <3>2. CASE r.msg = m /\ Works(w)
      BY <2>3, <3>2, WorkSettles
    <3>3. CASE WorkerCrash(w)
      BY <3>3 DEF WorkerCrash, Unsettled, IdleWorker, Starting, TypeInv, TypeOK, WorkersOK
    <3> QED
      BY <1>1, <2>2, <3>1, <3>2, <3>3
  <2>5. \A v \in Worker : v # w => worker'[v] = worker[v] /\ (Unsettled(v)' <=> Unsettled(v))
    BY <2>2, WorkerElsewhere
  <2> QED
    BY <2>1, <2>4, <2>5, FewerIsOnce DEF Fewer
<1>2. CASE Sends(w)
  <2>1. Resend(w) /\ UNCHANGED handler /\ ~Unsettled(w)' /\ Again(w).job = m.job
    BY <1>2, SendArrives DEF Sends, ResendTwice, XaddIsExact
  <2>2. \A v \in Worker : v # w => worker'[v] = worker[v] /\ (Unsettled(v)' <=> Unsettled(v))
    BY <1>2, WorkerAdvances, WorkerElsewhere DEF Advances
  <2>3. CASE UNCHANGED stream
    BY <2>1, <2>2, <2>3, FewerIsOnce DEF Fewer
  <2>4. CASE ~UNCHANGED stream
    <3>1. /\ Unsettled(w) /\ Arrives(Again(w))
          /\ \A i, k \in DOMAIN stream' \ DOMAIN stream : i = k
      BY <1>2, <2>1, <2>4, SendArrives
    <3>2. \A j : Waiting(j)' => Waiting(j) \/ j = m.job
      BY <2>1, <3>1 DEF Waiting, Arrives
    <3>3. \A j : Worked(j)' => Worked(j) /\ j # m.job
      BY <2>1, <2>2, <3>1 DEF OneCarrierPerJob, Worked
    <3>4. ~Waiting(m.job)
      BY <3>1 DEF OneCarrierPerJob
    <3>5. StreamOnce'
      BY <2>1, <3>1, <3>4 DEF OneCarrierPerJob, StreamOnce, Arrives, Waiting
    <3>6. WorkersOnce'
      <4>1. ASSUME NEW v \in Worker, Unsettled(v)'
            PROVE  /\ v # w /\ worker'[v] = worker[v] /\ Unsettled(v)
                   /\ worker[v].msg.job # m.job /\ ~Waiting(worker[v].msg.job)
        BY <2>1, <2>2, <3>1, <4>1 DEF OneCarrierPerJob
      <4>2. ASSUME NEW v \in Worker, Unsettled(v)', NEW i \in DOMAIN stream'
            PROVE  stream'[i].job # worker'[v].msg.job
        BY <3>2, <4>1, <4>2 DEF Waiting
      <4>3. ASSUME NEW v \in Worker, Unsettled(v)', NEW u \in Worker, Unsettled(u)',
                   worker'[u].msg.job = worker'[v].msg.job
            PROVE  u = v
        BY <4>1, <4>3 DEF OneCarrierPerJob
      <4> QED
        BY <4>2, <4>3 DEF WorkersOnce, Waiting
    <3>7. HandlersOnce'
      <4>1. ASSUME NEW h \in Handler, handler'[h].pc # "idle"
            PROVE  /\ handler'[h] = handler[h] /\ handler[h].msg.job # m.job
                   /\ ~Waiting(handler[h].msg.job) /\ ~Worked(handler[h].msg.job)
        BY <2>1, <3>1, <4>1 DEF OneCarrierPerJob, Worked
      <4>2. ASSUME NEW h \in Handler, handler'[h].pc # "idle"
            PROVE  ~Waiting(handler[h].msg.job)' /\ ~Worked(handler[h].msg.job)'
        <5>1. handler'[h] = handler[h] /\ handler[h].msg.job # m.job
          BY <4>1, <4>2
        <5> QED
          BY <3>2, <3>3, <4>1, <4>2, <5>1
      <4> QED
        BY <4>1, <4>2 DEF HandlersOnce, Waiting, Worked
    <3> QED
      BY <3>5, <3>6, <3>7, Parts
  <2> QED
    BY <2>3, <2>4
<1>3. CASE Receive(w)
  <2>1. /\ UNCHANGED handler /\ Unsettled(w)' /\ At(w, "idle") /\ 1 \in DOMAIN stream
        /\ worker' = [worker EXCEPT ![w] = Starting("received", stream[1])]
        /\ \A i \in DOMAIN stream' : i + 1 \in DOMAIN stream /\ stream'[i] = stream[i + 1]
                                     /\ i \in Nat \ {0}
    BY <1>3, ReceiveTakes
  <2> DEFINE n == stream[1]
  <2>2. worker'[w].msg = n /\ ~Unsettled(w)
    BY <2>1 DEF Starting, TypeInv, TypeOK, WorkersOK, Unsettled, At
  <2>3. \A v \in Worker : v # w => worker'[v] = worker[v] /\ (Unsettled(v)' <=> Unsettled(v))
    BY <2>1, WorkerElsewhere
  <2>4. \A i \in DOMAIN stream' : stream'[i].job # n.job
    BY <2>1 DEF OneCarrierPerJob
  <2>5. \A j : Waiting(j)' => Waiting(j)
    BY <2>1 DEF Waiting
  <2>6. StreamOnce'
    BY <2>1 DEF OneCarrierPerJob, StreamOnce
  <2>7. \A v \in Worker : Unsettled(v) => worker[v].msg.job # n.job
    BY <2>1 DEF OneCarrierPerJob, Waiting
  <2>8. WorkersOnce'
    BY <2>2, <2>3, <2>4, <2>5, <2>7 DEF OneCarrierPerJob, WorkersOnce, Waiting
  <2>9. HandlersOnce'
    BY <2>1, <2>2, <2>3, <2>5 DEF OneCarrierPerJob, HandlersOnce, Waiting, Worked
  <2> QED
    BY <2>6, <2>8, <2>9, Parts
<1> QED
  BY <1>1, <1>2, <1>3 DEF WorkerRuns, ProcessMessage, Works, Sends

LEMMA OnceHandler ==
  ASSUME XaddIsExact, TypeInv, OwnedInv, OneCarrierPerJob, NEW h \in Handler,
         HandlerStart(h) \/ HandlerRuns(h) \/ HandlerCrash(h)
  PROVE  OneCarrierPerJob'
<1> DEFINE m == handler[h].msg
<1>1. ASSUME UNCHANGED <<stream, worker>>
      PROVE  StreamOnce' /\ WorkersOnce' /\ (\A j : Waiting(j)' <=> Waiting(j)) /\ (\A j : Worked(j)' <=> Worked(j))
  BY <1>1 DEF OneCarrierPerJob, StreamOnce, WorkersOnce, Waiting, Worked, Unsettled, Exhausted
<1>2. CASE HandlerStart(h)
  <2>1. PICK n \in Message : Starts(h, n)
    BY <1>2, StartMessage
  <2>2. ~Waiting(n.job) /\ ~Worked(n.job)
    BY <2>1 DEF Starts, OwnedInv, StreamOwned, WorkersOwned, Owned, Waiting, Worked, Unsettled, At
  <2>3. handler'[h].msg = n /\ \A g \in Handler : g # h => handler'[g] = handler[g]
    BY <2>1 DEF Starts, TypeInv, TypeOK, HandlersOK
  <2>4. StreamOnce' /\ WorkersOnce' /\ (\A j : Waiting(j)' <=> Waiting(j)) /\ (\A j : Worked(j)' <=> Worked(j))
    BY <1>1, <2>1 DEF Starts
  <2>5. HandlersOnce'
    <3>1. ASSUME NEW g \in Handler, handler'[g].pc # "idle"
          PROVE  ~Waiting(handler'[g].msg.job) /\ ~Worked(handler'[g].msg.job)
      BY <2>2, <2>3, <3>1 DEF OneCarrierPerJob
    <3> QED
      BY <2>4, <3>1 DEF HandlersOnce, Waiting, Worked
  <2> QED
    BY <2>4, <2>5, Parts
<1>3. CASE ~HandlerStart(h)
  <2>1. /\ UNCHANGED worker /\ handler[h].pc # "idle" /\ m \in Message
        /\ handler'[h].pc = "idle" \/ handler'[h].msg = m
        /\ \A g \in Handler : g # h => handler'[g] = handler[g]
    BY <1>3, HeldByHandler
       DEF HandlerRuns, MarkDocument, CreateJob, Enqueue, EnqueueRaises, EnqueueTwice, RejectJob,
           RejectDocument, RejectAudit, HandlerCrash, TypeInv, TypeOK, HandlersOK, IdleHandler
  <2>2. CASE UNCHANGED stream
    <3>1. HandlersOnce'
      BY <1>1, <2>1, <2>2 DEF OneCarrierPerJob, HandlersOnce, Waiting, Worked
    <3> QED
      BY <1>1, <2>1, <2>2, <3>1, Parts
  <2>3. CASE ~UNCHANGED stream
    <3>1. Enqueue(h)
      BY <1>3, <2>3
         DEF HandlerRuns, MarkDocument, CreateJob, EnqueueRaises, EnqueueTwice, RejectJob,
             RejectDocument, RejectAudit, HandlerCrash, XaddIsExact, queues
    <3>2. /\ Arrives(m) /\ handler'[h].pc = "idle"
          /\ \A i, k \in DOMAIN stream' \ DOMAIN stream : i = k
      BY <2>1, <3>1, ArrivesOnce DEF Enqueue, IdleHandler, TypeInv, TypeOK, HandlersOK
    <3>3. ~Waiting(m.job) /\ ~Worked(m.job)
      BY <2>1 DEF OneCarrierPerJob
    <3>4. StreamOnce'
      BY <3>2, <3>3 DEF OneCarrierPerJob, StreamOnce, Arrives, Waiting
    <3>5. \A j : Waiting(j)' => Waiting(j) \/ j = m.job
      BY <3>2 DEF Waiting, Arrives
    <3>6. \A j : Worked(j)' <=> Worked(j)
      BY <2>1 DEF Worked, Unsettled, Exhausted
    <3>7. WorkersOnce'
      <4>1. \A w \in Worker : Unsettled(w)' <=> Unsettled(w)
        BY <2>1 DEF Unsettled, Exhausted
      <4>2. ASSUME NEW w \in Worker, Unsettled(w)
            PROVE  worker[w].msg.job # m.job /\ ~Waiting(worker[w].msg.job)
        BY <3>3, <4>2 DEF OneCarrierPerJob, Worked
      <4>3. ASSUME NEW w \in Worker, Unsettled(w), NEW i \in DOMAIN stream'
            PROVE  stream'[i].job # worker[w].msg.job
        BY <3>5, <4>2, <4>3 DEF Waiting
      <4> QED
        BY <2>1, <4>1, <4>3 DEF OneCarrierPerJob, WorkersOnce, Waiting
    <3>8. HandlersOnce'
      BY <2>1, <3>2, <3>5, <3>6 DEF OneCarrierPerJob, HandlersOnce, OwnedInv, HandlersApart, Waiting, Worked
    <3> QED
      BY <3>4, <3>7, <3>8, Parts
  <2> QED
    BY <2>2, <2>3
<1> QED
  BY <1>2, <1>3

(* If XADD is exact, then for any number of workers, requests, failures    *)
(* and crashes the message of a job is at one place at a time: a retry     *)
(* runs after the attempt it replaces has settled, never beside it.        *)
THEOREM OneCarrier == ASSUME XaddIsExact PROVE Spec => []OneCarrierPerJob
<1> DEFINE Inv == TypeInv /\ OwnedInv /\ OneCarrierPerJob
<1>1. Init => Inv
  BY OwnedInit DEF Init, OneCarrierPerJob, Waiting, Worked, Unsettled, IdleWorker, Starting, IdleHandler
<1>2. Inv /\ [Next]_vars => Inv'
  <2> SUFFICES ASSUME Inv, [Next]_vars PROVE OneCarrierPerJob'
    BY OwnedNext
  <2>1. CASE Next
    BY <2>1, OnceWorker, OnceHandler DEF Next
  <2>2. CASE UNCHANGED vars
    BY <2>2, FewerIsOnce DEF vars, queues, Fewer, Unsettled, Exhausted
  <2> QED
    BY <2>1, <2>2
<1>3. Inv => OneCarrierPerJob
  OBVIOUS
<1> QED
  BY <1>1, <1>2, <1>3, PTL DEF Spec
=============================================================================
