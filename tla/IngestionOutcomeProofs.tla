------------------------ MODULE IngestionOutcomeProofs ------------------------
(* What the pipeline tells and what it leaves: theorems about the job      *)
(* table, the audit trail and the status of a document, the index report,  *)
(* and what the backends and the file store hold of ready and removed      *)
(* documents.                                                              *)
EXTENDS IngestionPipelineProofs, KnowledgeReport, FiniteSetTheorems

-----------------------------------------------------------------------------
(* The job table.  The row of a job waits for the very attempt that its    *)
(* message carries, unless the row went with its document.                 *)
Awaits(m) ==
    \/ job[m.job].status = "gone"
    \/ Active(m.job) /\ job[m.job].attempts = m.attempts

\* The attempt worker w still stands for: past RecordFailure it is the next.
Pending(w) == IF worker[w].pc \in {"reflect", "resend"} THEN Again(w) ELSE worker[w].msg

StreamAwaited == \A i \in DOMAIN stream : Awaits(stream[i])
WorkersAwaited == \A w \in Worker : Unsettled(w) => Awaits(Pending(w))
HandlersAwaited ==
    \A h \in Handler :
      /\ handler[h].pc # "idle" => handler[h].msg.attempts = 0
      /\ handler[h].pc \in {"enqueue", "reject_job"} => Awaits(handler[h].msg)
RowsFresh == \A j \in Job : job[j].status = "unused" => job[j].document = None /\ job[j].attempts = 0

AwaitedInv == StreamAwaited /\ WorkersAwaited /\ HandlersAwaited /\ RowsFresh

\* What a step may do to the row of one job, or to those of one document.
Rewritten(j, status, attempts) ==
    job' = [job EXCEPT ![j] = [document |-> job[j].document, status |-> status, attempts |-> attempts]]
Removed(d) ==
    job' = [j \in Job |-> IF JobExists(j) /\ job[j].document = d
                          THEN [job[j] EXCEPT !.status = "gone"] ELSE job[j]]

(* How worker w, at the attempt of message m, moves the row of m's job.    *)
JobMoves(w, m) ==
    /\ Unsettled(w) /\ Active(m.job)
    /\ job[m.job].attempts = m.attempts /\ m.attempts + 1 \in 1..MaxAttempts
    /\ \/ Rewritten(m.job, "processing", m.attempts)
       \/ Exhausted(w) /\ Rewritten(m.job, "failed", m.attempts + 1)
       \/ ~Exhausted(w) /\ Rewritten(m.job, "queued", m.attempts + 1)
       \/ Rewritten(m.job, "succeeded", m.attempts + 1)
       \/ Removed(m.document)

\* A row with another status and attempt count.
LEMMA RowRewritten ==
  ASSUME TypeInv, NEW j \in Job, NEW status, NEW attempts
  PROVE  [job[j] EXCEPT !.status = status, !.attempts = attempts] =
           [document |-> job[j].document, status |-> status, attempts |-> attempts]
<1> DEFINE row == [job[j] EXCEPT !.status = status, !.attempts = attempts]
<1>1. row.document = job[j].document /\ row.status = status /\ row.attempts = attempts
  BY DEF TypeInv, TypeOK, TablesOK
<1>2. row \in [document: Document \cup {None}, status: JobStatus \cup {status},
               attempts: (0..MaxAttempts) \cup {attempts}]
  BY DEF TypeInv, TypeOK, TablesOK
<1> HIDE DEF row
<1>3. row = [document |-> job[j].document, status |-> status, attempts |-> attempts]
  BY <1>1, <1>2
<1> QED
  BY <1>3 DEF row

LEMMA WorkMoves ==
  ASSUME TypeInv, OwnedInv, AwaitedInv, NEW w \in Worker, Works(w)
  PROVE  /\ UNCHANGED job \/ JobMoves(w, worker[w].msg)
         /\ Unsettled(w)' => Awaits(Pending(w))'
<1> DEFINE m == worker[w].msg
<1>1. /\ ~At(w, "idle") /\ m \in Message /\ m.job \in Job /\ m.attempts + 1 \in 1..MaxAttempts
      /\ m.attempts \in Nat /\ Again(w).job = m.job /\ Again(w).attempts = m.attempts + 1
      /\ DOMAIN worker = Worker /\ worker[w] \in WorkerRecord
  BY WorkerAdvances, HeldByWorker, PipelineAssumption
     DEF Message, Again, TypeInv, TypeOK, WorkersOK, WorkerRecord
<1>2. Unsettled(w) => Awaits(Pending(w))
  BY DEF AwaitedInv, WorkersAwaited
<1>3. job[m.job] = [document |-> job[m.job].document, status |-> job[m.job].status,
                    attempts |-> job[m.job].attempts]
  BY <1>1 DEF TypeInv, TypeOK, TablesOK
<1>4. ASSUME worker[w].pc \in Early \cup {"record"}
      PROVE  Unsettled(w) /\ Pending(w) = m /\ Awaits(m)
  BY <1>2, <1>4 DEF Unsettled, Pending, Early
<1>5. CASE MissingJob(w) \/ MissingAtFinish(w) \/ DatabaseRaises(w) \/ MarkProcessing(w) \/ Operation(w)
  <2>1. UNCHANGED job /\ worker[w].pc \in Early /\ worker'[w].pc \in Early \cup {"record"} /\ worker'[w].msg = m
    BY <1>5, EarlyStep
  <2>2. Pending(w)' = m /\ Awaits(m)
    BY <1>4, <2>1 DEF Pending, Early
  <2> QED
    BY <2>1, <2>2 DEF Awaits, Active
<1>6. CASE BeginJob(w)
  <2>1. At(w, "received") /\ Awaits(m) /\ Unsettled(w) /\ JobExists(m.job)
    BY <1>4, <1>6 DEF BeginJob, Early, At
  <2>2. worker'[w].msg = m /\ worker'[w].pc = "marking"
    BY <1>1, <1>6 DEF BeginJob, WorkerRecord
  <2>3. Active(m.job) /\ job[m.job].attempts = m.attempts
    BY <2>1 DEF Awaits, JobExists
  <2>4. Rewritten(m.job, "processing", m.attempts)
    <3>1. [job[m.job] EXCEPT !.status = "processing"] =
            [document |-> job[m.job].document, status |-> "processing", attempts |-> m.attempts]
      BY <1>3, <2>3
    <3>2. job' = [job EXCEPT ![m.job] = [job[m.job] EXCEPT !.status = "processing"]]
      BY <1>6, <2>1 DEF BeginJob, UpdateJob
    <3> QED
      BY <3>1, <3>2 DEF Rewritten
  <2>5. Awaits(Pending(w))'
    BY <1>1, <2>2, <2>4 DEF Pending, Awaits, Active, Rewritten, TypeInv, TypeOK, TablesOK
  <2> QED
    BY <1>1, <2>1, <2>3, <2>4, <2>5 DEF JobMoves
<1>7. CASE SkipJob(w) \/ ReportFailure(w) \/ Acknowledge(w)
  <2>1. UNCHANGED job
    BY <1>7 DEF SkipJob, ReportFailure, Acknowledge, tables
  <2>2. SkipJob(w) \/ ReportFailure(w) => worker'[w].pc = "ack"
    BY Goes DEF SkipJob, ReportFailure
  <2>3. Acknowledge(w) => worker'[w].pc = "idle"
    BY <1>1 DEF Acknowledge, IdleWorker, Starting
  <2> QED
    BY <1>7, <2>1, <2>2, <2>3 DEF Unsettled
<1>8. CASE Finish(w)
  <2>1. worker'[w].pc = "ack" /\ Awaits(m) /\ Unsettled(w) /\ JobExists(m.job)
    BY <1>4, <1>8, Goes DEF Finish, Early, At
  <2>2. Active(m.job) /\ job[m.job].attempts = m.attempts
    BY <2>1 DEF Awaits, JobExists
  <2>3. m.operation = "delete" => Removed(m.document)
    BY <1>8 DEF Finish, Removed
  <2>4. m.operation # "delete" => Rewritten(m.job, "succeeded", m.attempts + 1)
    <3>1. ASSUME m.operation # "delete"
          PROVE  job' = [job EXCEPT ![m.job].status = "succeeded", ![m.job].attempts = m.attempts + 1]
      BY <1>8, <3>1 DEF Finish
    <3> QED
      BY <1>1, <1>3, <3>1 DEF Rewritten, TypeInv, TypeOK, TablesOK
  <2> QED
    BY <1>1, <2>1, <2>2, <2>3, <2>4 DEF JobMoves, Unsettled
<1>9. CASE RecordFailure(w)
  <2>1. At(w, "record") /\ Awaits(m) /\ Unsettled(w)
    BY <1>4, <1>9 DEF RecordFailure, At
  <2>2. worker'[w].msg = m /\ worker'[w].pc = "reflect"
    BY <1>9, Goes DEF RecordFailure
  <2>3. (Exhausted(w)' <=> Exhausted(w)) /\ Pending(w)' = Again(w)
    BY <2>2 DEF Exhausted, Pending, Again
  <2>4. CASE job[m.job].status = "gone"
    <3>1. UNCHANGED job
      BY <1>1, <1>9, <2>4 DEF RecordFailure, UpdateJob, JobExists
    <3> QED
      BY <1>1, <2>3, <2>4, <3>1 DEF Awaits
  <2>5. CASE job[m.job].status # "gone"
    <3>1. Active(m.job) /\ job[m.job].attempts = m.attempts
      BY <2>1, <2>5 DEF Awaits
    <3>2. Rewritten(m.job, IF Exhausted(w) THEN "failed" ELSE "queued", m.attempts + 1)
      <4> DEFINE status == IF Exhausted(w) THEN "failed" ELSE "queued"
                 row == [job[m.job] EXCEPT !.status = status, !.attempts = m.attempts + 1]
      <4>1. UpdateJob(m.job, row)
        BY <1>1, <1>9 DEF RecordFailure
      <4>2. row = [document |-> job[m.job].document, status |-> status, attempts |-> m.attempts + 1]
        BY <1>1, RowRewritten
      <4> HIDE DEF row, status
      <4>3. job' = [job EXCEPT ![m.job] = row]
        BY <3>1, <4>1 DEF UpdateJob, JobExists, Active
      <4> QED
        BY <4>2, <4>3 DEF Rewritten, status
    <3>3. Unsettled(w)' => ~Exhausted(w)
      BY <2>2, <2>3 DEF Unsettled
    <3>4. ~Exhausted(w) => Awaits(Again(w))'
      BY <1>1, <2>2, <3>2 DEF Awaits, Active, Rewritten, Again, TypeInv, TypeOK, TablesOK
    <3> QED
      BY <1>1, <2>1, <2>2, <2>3, <3>1, <3>2, <3>3, <3>4 DEF JobMoves, Pending
  <2> QED
    BY <2>4, <2>5
<1>10. CASE ReflectFailure(w)
  <2>1. UNCHANGED job /\ worker'[w].pc = "resend" /\ worker'[w].msg = m /\ At(w, "reflect")
    BY <1>10, Goes DEF ReflectFailure
  <2>2. (Unsettled(w)' => Unsettled(w)) /\ Pending(w)' = Pending(w)
    BY <2>1 DEF Unsettled, Exhausted, Pending, Again, At
  <2> QED
    BY <1>2, <2>1, <2>2 DEF Awaits, Active
<1> QED
  BY <1>5, <1>6, <1>7, <1>8, <1>9, <1>10 DEF Works

(* A step that moves the row of one job, or removes the rows of one        *)
(* document, leaves what the messages of all other jobs wait for.          *)
LEMMA OthersAwait ==
  ASSUME TypeInv, OwnedInv, AwaitedInv, NEW w, NEW m \in Message, Owned(m), JobMoves(w, m)
  PROVE  /\ \A n \in Message : Awaits(n) /\ n.job # m.job => Awaits(n)'
         /\ RowsFresh'
<1>1. m.job \in Job /\ m.document \in Document /\ \A n \in Message : n.job \in Job
  BY DEF Message
<1>2. CASE Removed(m.document)
  <2>1. \A j \in Job : \/ job'[j] = job[j]
                       \/ job[j].status # "unused" /\ job'[j].status = "gone"
    BY <1>2 DEF Removed, JobExists, TypeInv, TypeOK, TablesOK
  <2> QED
    BY <1>1, <2>1 DEF Awaits, Active, AwaitedInv, RowsFresh
<1>3. ASSUME NEW status \in {"processing", "failed", "queued", "succeeded"}, NEW attempts,
             Rewritten(m.job, status, attempts)
      PROVE  /\ \A n \in Message : Awaits(n) /\ n.job # m.job => Awaits(n)'
             /\ RowsFresh'
  BY <1>1, <1>3 DEF Rewritten, Awaits, Active, AwaitedInv, RowsFresh, TypeInv, TypeOK, TablesOK
<1> QED
  BY <1>2, <1>3 DEF JobMoves

LEMMA AwaitedWorker ==
  ASSUME TypeInv, OwnedInv, OneCarrierPerJob, AwaitedInv,
         NEW w \in Worker, WorkerRuns(w) \/ WorkerCrash(w)
  PROVE  AwaitedInv'
<1> DEFINE m == worker[w].msg
<1>1. ASSUME NEW r, worker' = [worker EXCEPT ![w] = r]
      PROVE  \A v \in Worker : v # w =>
               worker'[v] = worker[v] /\ (Unsettled(v)' <=> Unsettled(v)) /\ Pending(v)' = Pending(v)
  <2>1. \A v \in Worker : v # w => worker'[v] = worker[v] /\ (Unsettled(v)' <=> Unsettled(v))
    BY <1>1, WorkerElsewhere
  <2>2. ASSUME NEW v, worker'[v] = worker[v] PROVE Pending(v)' = Pending(v)
    BY <2>2 DEF Pending, Again
  <2> QED
    BY <2>1, <2>2
<1>2. \A v \in Worker : Unsettled(v) => Pending(v) \in Message /\ Pending(v).job = worker[v].msg.job
  <2> SUFFICES ASSUME NEW v \in Worker, Unsettled(v)
               PROVE  Pending(v) \in Message /\ Pending(v).job = worker[v].msg.job
    OBVIOUS
  <2>1. /\ worker[v].msg \in Message /\ worker[v].msg.attempts + 1 \in 0..MaxAttempts
    BY HeldByWorker, PipelineAssumption DEF Unsettled, At
  <2> QED
    BY <2>1 DEF Pending, Again, Message
<1>3. \A i \in DOMAIN stream : stream[i] \in Message
  BY DEF TypeInv, TypeOK, QueuesOK
<1>4. CASE Works(w)
  <2>1. /\ UNCHANGED <<stream, handler>> /\ m \in Message /\ Owned(m)
        /\ \E r \in WorkerRecord : worker' = [worker EXCEPT ![w] = r]
    BY <1>4, WorkerAdvances
       DEF Works, BeginJob, SkipJob, MissingJob, MarkProcessing, Operation, Parse, ParseRaises,
           InsertBackend, ClearBackend, Publish, Unlink, Finish, MissingAtFinish, DatabaseRaises,
           RecordFailure, ReflectFailure, ReportFailure, Acknowledge, queues, Advances, OwnedInv,
           WorkersOwned
  <2>2. Unsettled(w)' => Awaits(Pending(w))'
    BY <1>4, WorkMoves
  <2>3. \A v \in Worker : v # w =>
          worker'[v] = worker[v] /\ (Unsettled(v)' <=> Unsettled(v)) /\ Pending(v)' = Pending(v)
    BY <1>1, <2>1
  <2>4. CASE UNCHANGED job
    BY <2>1, <2>2, <2>3, <2>4
       DEF AwaitedInv, StreamAwaited, WorkersAwaited, HandlersAwaited, RowsFresh, Awaits, Active
  <2>5. CASE JobMoves(w, m)
    <3>1. (\A n \in Message : Awaits(n) /\ n.job # m.job => Awaits(n)') /\ RowsFresh'
      BY <2>1, <2>5, OthersAwait
    <3>2. Unsettled(w)
      BY <2>5 DEF JobMoves
    <3>3. \A i \in DOMAIN stream : stream[i].job # m.job
      BY <3>2 DEF OneCarrierPerJob, Waiting
    <3>4. StreamAwaited'
      BY <1>3, <2>1, <3>1, <3>3 DEF AwaitedInv, StreamAwaited, Awaits, Active
    <3>5. ASSUME NEW v \in Worker, Unsettled(v)', v # w PROVE Awaits(Pending(v))'
      <4>1. Unsettled(v) /\ Pending(v)' = Pending(v)
        BY <2>3, <3>5
      <4>2. Pending(v) \in Message /\ Pending(v).job # m.job /\ Awaits(Pending(v))
        BY <1>2, <3>2, <3>5, <4>1 DEF OneCarrierPerJob, AwaitedInv, WorkersAwaited
      <4>3. Awaits(Pending(v)) /\ Pending(v).job # m.job => Awaits(Pending(v))'
        BY <3>1, <4>1, <4>2 DEF Awaits, Active
      <4> QED
        BY <4>2, <4>3
    <3>6. WorkersAwaited'
      BY <2>2, <3>5 DEF WorkersAwaited
    <3>7. \A h \in Handler : handler[h].pc # "idle" =>
            handler[h].msg \in Message /\ handler[h].msg.job # m.job
      BY <3>2, HeldByHandler DEF OneCarrierPerJob, Worked
    <3>8. HandlersAwaited'
      BY <2>1, <3>1, <3>7 DEF AwaitedInv, HandlersAwaited, Awaits, Active
    <3> QED
      BY <3>1, <3>4, <3>6, <3>8 DEF AwaitedInv
  <2> QED
    BY <1>4, <2>4, <2>5, WorkMoves
<1>5. CASE Sends(w)
  <2>1. /\ UNCHANGED <<job, handler>> /\ ~Unsettled(w)'
        /\ \E r \in WorkerRecord : worker' = [worker EXCEPT ![w] = r]
    BY <1>5, SendArrives, WorkerAdvances DEF Advances
  <2>2. StreamAwaited'
    <3>1. CASE UNCHANGED stream
      BY <2>1, <3>1 DEF AwaitedInv, StreamAwaited, Awaits, Active
    <3>2. CASE Unsettled(w) /\ Arrives(Again(w))
      <4>1. Pending(w) = Again(w)
        BY <1>5 DEF Sends, Resend, ResendTwice, Pending, At
      <4> QED
        BY <2>1, <3>2, <4>1 DEF AwaitedInv, StreamAwaited, WorkersAwaited, Awaits, Active, Arrives
    <3> QED
      BY <1>5, <3>1, <3>2, SendArrives
  <2>3. WorkersAwaited'
    BY <1>1, <2>1 DEF AwaitedInv, WorkersAwaited, Awaits, Active
  <2> QED
    BY <2>1, <2>2, <2>3 DEF AwaitedInv, HandlersAwaited, RowsFresh, Awaits, Active
<1>6. CASE Receive(w)
  <2>1. /\ UNCHANGED <<job, handler>> /\ 1 \in DOMAIN stream
        /\ worker' = [worker EXCEPT ![w] = Starting("received", stream[1])]
        /\ \A i \in DOMAIN stream' : i + 1 \in DOMAIN stream /\ stream'[i] = stream[i + 1]
    BY <1>6, ReceiveTakes
  <2>2. Pending(w)' = stream[1]
    BY <2>1 DEF Pending, Starting, TypeInv, TypeOK, WorkersOK
  <2>3. WorkersAwaited'
    BY <1>1, <2>1, <2>2 DEF AwaitedInv, StreamAwaited, WorkersAwaited, Awaits, Active
  <2>4. StreamAwaited'
    BY <2>1 DEF AwaitedInv, StreamAwaited, Awaits, Active
  <2> QED
    BY <2>1, <2>3, <2>4 DEF AwaitedInv, HandlersAwaited, RowsFresh, Awaits, Active
<1>7. CASE WorkerCrash(w)
  <2>1. UNCHANGED <<job, handler, stream>> /\ worker' = [worker EXCEPT ![w] = IdleWorker]
    BY <1>7 DEF WorkerCrash, tables, queues
  <2>2. ~Unsettled(w)'
    BY <2>1 DEF Unsettled, IdleWorker, Starting, TypeInv, TypeOK, WorkersOK
  <2> QED
    BY <1>1, <2>1, <2>2
       DEF AwaitedInv, StreamAwaited, WorkersAwaited, HandlersAwaited, RowsFresh, Awaits, Active
<1> QED
  BY <1>4, <1>5, <1>6, <1>7 DEF WorkerRuns, ProcessMessage, Works, Sends

\* How request h moves the row of its job.
HandlerMoves(h, m) ==
    \/ /\ job[m.job].status = "unused" /\ handler[h].pc = "create"
       /\ job' = [job EXCEPT ![m.job] = [document |-> m.document, status |-> "queued", attempts |-> 0]]
    \/ /\ Active(m.job) /\ job[m.job].attempts = 0 /\ handler[h].pc = "reject_job"
       /\ Rewritten(m.job, "failed", 0)

LEMMA HandlerActs ==
  ASSUME TypeInv, OwnedInv, AwaitedInv, NEW h \in Handler, HandlerRuns(h) \/ HandlerCrash(h)
  PROVE  /\ UNCHANGED job \/ HandlerMoves(h, handler[h].msg)
         /\ UNCHANGED worker /\ handler[h].pc # "idle"
         /\ \A g \in Handler : g # h => handler'[g] = handler[g]
         /\ \/ handler'[h].pc = "idle"
            \/ /\ handler'[h].msg = handler[h].msg
               /\ handler'[h].pc = "reject_job" => handler[h].pc = "enqueue"
               /\ handler'[h].pc = "enqueue" => ~UNCHANGED job
<1> DEFINE m == handler[h].msg
           GoesOn == /\ \A g \in Handler : g # h => handler'[g] = handler[g]
                     /\ \/ handler'[h].pc = "idle"
                        \/ /\ handler'[h].msg = m
                           /\ handler'[h].pc = "reject_job" => handler[h].pc = "enqueue"
                           /\ handler'[h].pc = "enqueue" => ~UNCHANGED job
<1> HIDE DEF GoesOn
<1>1. UNCHANGED worker /\ handler[h].pc # "idle"
  BY DEF HandlerRuns, MarkDocument, CreateJob, Enqueue, EnqueueRaises, EnqueueTwice, RejectJob,
         RejectDocument, RejectAudit, HandlerCrash
<1>2. m \in Message /\ m.job \in Job /\ handler[h] = [pc |-> handler[h].pc, msg |-> m]
  BY <1>1, HeldByHandler DEF TypeInv, TypeOK, HandlersOK
<1>3. ASSUME \/ handler' = [handler EXCEPT ![h].pc = "create"]
             \/ handler' = [handler EXCEPT ![h].pc = "enqueue"] /\ ~UNCHANGED job
             \/ handler' = [handler EXCEPT ![h].pc = "reject_job"] /\ handler[h].pc = "enqueue"
             \/ handler' = [handler EXCEPT ![h].pc = "reject_document"]
             \/ handler' = [handler EXCEPT ![h].pc = "reject_audit"]
      PROVE  GoesOn
  BY <1>3 DEF GoesOn, TypeInv, TypeOK, HandlersOK
<1>4. ASSUME handler' = [handler EXCEPT ![h] = IdleHandler] PROVE GoesOn
  BY <1>4 DEF GoesOn, IdleHandler, TypeInv, TypeOK, HandlersOK
<1>5. CASE CreateJob(h)
  <2>1. CASE Exists(m.document)
    <3>1. HandlerMoves(h, m)
      BY <1>1, <1>5, <2>1 DEF CreateJob, HandlerMoves, OwnedInv, HandlersOwned
    <3>2. ~UNCHANGED job
      <4>1. job[m.job].status = "unused" /\ job'[m.job].status = "queued"
        BY <1>1, <1>2, <1>5, <2>1 DEF CreateJob, OwnedInv, HandlersOwned, TypeInv, TypeOK, TablesOK
      <4> QED
        BY <4>1
    <3>3. GoesOn
      BY <1>3, <1>5, <2>1, <3>2 DEF CreateJob
    <3> QED
      BY <1>1, <3>1, <3>3 DEF GoesOn
  <2>2. CASE ~Exists(m.document)
    BY <1>1, <1>4, <1>5, <2>2 DEF CreateJob, GoesOn
  <2> QED
    BY <2>1, <2>2
<1>6. CASE RejectJob(h)
  <2>1. handler[h].pc = "reject_job" /\ Awaits(m) /\ m.attempts = 0
    BY <1>6 DEF RejectJob, AwaitedInv, HandlersAwaited
  <2> GoesOn
    BY <1>3, <1>6 DEF RejectJob
  <2>2. CASE job[m.job].status = "gone"
    BY <1>1, <1>6, <2>1, <2>2 DEF RejectJob, UpdateJob, JobExists, GoesOn
  <2>3. CASE job[m.job].status # "gone"
    <3>1. Active(m.job) /\ job[m.job].attempts = 0
      BY <2>1, <2>3 DEF Awaits
    <3>2. job' = [job EXCEPT ![m.job] = [job[m.job] EXCEPT !.status = "failed"]]
      BY <1>6, <3>1 DEF RejectJob, UpdateJob, JobExists, Active
    <3>3. [job[m.job] EXCEPT !.status = "failed"] =
            [document |-> job[m.job].document, status |-> "failed", attempts |-> 0]
      BY <1>2, <3>1 DEF TypeInv, TypeOK, TablesOK
    <3>4. HandlerMoves(h, m)
      BY <2>1, <3>1, <3>2, <3>3 DEF HandlerMoves, Rewritten
    <3> QED
      BY <1>1, <2>1, <3>4 DEF GoesOn
  <2> QED
    BY <2>2, <2>3
<1>7. CASE MarkDocument(h) \/ Enqueue(h) \/ EnqueueRaises(h) \/ EnqueueTwice(h) \/ RejectDocument(h)
             \/ RejectAudit(h) \/ HandlerCrash(h)
  <2>1. UNCHANGED job
    BY <1>7
       DEF MarkDocument, Enqueue, EnqueueRaises, EnqueueTwice, RejectDocument, RejectAudit,
           HandlerCrash, tables
  <2>2. GoesOn
    <3>1. CASE MarkDocument(h)
      <4>1. \/ handler' = [handler EXCEPT ![h] = IdleHandler]
            \/ handler' = [handler EXCEPT ![h].pc = "create"]
        <5>1. CASE Exists(m.document)
          <6>1. handler' = [handler EXCEPT ![h] = [handler[h] EXCEPT !.pc = "create"]]
            BY <3>1, <5>1 DEF MarkDocument
          <6> QED
            BY <6>1
        <5>2. CASE ~Exists(m.document)
          BY <3>1, <5>2 DEF MarkDocument
        <5> QED
          BY <5>1, <5>2
      <4> QED
        BY <1>3, <1>4, <4>1
    <3>2. CASE ~MarkDocument(h)
      BY <1>3, <1>4, <1>7, <3>2
         DEF Enqueue, EnqueueRaises, EnqueueTwice, RejectDocument, RejectAudit, HandlerCrash
    <3> QED
      BY <3>1, <3>2
  <2> QED
    BY <1>1, <2>1, <2>2 DEF GoesOn
<1> QED
  BY <1>5, <1>6, <1>7 DEF HandlerRuns

LEMMA AwaitedHandler ==
  ASSUME XaddIsExact, TypeInv, OwnedInv, OneCarrierPerJob, AwaitedInv, NEW h \in Handler,
         HandlerStart(h) \/ HandlerRuns(h) \/ HandlerCrash(h)
  PROVE  AwaitedInv'
<1> DEFINE m == handler[h].msg
<1>1. ASSUME UNCHANGED worker
      PROVE  \A w \in Worker : (Unsettled(w)' <=> Unsettled(w)) /\ Pending(w)' = Pending(w)
  BY <1>1 DEF Unsettled, Exhausted, Pending, Again
<1>2. ASSUME NEW w \in Worker, Unsettled(w)
      PROVE  Pending(w) \in Message /\ Pending(w).job = worker[w].msg.job
  <2>1. worker[w].msg \in Message /\ worker[w].msg.attempts + 1 \in 0..MaxAttempts
    BY <1>2, HeldByWorker, PipelineAssumption DEF Unsettled, At
  <2> QED
    BY <2>1 DEF Pending, Again, Message
<1>3. CASE HandlerStart(h)
  <2>1. PICK n \in Message : Starts(h, n) /\ n.attempts = 0
    BY <1>3, StartMessage
  <2>2. handler'[h] = [pc |-> "mark", msg |-> n] /\ \A g \in Handler : g # h => handler'[g] = handler[g]
    BY <2>1 DEF Starts, TypeInv, TypeOK, HandlersOK
  <2>3. HandlersAwaited'
    BY <2>1, <2>2 DEF Starts, AwaitedInv, HandlersAwaited, Awaits, Active
  <2>4. StreamAwaited' /\ WorkersAwaited' /\ RowsFresh'
    BY <1>1, <2>1 DEF Starts, AwaitedInv, StreamAwaited, WorkersAwaited, RowsFresh, Awaits, Active
  <2> QED
    BY <2>3, <2>4 DEF AwaitedInv
<1>4. CASE HandlerRuns(h) \/ HandlerCrash(h)
  <2>1. /\ UNCHANGED worker /\ handler[h].pc # "idle" /\ m \in Message /\ m.job \in Job
        /\ \A g \in Handler : g # h => handler'[g] = handler[g]
        /\ \/ handler'[h].pc = "idle"
           \/ /\ handler'[h].msg = m
              /\ handler'[h].pc = "reject_job" => handler[h].pc = "enqueue"
              /\ handler'[h].pc = "enqueue" => ~UNCHANGED job
    BY <1>4, HandlerActs, HeldByHandler
  <2>2. UNCHANGED job \/ HandlerMoves(h, m)
    BY <1>4, HandlerActs
  <2>3. CASE UNCHANGED job
    <3>1. UNCHANGED stream \/ (Arrives(m) /\ handler[h].pc = "enqueue")
      BY <1>4, <2>1, ArrivesOnce
         DEF HandlerRuns, MarkDocument, CreateJob, Enqueue, EnqueueRaises, EnqueueTwice, RejectJob,
             RejectDocument, RejectAudit, HandlerCrash, XaddIsExact, TypeInv, TypeOK, queues
    <3>2. StreamAwaited'
      BY <2>3, <3>1 DEF AwaitedInv, StreamAwaited, HandlersAwaited, Arrives, Awaits, Active
    <3>3. HandlersAwaited'
      BY <2>1, <2>3 DEF AwaitedInv, HandlersAwaited, Awaits, Active
    <3> QED
      BY <1>1, <2>1, <2>3, <3>2, <3>3 DEF AwaitedInv, WorkersAwaited, RowsFresh, Awaits, Active
  <2>4. CASE HandlerMoves(h, m)
    <3>1. UNCHANGED stream
      BY <1>4, <2>4
         DEF HandlerRuns, MarkDocument, CreateJob, Enqueue, EnqueueRaises, EnqueueTwice, RejectJob,
             RejectDocument, RejectAudit, HandlerCrash, HandlerMoves, Rewritten, queues
    <3>2. \A j \in Job : j # m.job => job'[j] = job[j]
      BY <2>1, <2>4 DEF HandlerMoves, Rewritten, TypeInv, TypeOK, TablesOK
    <3>3. job'[m.job].status # "unused" /\ (handler'[h].pc = "enqueue" => Awaits(m)')
      <4>1. m.attempts = 0
        BY <2>1 DEF AwaitedInv, HandlersAwaited
      <4>2. \/ job'[m.job] = [document |-> m.document, status |-> "queued", attempts |-> 0]
            \/ /\ job'[m.job] = [document |-> job[m.job].document, status |-> "failed", attempts |-> 0]
               /\ handler[h].pc = "reject_job"
        BY <2>1, <2>4 DEF HandlerMoves, Rewritten, TypeInv, TypeOK, TablesOK
      <4>3. handler[h].pc = "reject_job" => handler'[h].pc # "enqueue"
        BY <1>4, HeldByHandler
           DEF HandlerRuns, MarkDocument, CreateJob, Enqueue, EnqueueRaises, EnqueueTwice, RejectJob,
               RejectDocument, RejectAudit, HandlerCrash, IdleHandler, TypeInv, TypeOK, HandlersOK
      <4> QED
        BY <2>1, <4>1, <4>2, <4>3 DEF Awaits, Active
    <3>4. \A n \in Message : Awaits(n) /\ n.job # m.job => Awaits(n)'
      BY <3>2 DEF Awaits, Active, Message
    <3>5. StreamAwaited'
      <4>1. \A i \in DOMAIN stream : stream[i] \in Message /\ stream[i].job # m.job
        BY <2>1 DEF OneCarrierPerJob, Waiting, TypeInv, TypeOK, QueuesOK
      <4> QED
        BY <3>1, <3>4, <4>1 DEF AwaitedInv, StreamAwaited, Awaits, Active
    <3>6. WorkersAwaited'
      <4> SUFFICES ASSUME NEW w \in Worker, Unsettled(w) PROVE Awaits(Pending(w))'
        BY <1>1, <2>1 DEF WorkersAwaited
      <4>1. Pending(w)' = Pending(w) /\ Pending(w) \in Message /\ Pending(w).job # m.job
        BY <1>1, <1>2, <2>1 DEF OneCarrierPerJob, Worked
      <4>2. Awaits(Pending(w))
        BY DEF AwaitedInv, WorkersAwaited
      <4> QED
        BY <3>4, <4>1, <4>2 DEF Awaits, Active
    <3>7. HandlersAwaited'
      <4>1. ASSUME NEW g \in Handler, g # h, handler[g].pc # "idle"
            PROVE  handler[g].msg \in Message /\ handler[g].msg.job # m.job
        BY <2>1, <4>1, HeldByHandler DEF OwnedInv, HandlersApart
      <4>2. handler'[h].pc # "reject_job"
        BY <2>1, <2>4 DEF HandlerMoves
      <4> QED
        BY <2>1, <3>3, <3>4, <4>1, <4>2 DEF AwaitedInv, HandlersAwaited, Awaits, Active
    <3>8. RowsFresh'
      BY <3>2, <3>3 DEF AwaitedInv, RowsFresh
    <3> QED
      BY <3>5, <3>6, <3>7, <3>8 DEF AwaitedInv
  <2> QED
    BY <2>2, <2>3, <2>4
<1> QED
  BY <1>3, <1>4

LEMMA AwaitedInit == Init => AwaitedInv
BY DEF Init, AwaitedInv, StreamAwaited, WorkersAwaited, HandlersAwaited, RowsFresh, Unsettled,
       IdleWorker, Starting, IdleHandler

\* What holds of the job table if XADD is exact.
JobInv == TypeInv /\ OwnedInv /\ OneCarrierPerJob /\ AwaitedInv

LEMMA JobInvNext == XaddIsExact /\ JobInv /\ [Next]_vars => JobInv'
<1> SUFFICES ASSUME XaddIsExact, JobInv, [Next]_vars PROVE JobInv'
  OBVIOUS
<1>1. TypeInv' /\ OwnedInv'
  BY OwnedNext DEF JobInv
<1>2. CASE Next
  BY <1>1, <1>2, OnceWorker, OnceHandler, AwaitedWorker, AwaitedHandler DEF Next, JobInv
<1>3. CASE UNCHANGED vars
  <2>1. OneCarrierPerJob'
    BY <1>3, FewerIsOnce DEF vars, queues, Fewer, Unsettled, Exhausted, JobInv
  <2>2. AwaitedInv'
    BY <1>3 DEF vars, tables, queues, JobInv, AwaitedInv, StreamAwaited, WorkersAwaited,
                HandlersAwaited, RowsFresh, Unsettled, Exhausted, Pending, Again, Awaits, Active
  <2> QED
    BY <1>1, <2>1, <2>2 DEF JobInv
<1> QED
  BY <1>2, <1>3

LEMMA JobInvInit == Init => JobInv
BY OwnedInit, AwaitedInit
   DEF Init, JobInv, OneCarrierPerJob, Waiting, Worked, Unsettled, IdleWorker, Starting, IdleHandler

-----------------------------------------------------------------------------
(* The pipeline implements the promise of the job table.                   *)
LEMMA Phases ==
  /\ PhaseOf["unused"] = "unrequested" /\ PhaseOf["queued"] = "open" /\ PhaseOf["processing"] = "open"
  /\ PhaseOf["succeeded"] = "succeeded" /\ PhaseOf["failed"] = "failed" /\ PhaseOf["gone"] = "removed"
BY DEF PhaseOf

LedgerSteps == Ledger!Next \/ UNCHANGED Ledger!ledger

(* One row is written: what a reader of the table sees of it.              *)
Shows(j, document, phase, tries) ==
  /\ [i \in Job |-> job'[i].document] = [[i \in Job |-> job[i].document] EXCEPT ![j] = document]
  /\ [i \in Job |-> PhaseOf[job'[i].status]] =
       [[i \in Job |-> PhaseOf[job[i].status]] EXCEPT ![j] = phase]
  /\ [i \in Job |-> job'[i].attempts] = [[i \in Job |-> job[i].attempts] EXCEPT ![j] = tries]

LEMMA LedgerRow ==
  ASSUME TypeInv, NEW j \in Job, NEW document, NEW status, NEW attempts,
         job' = [job EXCEPT ![j] = [document |-> document, status |-> status, attempts |-> attempts]]
  PROVE  Shows(j, document, PhaseOf[status], attempts)
BY DEF TypeInv, TypeOK, TablesOK, Shows

LEMMA LedgerRewritten ==
  ASSUME TypeInv, NEW j \in Job, NEW status, NEW attempts, Rewritten(j, status, attempts)
  PROVE  Shows(j, job[j].document, PhaseOf[status], attempts)
BY LedgerRow DEF Rewritten

LEMMA LedgerTried ==
  ASSUME NEW j \in Job, NEW next, PhaseOf[job[j].status] = "open", job[j].attempts < MaxAttempts,
         Shows(j, job[j].document, next, job[j].attempts + 1)
  PROVE  Ledger!Try(j, next)
BY DEF Shows, Ledger!Try

LEMMA LedgerWork ==
  ASSUME TypeInv, OwnedInv, AwaitedInv, NEW w \in Worker, NEW m \in Message, Owned(m), JobMoves(w, m),
         Exhausted(w) <=> m.attempts + 1 >= MaxAttempts
  PROVE  LedgerSteps
<1> DEFINE j == m.job
<1>1. /\ j \in Job /\ m.document \in Document /\ m.attempts \in Nat /\ m.attempts + 1 \in 0..MaxAttempts
      /\ m.attempts \in 0..MaxAttempts /\ job[j].document = m.document /\ job[j].attempts = m.attempts
      /\ PhaseOf[job[j].status] = "open"
  BY Phases, PipelineAssumption DEF Message, Owned, JobMoves, Active
<1>2. CASE Removed(m.document)
  <2>1. /\ [i \in Job |-> job'[i].document] = [i \in Job |-> job[i].document]
        /\ [i \in Job |-> job'[i].attempts] = [i \in Job |-> job[i].attempts]
        /\ [i \in Job |-> PhaseOf[job'[i].status]] =
             [i \in Job |-> IF job[i].document = m.document THEN "removed" ELSE PhaseOf[job[i].status]]
    <3>1. ASSUME NEW i \in Job
          PROVE  /\ job'[i].document = job[i].document /\ job'[i].attempts = job[i].attempts
                 /\ PhaseOf[job'[i].status] =
                      IF job[i].document = m.document THEN "removed" ELSE PhaseOf[job[i].status]
      <4>1. CASE JobExists(i) /\ job[i].document = m.document
        BY <1>2, <3>1, <4>1, Phases DEF Removed, TypeInv, TypeOK, TablesOK
      <4>2. CASE ~(JobExists(i) /\ job[i].document = m.document)
        <5>1. job'[i] = job[i]
          BY <1>2, <3>1, <4>2 DEF Removed
        <5>2. job[i].document = m.document => job[i].status = "gone"
          BY <1>1, <4>2, NoneAssumption DEF JobExists, AwaitedInv, RowsFresh
        <5> QED
          BY <5>1, <5>2, Phases
      <4> QED
        BY <4>1, <4>2
    <3> QED
      BY <3>1
  <2>2. Ledger!Remove(m.document)
    BY <1>1, <2>1 DEF Ledger!Remove
  <2> QED
    BY <1>1, <2>2 DEF LedgerSteps, Ledger!Next
<1> HIDE DEF j
<1>3. CASE Rewritten(j, "processing", m.attempts)
  <2>1. Shows(j, job[j].document, "open", m.attempts)
    BY <1>1, <1>3, LedgerRewritten, Phases DEF j
  <2> QED
    BY <1>1, <2>1 DEF Shows, LedgerSteps, Ledger!ledger
<1>4. CASE Exhausted(w) /\ Rewritten(j, "failed", m.attempts + 1)
  <2>1. Shows(j, job[j].document, "failed", m.attempts + 1)
    BY <1>1, <1>4, LedgerRewritten, Phases
  <2>2. m.attempts + 1 = MaxAttempts /\ m.attempts < MaxAttempts
    BY <1>1, <1>4, PipelineAssumption
  <2>3. Ledger!Try(j, "failed")
    BY <1>1, <2>1, <2>2, LedgerTried
  <2>4. Ledger!GiveUp(j)
    BY <1>1, <2>2, <2>3 DEF Ledger!GiveUp
  <2> QED
    BY <1>1, <2>4 DEF LedgerSteps, Ledger!Next
<1>5. CASE ~Exhausted(w) /\ Rewritten(j, "queued", m.attempts + 1)
  <2>1. Shows(j, job[j].document, "open", m.attempts + 1)
    BY <1>1, <1>5, LedgerRewritten, Phases
  <2>2. m.attempts + 1 < MaxAttempts /\ m.attempts < MaxAttempts
    BY <1>1, <1>5, PipelineAssumption
  <2>3. Ledger!Try(j, "open")
    BY <1>1, <2>1, <2>2, LedgerTried
  <2>4. Ledger!Retry(j)
    BY <1>1, <2>2, <2>3 DEF Ledger!Retry
  <2> QED
    BY <1>1, <2>4 DEF LedgerSteps, Ledger!Next
<1>6. CASE Rewritten(j, "succeeded", m.attempts + 1)
  <2>1. Shows(j, job[j].document, "succeeded", m.attempts + 1) /\ m.attempts < MaxAttempts
    BY <1>1, <1>6, LedgerRewritten, Phases, PipelineAssumption
  <2>2. Ledger!Succeed(j)
    BY <1>1, <2>1, LedgerTried DEF Ledger!Succeed
  <2> QED
    BY <1>1, <2>2 DEF LedgerSteps, Ledger!Next
<1> QED
  BY <1>2, <1>3, <1>4, <1>5, <1>6 DEF JobMoves, j

LEMMA LedgerHandler ==
  ASSUME TypeInv, OwnedInv, AwaitedInv, NEW h \in Handler, NEW m \in Message, HandlerMoves(h, m)
  PROVE  LedgerSteps
<1> DEFINE j == m.job
<1>1. j \in Job /\ m.document \in Document /\ 0 \in 0..MaxAttempts
  BY PipelineAssumption DEF Message
<1>2. CASE /\ job[j].status = "unused"
           /\ job' = [job EXCEPT ![j] = [document |-> m.document, status |-> "queued", attempts |-> 0]]
  <2>1. job[j].attempts = 0
    BY <1>1, <1>2 DEF AwaitedInv, RowsFresh
  <2>2. Ledger!Request(j, m.document)
    <3>1. Shows(j, m.document, "open", 0)
      BY <1>1, <1>2, LedgerRow, Phases
    <3> QED
      BY <1>1, <1>2, <2>1, <3>1, Phases DEF Shows, Ledger!Request
  <2> QED
    BY <1>1, <2>2 DEF LedgerSteps, Ledger!Next
<1>3. CASE Active(j) /\ job[j].attempts = 0 /\ Rewritten(j, "failed", 0)
  <2>1. PhaseOf[job[j].status] = "open" /\ job[j].document \in Document \cup {None}
    BY <1>1, <1>3, Phases DEF Active, TypeInv, TypeOK, TablesOK
  <2>2. Ledger!Refuse(j)
    <3>1. Shows(j, job[j].document, "failed", 0)
      BY <1>1, <1>3, LedgerRewritten, Phases
    <3> QED
      BY <1>1, <1>3, <2>1, <3>1 DEF Shows, Ledger!Refuse
  <2> QED
    BY <1>1, <2>2 DEF LedgerSteps, Ledger!Next
<1> QED
  BY <1>2, <1>3 DEF HandlerMoves

LEMMA LedgerNext ==
  ASSUME JobInv, [Next]_vars
  PROVE  LedgerSteps
<1>1. CASE UNCHANGED job
  BY <1>1 DEF LedgerSteps, Ledger!ledger
<1>2. ASSUME NEW h \in Handler, HandlerRuns(h) \/ HandlerCrash(h) PROVE LedgerSteps
  BY <1>1, <1>2, HandlerActs, HeldByHandler, LedgerHandler DEF JobInv
<1>3. ASSUME NEW h \in Handler, HandlerStart(h) PROVE LedgerSteps
  BY <1>1, <1>3, StartMessage DEF Starts, JobInv
<1>4. ASSUME NEW w \in Worker, Works(w) PROVE LedgerSteps
  <2>1. worker[w].msg \in Message /\ ~At(w, "idle") /\ Owned(worker[w].msg)
    BY <1>4, WorkerAdvances DEF JobInv, OwnedInv, WorkersOwned
  <2>2. Exhausted(w) <=> worker[w].msg.attempts + 1 >= MaxAttempts
    BY DEF Exhausted
  <2> QED
    BY <1>1, <1>4, <2>1, <2>2, WorkMoves, LedgerWork DEF JobInv
<1>5. ASSUME NEW w \in Worker, Sends(w) \/ Receive(w) \/ WorkerCrash(w) PROVE LedgerSteps
  BY <1>1, <1>5, SendArrives, ReceiveTakes DEF WorkerCrash, JobInv, tables
<1> QED
  BY <1>1, <1>2, <1>3, <1>4, <1>5 DEF Next, WorkerRuns, ProcessMessage, Works, Sends, vars, tables

(* If XADD is exact the job table keeps its promise for any number of      *)
(* jobs, workers, requests, failures and crashes: a job is open from its   *)
(* request on, each failed attempt of it is counted once, at most          *)
(* MaxAttempts of them, and once closed it stays closed.                   *)
THEOREM LedgerImplemented == ASSUME XaddIsExact PROVE Spec => ImplementsLedger
<1>1. Init => Ledger!Init
  BY Phases DEF Init, Ledger!Init
<1>2. JobInv /\ [Next]_vars => [Ledger!Next]_(Ledger!ledger)
  BY LedgerNext DEF LedgerSteps
<1>3. XaddIsExact
  OBVIOUS
<1> QED
  BY <1>1, <1>2, <1>3, JobInvInit, JobInvNext, PTL DEF Spec, ImplementsLedger, Ledger!Spec

-----------------------------------------------------------------------------
(* The audit trail.  At XACK the outcome of the attempt is in it already;  *)
(* for a message of a job that succeeded before, because it succeeded.     *)
Succeeded(j) == \E e \in audit : e.job = j /\ e.event = "succeeded"
Accounted(w) ==
    \E e \in audit :
      /\ e.job = worker[w].msg.job
      /\ \/ e.event = "succeeded"
         \/ e = Event(e.job, "attempt_failed", Again(w).attempts)

SuccessAudited == \A j \in Job : job[j].status = "succeeded" => Succeeded(j)
OutcomeAudited == \A w \in Worker : At(w, "ack") => Accounted(w)
AuditInv == SuccessAudited /\ OutcomeAudited

\* Nobody comes to XACK, no job succeeds and no event is lost.
AuditQuiet ==
    /\ audit \subseteq audit'
    /\ \A j \in Job : job'[j].status = "succeeded" => job[j].status = "succeeded"
    /\ \A w \in Worker : At(w, "ack")' => worker'[w] = worker[w]

LEMMA AuditKept == ASSUME AuditInv, AuditQuiet PROVE AuditInv'
<1>1. SuccessAudited'
  BY DEF AuditInv, AuditQuiet, SuccessAudited, Succeeded
<1>2. ASSUME NEW w \in Worker, At(w, "ack")' PROVE Accounted(w)'
  <2>1. worker'[w] = worker[w] /\ audit \subseteq audit' /\ Accounted(w)
    BY <1>2 DEF AuditInv, AuditQuiet, OutcomeAudited, At
  <2> QED
    BY <2>1 DEF Accounted, Again
<1> QED
  BY <1>1, <1>2 DEF AuditInv, OutcomeAudited

LEMMA AuditWorker ==
  ASSUME TypeInv, OwnedInv, AuditInv, NEW w \in Worker, WorkerRuns(w) \/ WorkerCrash(w)
  PROVE  AuditInv'
<1> DEFINE m == worker[w].msg
<1>1. ASSUME NEW r, worker' = [worker EXCEPT ![w] = r]
      PROVE  worker'[w] = r /\ \A v \in Worker : v # w => worker'[v] = worker[v]
  BY <1>1 DEF TypeInv, TypeOK, WorkersOK
<1>2. ASSUME audit \subseteq audit', UNCHANGED job, NEW r, worker' = [worker EXCEPT ![w] = r], r.pc # "ack"
      PROVE  AuditInv'
  BY <1>1, <1>2, AuditKept DEF AuditQuiet, At
<1>3. ASSUME worker[w].pc # "idle" PROVE m \in Message /\ m.job \in Job
  BY <1>3, HeldByWorker DEF At
<1>4. ASSUME NEW next, Goto(w, next) PROVE \E r : worker' = [worker EXCEPT ![w] = r] /\ r = worker'[w]
  BY <1>4, <1>1 DEF Goto
<1>5. ASSUME MissingJob(w) \/ MissingAtFinish(w) \/ DatabaseRaises(w) \/ MarkProcessing(w) \/ Operation(w)
      PROVE  AuditInv'
  <2>1. UNCHANGED job /\ worker'[w].pc \in Early \cup {"record"}
    BY <1>5, EarlyStep
  <2>2. PICK r : worker' = [worker EXCEPT ![w] = r]
    BY <1>5, WorkerAdvances DEF Works, Advances
  <2>3. UNCHANGED audit
    BY <1>5
       DEF MissingJob, MissingAtFinish, DatabaseRaises, MarkProcessing, Operation, Parse, ParseRaises,
           InsertBackend, ClearBackend, Publish, Unlink, tables
  <2> QED
    BY <1>1, <1>2, <2>1, <2>2, <2>3 DEF Early
<1>6. ASSUME \/ BeginJob(w) \/ RecordFailure(w) \/ ReflectFailure(w) \/ Sends(w) \/ Acknowledge(w)
             \/ Receive(w) \/ WorkerCrash(w)
      PROVE  AuditInv'
  <2>1. UNCHANGED audit
    BY <1>6 DEF BeginJob, RecordFailure, ReflectFailure, Sends, Resend, ResendTwice, Acknowledge,
                Receive, WorkerCrash, tables
  <2>2. \E r : worker' = [worker EXCEPT ![w] = r]
    BY <1>6, WorkerAdvances, ReceiveTakes DEF Works, Advances
  <2>3. worker'[w].pc \in {"marking", "reflect", "resend", "report", "idle", "received"}
    <3>1. CASE BeginJob(w)
      BY <3>1 DEF BeginJob, TypeInv, TypeOK, WorkersOK
    <3>2. CASE RecordFailure(w) \/ ReflectFailure(w) \/ Sends(w)
      BY <3>2, Goes DEF RecordFailure, ReflectFailure, Sends, Resend, ResendTwice
    <3>3. CASE Acknowledge(w) \/ Receive(w) \/ WorkerCrash(w)
      <4>1. worker'[w].pc = "received" \/ worker'[w] = IdleWorker
        BY <3>3, ReceiveTakes DEF Acknowledge, Receive, WorkerCrash, Starting, TypeInv, TypeOK, WorkersOK
      <4> QED
        BY <4>1 DEF IdleWorker, Starting
    <3> QED
      BY <1>6, <3>1, <3>2, <3>3
  <2>4. \A j \in Job : job'[j].status = "succeeded" => job[j].status = "succeeded"
    <3>1. CASE BeginJob(w)
      <4>1. m.job \in Job /\ UpdateJob(m.job, [job[m.job] EXCEPT !.status = "processing"])
        BY <1>3, <3>1 DEF BeginJob, At
      <4> QED
        BY <4>1 DEF UpdateJob, TypeInv, TypeOK, TablesOK
    <3>2. CASE RecordFailure(w)
      <4> DEFINE status == IF Exhausted(w) THEN "failed" ELSE "queued"
                 row == [job[m.job] EXCEPT !.status = status, !.attempts = Again(w).attempts]
      <4>1. m.job \in Job /\ Again(w).job = m.job /\ m \in Message
        BY <1>3, <3>2 DEF RecordFailure, At, Again, Message
      <4>2. UpdateJob(m.job, row)
        BY <3>2, <4>1 DEF RecordFailure
      <4>3. row.status # "succeeded"
        BY <4>1 DEF TypeInv, TypeOK, TablesOK
      <4> HIDE DEF row
      <4> QED
        BY <4>1, <4>2, <4>3 DEF UpdateJob, TypeInv, TypeOK, TablesOK
    <3>3. CASE ~BeginJob(w) /\ ~RecordFailure(w)
      BY <1>6, <3>3 DEF ReflectFailure, Sends, Resend, ResendTwice, Acknowledge, Receive, WorkerCrash, tables
    <3> QED
      BY <3>1, <3>2, <3>3
  <2> QED
    BY <1>1, <2>1, <2>2, <2>3, <2>4, AuditKept DEF AuditQuiet, At
<1>7. ASSUME SkipJob(w) \/ ReportFailure(w) \/ Finish(w) PROVE AuditInv'
  <2>1. m \in Message /\ m.job \in Job /\ worker'[w].pc = "ack" /\ worker'[w].msg = m
    BY <1>3, <1>7, Goes DEF SkipJob, ReportFailure, Finish, At
  <2>2. \A v \in Worker : v # w => worker'[v] = worker[v]
    BY <1>1, <1>7 DEF SkipJob, ReportFailure, Finish, Goto
  <2>3. audit \subseteq audit'
    BY <1>7 DEF SkipJob, ReportFailure, Finish, tables
  <2>4. Accounted(w)'
    <3>1. Again(w)' = Again(w)
      BY <2>1 DEF Again
    <3>2. CASE SkipJob(w)
      BY <2>1, <2>3, <3>2 DEF SkipJob, AuditInv, SuccessAudited, Succeeded, Accounted, tables
    <3>3. CASE ReportFailure(w)
      <4> DEFINE e == Event(m.job, "attempt_failed", Again(w).attempts)
      <4>1. e \in audit' /\ e.job = m.job
        BY <3>3 DEF ReportFailure, Event
      <4>2. e = Event(e.job, "attempt_failed", Again(w).attempts)
        BY <4>1
      <4> HIDE DEF e
      <4> QED
        BY <2>1, <3>1, <4>1, <4>2 DEF Accounted
    <3>4. CASE Finish(w)
      <4> DEFINE e == Event(m.job, "succeeded", m.attempts + 1)
      <4>1. e \in audit' /\ e.job = m.job /\ e.event = "succeeded"
        BY <3>4 DEF Finish, Event
      <4> HIDE DEF e
      <4> QED
        BY <2>1, <4>1 DEF Accounted
    <3> QED
      BY <1>7, <3>2, <3>3, <3>4
  <2>5. OutcomeAudited'
    <3>1. ASSUME NEW v \in Worker, v # w, At(v, "ack")' PROVE Accounted(v)'
      BY <2>2, <2>3, <3>1 DEF AuditInv, OutcomeAudited, Accounted, At, Again
    <3> QED
      BY <2>4, <3>1 DEF OutcomeAudited
  <2>6. SuccessAudited'
    <3>1. CASE Finish(w)
      <4> DEFINE e == Event(m.job, "succeeded", m.attempts + 1)
      <4>1. e \in audit' /\ e.job = m.job /\ e.event = "succeeded"
        BY <3>1 DEF Finish, Event
      <4> HIDE DEF e
      <4>2. \A j \in Job : j # m.job /\ job'[j].status = "succeeded" => job[j].status = "succeeded"
        BY <2>1, <3>1 DEF Finish, TypeInv, TypeOK, TablesOK
      <4> QED
        BY <2>3, <4>1, <4>2 DEF AuditInv, SuccessAudited, Succeeded
    <3>2. CASE SkipJob(w) \/ ReportFailure(w)
      BY <2>3, <3>2 DEF SkipJob, ReportFailure, AuditInv, SuccessAudited, Succeeded, tables
    <3> QED
      BY <1>7, <3>1, <3>2
  <2> QED
    BY <2>5, <2>6 DEF AuditInv
<1> QED
  BY <1>5, <1>6, <1>7 DEF WorkerRuns, ProcessMessage, Sends

LEMMA AuditHandler ==
  ASSUME TypeInv, AuditInv, NEW h \in Handler, HandlerStart(h) \/ HandlerRuns(h) \/ HandlerCrash(h)
  PROVE  AuditInv'
<1>1. UNCHANGED worker
  BY StartMessage
     DEF Starts, HandlerRuns, MarkDocument, CreateJob, Enqueue, EnqueueRaises, EnqueueTwice, RejectJob,
         RejectDocument, RejectAudit, HandlerCrash
<1>2. audit \subseteq audit'
  BY DEF HandlerStart, AcceptIngest, AcceptDelete, AcceptBulkDelete, Accept, HandlerRuns, MarkDocument,
         CreateJob, Enqueue, EnqueueRaises, EnqueueTwice, RejectJob, RejectDocument, RejectAudit,
         HandlerCrash, tables
<1>3. \A j \in Job : job'[j].status = "succeeded" => job[j].status = "succeeded"
  <2>1. CASE CreateJob(h) \/ RejectJob(h)
    <3>1. handler[h].msg.job \in Job
      BY <2>1, HeldByHandler DEF CreateJob, RejectJob
    <3> QED
      BY <2>1, <3>1 DEF CreateJob, RejectJob, UpdateJob, TypeInv, TypeOK, TablesOK
  <2>2. CASE ~(CreateJob(h) \/ RejectJob(h))
    BY <2>2, StartMessage
       DEF Starts, HandlerRuns, MarkDocument, Enqueue, EnqueueRaises, EnqueueTwice, RejectDocument,
           RejectAudit, HandlerCrash, tables
  <2> QED
    BY <2>1, <2>2
<1> QED
  BY <1>1, <1>2, <1>3, AuditKept DEF AuditQuiet

(* For any number of workers, whatever fails, dies or is sent twice: a     *)
(* message is only acknowledged, and so forgotten by the queue, once the   *)
(* audit trail tells how its attempt ended.                                *)
THEOREM AcknowledgedAudited == Spec => AcknowledgedIsAudited
<1> DEFINE Inv == TypeInv /\ OwnedInv /\ AuditInv
           Step == \A w \in Worker : At(w, "ack") /\ ~At(w, "ack")' =>
                     \E e \in audit :
                       /\ e.job = worker[w].msg.job
                       /\ \/ e.event = "succeeded"
                          \/ e = Event(e.job, "attempt_failed", Again(w).attempts)
<1>1. Init => Inv
  BY OwnedInit DEF Init, AuditInv, SuccessAudited, OutcomeAudited, At, IdleWorker, Starting
<1>2. Inv /\ [Next]_vars => Inv'
  <2> SUFFICES ASSUME Inv, [Next]_vars PROVE AuditInv'
    BY OwnedNext
  <2>1. CASE Next
    BY <2>1, AuditWorker, AuditHandler DEF Next
  <2>2. CASE UNCHANGED vars
    BY <2>2, AuditKept DEF vars, tables, AuditQuiet
  <2> QED
    BY <2>1, <2>2
<1>3. Inv => Step
  BY DEF AuditInv, OutcomeAudited, Accounted
<1>4. Inv /\ [Next]_vars => [Step]_vars
  BY <1>3
<1> QED
  BY <1>1, <1>2, <1>4, PTL DEF Spec, AcknowledgedIsAudited

-----------------------------------------------------------------------------
(* What a message asks for and where its worker may be: deletions clear    *)
(* both backends, and each operation has steps of its own.                 *)
ClearsAll(m) == m.operation = "delete" => m.mode = "mg"

StreamPlanned == \A i \in DOMAIN stream : ClearsAll(stream[i])
WorkersPlanned ==
    \A w \in Worker :
      /\ ~At(w, "idle") => ClearsAll(worker[w].msg)
      /\ worker[w].pc \in {"clear", "unlink"} => worker[w].msg.operation = "delete"
      /\ worker[w].pc \in {"parse", "insert", "publish"} => worker[w].msg.operation = "ingest"
HandlersPlanned == \A h \in Handler : handler[h].pc # "idle" => ClearsAll(handler[h].msg)

PlanInv == StreamPlanned /\ WorkersPlanned /\ HandlersPlanned

\* The next step of worker w is one of the operation it is at.
LEMMA PlanFollowed ==
  ASSUME TypeInv, PlanInv, NEW w \in Worker, Works(w) \/ Sends(w)
  PROVE  /\ worker'[w].pc \in {"clear", "unlink"} => worker[w].msg.operation = "delete"
         /\ worker'[w].pc \in {"parse", "insert", "publish"} => worker[w].msg.operation = "ingest"
<1> DEFINE m == worker[w].msg
<1>1. /\ m \in Message /\ worker[w].pc \in WorkerStep /\ worker[w] \in WorkerRecord /\ w \in DOMAIN worker
      /\ worker[w].pc \in {"clear", "unlink"} => m.operation = "delete"
      /\ worker[w].pc \in {"parse", "insert", "publish"} => m.operation = "ingest"
  BY WorkerAdvances DEF PlanInv, WorkersPlanned, TypeInv, TypeOK, WorkersOK, WorkerRecord
<1>2. CASE MarkProcessing(w)
  <2> DEFINE next == IF m.operation = "ingest" THEN "parse"
                     ELSE IF worker[w].indexed THEN "clear" ELSE "unlink"
  <2>1. m.operation \in {"ingest", "delete"}
    BY <1>1 DEF Message
  <2>2. worker'[w].pc = next
    BY <1>1, <1>2 DEF MarkProcessing, WorkerRecord
  <2> QED
    BY <2>1, <2>2
<1>3. CASE Parse(w)
  BY <1>1, <1>3 DEF Parse, WorkerRecord, At
<1>4. ASSUME NEW b, NEW failed, NEW next, BackendDone(w, b, failed, next)
      PROVE  worker'[w].pc \in {worker[w].pc, "record", next}
  BY <1>1, <1>4 DEF BackendDone, WorkerRecord
<1>5. CASE \E b \in Backend : InsertBackend(w, b) \/ ClearBackend(w, b)
  <2>1. \/ At(w, "insert") /\ worker'[w].pc \in {"insert", "record", "publish"}
        \/ At(w, "clear") /\ worker'[w].pc \in {"clear", "record", "unlink"}
    <3>1. ASSUME NEW b \in Backend, InsertBackend(w, b)
          PROVE  At(w, "insert") /\ worker'[w].pc \in {"insert", "record", "publish"}
      BY <1>4, <3>1 DEF InsertBackend, At
    <3>2. ASSUME NEW b \in Backend, ClearBackend(w, b)
          PROVE  At(w, "clear") /\ worker'[w].pc \in {"clear", "record", "unlink"}
      BY <1>4, <3>2 DEF ClearBackend, At
    <3> QED
      BY <1>5, <3>1, <3>2
  <2> QED
    BY <1>1, <2>1 DEF At
<1>6. ASSUME NEW next \in {"ack", "record", "finish", "reflect", "resend", "report"}, Goto(w, next)
      PROVE  worker'[w].pc \notin {"clear", "unlink", "parse", "insert", "publish"}
  BY <1>6, Goes
<1>7. CASE \/ ParseRaises(w) \/ Publish(w) \/ Unlink(w) \/ SkipJob(w) \/ MissingJob(w) \/ Finish(w)
           \/ MissingAtFinish(w) \/ DatabaseRaises(w) \/ RecordFailure(w) \/ ReflectFailure(w)
           \/ ReportFailure(w) \/ Sends(w)
  <2>1. \E next \in {"ack", "record", "finish", "reflect", "resend", "report"} : Goto(w, next)
    BY <1>7 DEF ParseRaises, Publish, Unlink, SkipJob, MissingJob, Finish, MissingAtFinish,
                DatabaseRaises, RecordFailure, ReflectFailure, ReportFailure, Sends, Resend, ResendTwice
  <2> QED
    BY <1>6, <2>1
<1>8. CASE BeginJob(w) \/ Acknowledge(w)
  <2>1. BeginJob(w) => worker'[w].pc = "marking"
    BY <1>1 DEF BeginJob, WorkerRecord
  <2>2. Acknowledge(w) => worker'[w].pc = "idle"
    BY <1>1 DEF Acknowledge, IdleWorker, Starting
  <2> QED
    BY <1>8, <2>1, <2>2
<1> QED
  BY <1>2, <1>3, <1>5, <1>7, <1>8 DEF Works, Sends, Operation

LEMMA PlanWorker ==
  ASSUME TypeInv, PlanInv, NEW w \in Worker, WorkerRuns(w) \/ WorkerCrash(w)
  PROVE  PlanInv'
<1> DEFINE m == worker[w].msg
<1>1. CASE Works(w) \/ Sends(w) \/ WorkerCrash(w)
  <2>1. PICK r \in WorkerRecord : /\ worker' = [worker EXCEPT ![w] = r]
                                  /\ r = IdleWorker \/ (r.msg = m /\ r.pc # "idle")
    BY <1>1, WorkerAdvances DEF Advances
  <2>2. worker'[w] = r /\ (\A v \in Worker : v # w => worker'[v] = worker[v]) /\ ClearsAll(m)
    BY <1>1, <2>1, WorkerAdvances DEF TypeInv, TypeOK, WorkersOK, PlanInv, WorkersPlanned
  <2>3. WorkersPlanned'
    <3>1. \/ worker'[w].pc = "idle"
          \/ /\ worker'[w].msg = m
             /\ worker'[w].pc \in {"clear", "unlink"} => m.operation = "delete"
             /\ worker'[w].pc \in {"parse", "insert", "publish"} => m.operation = "ingest"
      BY <1>1, <2>1, <2>2, PlanFollowed DEF WorkerCrash, IdleWorker, Starting, TypeInv, TypeOK, WorkersOK
    <3> QED
      BY <2>2, <3>1 DEF PlanInv, WorkersPlanned, At, ClearsAll
  <2>4. StreamPlanned' /\ UNCHANGED handler
    <3>1. CASE Sends(w)
      <4>1. UNCHANGED handler /\ (UNCHANGED stream \/ Arrives(Again(w)))
        BY <3>1, SendArrives
      <4>2. ClearsAll(Again(w))
        BY <2>2 DEF ClearsAll, Again
      <4> QED
        BY <4>1, <4>2 DEF PlanInv, StreamPlanned, Arrives, ClearsAll
    <3>2. CASE ~Sends(w)
      BY <1>1, <3>2
         DEF Works, BeginJob, SkipJob, MissingJob, MarkProcessing, Operation, Parse, ParseRaises,
             InsertBackend, ClearBackend, Publish, Unlink, Finish, MissingAtFinish, DatabaseRaises,
             RecordFailure, ReflectFailure, ReportFailure, Acknowledge, WorkerCrash, queues,
             PlanInv, StreamPlanned
    <3> QED
      BY <3>1, <3>2
  <2> QED
    BY <2>3, <2>4 DEF PlanInv, HandlersPlanned
<1>2. CASE Receive(w)
  <2>1. /\ UNCHANGED handler /\ 1 \in DOMAIN stream
        /\ worker' = [worker EXCEPT ![w] = Starting("received", stream[1])]
        /\ \A i \in DOMAIN stream' : i + 1 \in DOMAIN stream /\ stream'[i] = stream[i + 1]
    BY <1>2, ReceiveTakes
  <2>2. WorkersPlanned'
    <3>1. worker'[w] = Starting("received", stream[1]) /\ \A v \in Worker : v # w => worker'[v] = worker[v]
      BY <2>1 DEF TypeInv, TypeOK, WorkersOK
    <3>2. worker'[w].pc = "received" /\ worker'[w].msg = stream[1]
      BY <3>1 DEF Starting
    <3> QED
      BY <2>1, <3>1, <3>2 DEF PlanInv, StreamPlanned, WorkersPlanned, ClearsAll, At
  <2>3. StreamPlanned'
    BY <2>1 DEF PlanInv, StreamPlanned, ClearsAll
  <2> QED
    BY <2>1, <2>2, <2>3 DEF PlanInv, HandlersPlanned
<1> QED
  BY <1>1, <1>2 DEF WorkerRuns, ProcessMessage, Works, Sends

\* A request keeps its message until it ends, and sends no other.
LEMMA HandlerSends ==
  ASSUME TypeInv, NEW h \in Handler, HandlerRuns(h) \/ HandlerCrash(h)
  PROVE  /\ UNCHANGED worker /\ handler[h].pc # "idle" /\ handler[h].msg \in Message
         /\ \A g \in Handler : g # h => handler'[g] = handler[g]
         /\ handler'[h].pc = "idle" \/ handler'[h].msg = handler[h].msg
         /\ UNCHANGED stream \/ Arrives(handler[h].msg)
<1>1. UNCHANGED worker /\ handler[h].pc # "idle" /\ handler[h].msg \in Message
  BY HeldByHandler
     DEF HandlerRuns, MarkDocument, CreateJob, Enqueue, EnqueueRaises, EnqueueTwice, RejectJob,
         RejectDocument, RejectAudit, HandlerCrash
<1>2. UNCHANGED stream \/ Arrives(handler[h].msg)
  BY <1>1, ArrivesOnce, ArrivesTwice
     DEF HandlerRuns, MarkDocument, CreateJob, Enqueue, EnqueueRaises, EnqueueTwice, RejectJob,
         RejectDocument, RejectAudit, HandlerCrash, TypeInv, TypeOK, queues
<1>3. /\ \A g \in Handler : g # h => handler'[g] = handler[g]
      /\ handler'[h].pc = "idle" \/ handler'[h].msg = handler[h].msg
  BY DEF HandlerRuns, MarkDocument, CreateJob, Enqueue, EnqueueRaises, EnqueueTwice, RejectJob,
         RejectDocument, RejectAudit, HandlerCrash, TypeInv, TypeOK, HandlersOK, IdleHandler
<1> QED
  BY <1>1, <1>2, <1>3

LEMMA PlanHandler ==
  ASSUME TypeInv, PlanInv, NEW h \in Handler, HandlerStart(h) \/ HandlerRuns(h) \/ HandlerCrash(h)
  PROVE  PlanInv'
<1>1. CASE HandlerStart(h)
  <2>1. PICK m \in Message : Starts(h, m) /\ ClearsAll(m)
    BY <1>1, StartMessage DEF ClearsAll
  <2> QED
    BY <2>1 DEF Starts, PlanInv, StreamPlanned, WorkersPlanned, HandlersPlanned, ClearsAll, At,
                TypeInv, TypeOK, HandlersOK
<1>2. CASE HandlerRuns(h) \/ HandlerCrash(h)
  <2>1. ClearsAll(handler[h].msg)
    BY <1>2, HandlerSends DEF PlanInv, HandlersPlanned
  <2>2. StreamPlanned'
    BY <1>2, <2>1, HandlerSends DEF PlanInv, StreamPlanned, ClearsAll, Arrives
  <2>3. HandlersPlanned'
    BY <1>2, <2>1, HandlerSends DEF PlanInv, HandlersPlanned, ClearsAll
  <2>4. WorkersPlanned'
    BY <1>2, HandlerSends DEF PlanInv, WorkersPlanned, At, ClearsAll
  <2> QED
    BY <2>2, <2>3, <2>4 DEF PlanInv
<1> QED
  BY <1>1, <1>2

LEMMA PlanNext == TypeInv /\ PlanInv /\ [Next]_vars => PlanInv'
<1>1. UNCHANGED vars /\ PlanInv => PlanInv'
  BY DEF vars, queues, PlanInv, StreamPlanned, WorkersPlanned, HandlersPlanned, ClearsAll, At
<1> QED
  BY <1>1, PlanWorker, PlanHandler DEF Next

LEMMA PlanInit == Init => PlanInv
BY DEF Init, PlanInv, StreamPlanned, WorkersPlanned, HandlersPlanned, IdleWorker, Starting, IdleHandler, At

-----------------------------------------------------------------------------
(* The status of a document.  Whoever leaves it busy is still to write it. *)
Busy(d) == doc[d].status \in {"queued", "processing", "delete_queued", "deleting"}

Sender(h) == handler[h].pc \in {"create", "enqueue", "reject_job", "reject_document"}

DocumentCarried(d) ==
    \/ \E i \in DOMAIN stream : stream[i].document = d
    \/ \E w \in Worker : StatusDue(w) /\ worker[w].msg.document = d
    \/ \E h \in Handler : Sender(h) /\ handler[h].msg.document = d
    \/ \E m \in lost : m.document = d

LEMMA BusyParts ==
  /\ BusyDocumentIsCarried <=> \A d \in Document : Busy(d) => DocumentCarried(d)
  /\ BusyDocumentIsCarried' <=> \A d \in Document : Busy(d)' => DocumentCarried(d)'
BY DEF BusyDocumentIsCarried, Busy, DocumentCarried, Sender

(* The status of one document is written, or its row is not there.         *)
LEMMA StatusWritten ==
  ASSUME TypeInv, NEW d \in Document, NEW row, UpdateDocument(d, row)
  PROVE  /\ \A e \in Document : e # d => doc'[e] = doc[e]
         /\ doc'[d] = row \/ (~Exists(d) /\ doc'[d] = doc[d])
BY DEF UpdateDocument, TypeInv, TypeOK, TablesOK

(* A worker that leaves its document busy is going to write its status; if *)
(* it was before the step, it is after it or the document is not busy.     *)
LEMMA WorkIsDue ==
  ASSUME JobInv, PlanInv, NEW w \in Worker, Works(w), NEW d, d = worker[w].msg.document
  PROVE  /\ \A e \in Document : e # d => doc'[e] = doc[e]
         /\ Busy(d)' => \/ StatusDue(w)' /\ worker'[w].msg = worker[w].msg
                        \/ doc'[d] = doc[d] /\ ~StatusDue(w)
<1> DEFINE m == worker[w].msg
           Settled == /\ \A e \in Document : e # d => doc'[e] = doc[e]
                      /\ Busy(d)' => \/ StatusDue(w)' /\ worker'[w].msg = m
                                     \/ doc'[d] = doc[d] /\ ~StatusDue(w)
<1> SUFFICES Settled
  OBVIOUS
<1> HIDE DEF Settled
<1>1. /\ ~At(w, "idle") /\ m \in Message /\ d \in Document /\ TypeInv /\ OwnedInv
      /\ m.operation \in {"ingest", "delete"} /\ worker[w] \in WorkerRecord
  BY WorkerAdvances DEF JobInv, Message, TypeInv, TypeOK, WorkersOK, WorkerRecord
<1>2. \A e \in Document : e # d => doc'[e] = doc[e]
  <2>1. ASSUME NEW row, UpdateDocument(d, row) PROVE \A e \in Document : e # d => doc'[e] = doc[e]
    BY <1>1, <2>1, StatusWritten
  <2>2. CASE MarkProcessing(w) \/ Publish(w) \/ ReflectFailure(w)
    <3>1. \E row : UpdateDocument(d, row)
      BY <2>2 DEF MarkProcessing, Publish, ReflectFailure
    <3> QED
      BY <2>1, <3>1
  <2>3. CASE Finish(w)
    BY <1>1, <2>3 DEF Finish, TypeInv, TypeOK, TablesOK
  <2>4. CASE ~(MarkProcessing(w) \/ Publish(w) \/ ReflectFailure(w) \/ Finish(w))
    BY <2>4
       DEF Works, BeginJob, SkipJob, MissingJob, Operation, Parse, ParseRaises, InsertBackend,
           ClearBackend, Unlink, MissingAtFinish, DatabaseRaises, RecordFailure, ReportFailure,
           Acknowledge, tables
  <2> QED
    BY <2>2, <2>3, <2>4
<1>3. ASSUME StatusDue(w)', worker'[w].msg = m PROVE Settled
  BY <1>2, <1>3 DEF Settled
<1>4. ASSUME doc'[d] = doc[d], ~StatusDue(w) PROVE Settled
  BY <1>2, <1>4 DEF Settled
<1>5. ASSUME ~Busy(d)' PROVE Settled
  BY <1>2, <1>5 DEF Settled
<1>6. CASE MissingJob(w) \/ MissingAtFinish(w) \/ DatabaseRaises(w) \/ MarkProcessing(w) \/ Operation(w)
  <2>1. worker'[w].pc \in Early \cup {"record"} /\ worker'[w].msg = m
    BY <1>1, <1>6, EarlyStep
  <2>2. CASE worker'[w].pc # "finish"
    BY <1>3, <2>1, <2>2 DEF StatusDue, Early
  <2>3. CASE worker'[w].pc = "finish" /\ m.operation = "delete"
    BY <1>3, <2>1, <2>3 DEF StatusDue, At
  <2>4. CASE worker'[w].pc = "finish" /\ m.operation = "ingest"
    <3>1. Publish(w)
      <4>1. ~(MissingJob(w) \/ MissingAtFinish(w) \/ DatabaseRaises(w) \/ ParseRaises(w))
        <5>1. MissingJob(w) \/ MissingAtFinish(w) \/ DatabaseRaises(w) \/ ParseRaises(w) => Goto(w, "record")
          BY DEF MissingJob, MissingAtFinish, DatabaseRaises, ParseRaises
        <5>2. Goto(w, "record") => worker'[w].pc = "record"
          BY <1>1, Goes
        <5> QED
          BY <2>4, <5>1, <5>2
      <4>2. ~MarkProcessing(w)
        BY <1>1, <2>4 DEF MarkProcessing, WorkerRecord, TypeInv, TypeOK, WorkersOK
      <4>3. ~Parse(w)
        BY <1>1, <2>4 DEF Parse, WorkerRecord, TypeInv, TypeOK, WorkersOK
      <4>4. ~Unlink(w)
        BY <2>4 DEF Unlink, PlanInv, WorkersPlanned, At
      <4>5. ASSUME NEW b, NEW failed, NEW next \in {"publish", "unlink"}, BackendDone(w, b, failed, next),
                   worker[w].pc # "finish"
            PROVE  worker'[w].pc # "finish"
        BY <1>1, <4>5 DEF BackendDone, TypeInv, TypeOK, WorkersOK
      <4>6. ~(\E b \in Backend : InsertBackend(w, b) \/ ClearBackend(w, b))
        BY <2>4, <4>5 DEF InsertBackend, ClearBackend, At
      <4> QED
        BY <1>6, <4>1, <4>2, <4>3, <4>4, <4>6 DEF Operation
    <3>2. UpdateDocument(d, [status |-> "ready", backends |-> ModeBackends[m.mode], count |-> worker[w].count])
      BY <3>1 DEF Publish
    <3>3. ~Busy(d)'
      BY <1>1, <3>2, StatusWritten DEF Busy, Exists
    <3> QED
      BY <1>5, <3>3
  <2> QED
    BY <1>1, <2>2, <2>3, <2>4
<1>7. CASE BeginJob(w)
  <2>1. worker'[w].msg = m /\ worker'[w].pc = "marking"
    BY <1>1, <1>7 DEF BeginJob, WorkerRecord, TypeInv, TypeOK, WorkersOK
  <2> QED
    BY <1>3, <2>1 DEF StatusDue
<1>8. CASE SkipJob(w)
  <2>1. Unsettled(w) /\ Pending(w) = m
    BY <1>8 DEF SkipJob, At, Unsettled, Pending
  <2>2. Awaits(m)
    BY <2>1 DEF JobInv, AwaitedInv, WorkersAwaited
  <2> QED
    BY <1>8, <2>2 DEF SkipJob, Awaits, Active
<1>9. CASE Finish(w)
  <2>1. CASE m.operation = "delete"
    BY <1>1, <1>5, <1>9, <2>1 DEF Finish, Busy, TypeInv, TypeOK, TablesOK
  <2>2. CASE m.operation # "delete"
    BY <1>4, <1>9, <2>2 DEF Finish, StatusDue, At
  <2> QED
    BY <2>1, <2>2
<1>10. CASE RecordFailure(w)
  <2>1. worker'[w].msg = m /\ worker'[w].pc = "reflect"
    BY <1>1, <1>10, Goes DEF RecordFailure
  <2> QED
    BY <1>3, <2>1 DEF StatusDue
<1>11. CASE ReflectFailure(w)
  <2>1. worker'[w].msg = m /\ worker'[w].pc = "resend"
    <3>1. Goto(w, "resend")
      BY <1>11 DEF ReflectFailure
    <3> QED
      BY <1>1, <3>1, Goes
  <2>2. CASE Exhausted(w)
    <3> DEFINE status == IF m.operation = "delete" THEN "delete_failed" ELSE "failed"
               row == [doc[d] EXCEPT !.status = status]
    <3>1. UpdateDocument(d, row)
      BY <1>11, <2>2 DEF ReflectFailure
    <3>2. row.status = status
      BY <1>1 DEF TypeInv, TypeOK, TablesOK
    <3> HIDE DEF row
    <3>3. ~Busy(d)'
      BY <1>1, <3>1, <3>2, StatusWritten DEF Busy, Exists
    <3> QED
      BY <1>5, <3>3
  <2>3. CASE ~Exhausted(w)
    <3>1. ~Exhausted(w)'
      BY <2>1, <2>3 DEF Exhausted
    <3> QED
      BY <1>3, <2>1, <3>1 DEF StatusDue, At
  <2> QED
    BY <2>2, <2>3
<1>12. CASE ReportFailure(w) \/ Acknowledge(w)
  BY <1>4, <1>12 DEF ReportFailure, Acknowledge, StatusDue, At, tables
<1> QED
  BY <1>6, <1>7, <1>8, <1>9, <1>10, <1>11, <1>12 DEF Works

LEMMA BusyWorker ==
  ASSUME JobInv, PlanInv, BusyDocumentIsCarried, NEW w \in Worker, WorkerRuns(w) \/ WorkerCrash(w)
  PROVE  BusyDocumentIsCarried'
<1> DEFINE m == worker[w].msg
<1> SUFFICES ASSUME NEW d \in Document, Busy(d)' PROVE DocumentCarried(d)'
  BY BusyParts
<1>1. TypeInv /\ (Busy(d) => DocumentCarried(d))
  BY BusyParts DEF JobInv
<1>2. ASSUME NEW r, worker' = [worker EXCEPT ![w] = r]
      PROVE  \A v \in Worker : v # w => worker'[v] = worker[v] /\ (StatusDue(v)' <=> StatusDue(v))
  BY <1>1, <1>2 DEF TypeInv, TypeOK, WorkersOK, StatusDue, Exhausted, At
<1>3. CASE Works(w)
  <2>1. /\ UNCHANGED <<stream, handler, lost>> /\ \E r \in WorkerRecord : worker' = [worker EXCEPT ![w] = r]
    BY <1>1, <1>3, WorkerAdvances
       DEF Works, BeginJob, SkipJob, MissingJob, MarkProcessing, Operation, Parse, ParseRaises,
           InsertBackend, ClearBackend, Publish, Unlink, Finish, MissingAtFinish, DatabaseRaises,
           RecordFailure, ReflectFailure, ReportFailure, Acknowledge, queues, bounds, Advances
  <2>2. \A v \in Worker : v # w => worker'[v] = worker[v] /\ (StatusDue(v)' <=> StatusDue(v))
    BY <1>2, <2>1
  <2>3. \/ StatusDue(w)' /\ worker'[w].msg.document = d
        \/ Busy(d) /\ ~(StatusDue(w) /\ m.document = d)
    <3>1. PICK e : e = m.document
      OBVIOUS
    <3>2. /\ \A f \in Document : f # e => doc'[f] = doc[f]
          /\ Busy(e)' => \/ StatusDue(w)' /\ worker'[w].msg = m
                         \/ doc'[e] = doc[e] /\ ~StatusDue(w)
      BY <1>3, <3>1, WorkIsDue
    <3> QED
      BY <3>1, <3>2 DEF Busy
  <2> QED
    BY <1>1, <2>1, <2>2, <2>3 DEF DocumentCarried, Sender
<1>4. CASE Sends(w)
  <2>1. /\ UNCHANGED <<doc, handler, lost>> /\ \E r \in WorkerRecord : worker' = [worker EXCEPT ![w] = r]
    BY <1>1, <1>4, SendArrives, WorkerAdvances DEF Sends, Resend, ResendTwice, tables, Advances
  <2>2. \A v \in Worker : v # w => worker'[v] = worker[v] /\ (StatusDue(v)' <=> StatusDue(v))
    BY <1>2, <2>1
  <2>3. \/ UNCHANGED stream /\ ~StatusDue(w)
        \/ Arrives(Again(w)) /\ Again(w).document = m.document
    BY <1>1, <1>4, SendArrives DEF Sends, Resend, ResendTwice, StatusDue, At
  <2>4. Busy(d)
    BY <2>1 DEF Busy
  <2> QED
    BY <1>1, <2>1, <2>2, <2>3, <2>4 DEF DocumentCarried, Sender, Arrives
<1>5. CASE Receive(w)
  <2>1. /\ UNCHANGED <<doc, handler, lost>> /\ At(w, "idle") /\ 1 \in DOMAIN stream
        /\ worker' = [worker EXCEPT ![w] = Starting("received", stream[1])]
        /\ \A i \in DOMAIN stream' : i + 1 \in DOMAIN stream /\ stream'[i] = stream[i + 1] /\ i \in Nat \ {0}
        /\ \A i \in DOMAIN stream : i = 1 \/ (i - 1 \in DOMAIN stream' /\ i \in Nat)
    BY <1>1, <1>5, ReceiveTakes DEF Receive, tables
  <2>2. \A v \in Worker : v # w => worker'[v] = worker[v] /\ (StatusDue(v)' <=> StatusDue(v))
    BY <1>2, <2>1
  <2>3. worker'[w] = Starting("received", stream[1])
    BY <1>1, <2>1 DEF TypeInv, TypeOK, WorkersOK
  <2>4. StatusDue(w)' /\ worker'[w].msg = stream[1] /\ ~StatusDue(w)
    BY <2>1, <2>3 DEF StatusDue, Starting, At
  <2>5. ASSUME NEW i \in DOMAIN stream, i # 1 PROVE i - 1 \in DOMAIN stream' /\ stream'[i - 1] = stream[i]
    BY <2>1, <2>5
  <2>6. Busy(d)
    BY <2>1 DEF Busy
  <2>7. CASE \E i \in DOMAIN stream : stream[i].document = d
    BY <2>4, <2>5, <2>7 DEF DocumentCarried
  <2>8. CASE ~(\E i \in DOMAIN stream : stream[i].document = d)
    BY <1>1, <2>1, <2>2, <2>4, <2>6, <2>8 DEF DocumentCarried, Sender
  <2> QED
    BY <2>7, <2>8
<1>6. CASE WorkerCrash(w)
  <2>1. /\ UNCHANGED <<doc, handler, stream>> /\ worker' = [worker EXCEPT ![w] = IdleWorker]
        /\ lost' = lost \cup {m}
    BY <1>6 DEF WorkerCrash, tables, queues
  <2>2. \A v \in Worker : v # w => worker'[v] = worker[v] /\ (StatusDue(v)' <=> StatusDue(v))
    BY <1>2, <2>1
  <2> QED
    BY <1>1, <2>1, <2>2 DEF DocumentCarried, Sender, Busy
<1> QED
  BY <1>3, <1>4, <1>5, <1>6 DEF WorkerRuns, ProcessMessage, Works, Sends

LEMMA BusyHandler ==
  ASSUME TypeInv, BusyDocumentIsCarried, NEW h \in Handler,
         HandlerStart(h) \/ HandlerRuns(h) \/ HandlerCrash(h)
  PROVE  BusyDocumentIsCarried'
<1> DEFINE m == handler[h].msg
<1> SUFFICES ASSUME NEW d \in Document, Busy(d)' PROVE DocumentCarried(d)'
  BY BusyParts
<1>1. Busy(d) => DocumentCarried(d)
  BY BusyParts
<1>2. CASE HandlerStart(h)
  <2>1. PICK n \in Message : Starts(h, n)
    BY <1>2, StartMessage
  <2>2. UNCHANGED doc
    BY <1>2 DEF HandlerStart, AcceptIngest, AcceptDelete, AcceptBulkDelete, Accept, tables
  <2>3. \A g \in Handler : Sender(g) => g # h /\ handler'[g] = handler[g]
    BY <2>1 DEF Starts, Sender, TypeInv, TypeOK, HandlersOK
  <2> QED
    BY <1>1, <2>1, <2>2, <2>3 DEF Starts, DocumentCarried, Sender, Busy, StatusDue, Exhausted, At
<1>3. CASE HandlerRuns(h) \/ HandlerCrash(h)
  <2>1. /\ UNCHANGED worker /\ handler[h].pc # "idle" /\ m \in Message /\ m.document \in Document
        /\ \A g \in Handler : g # h => handler'[g] = handler[g]
        /\ UNCHANGED stream \/ Arrives(m)
    BY <1>3, HandlerSends DEF Message
  <2>2. lost \subseteq lost' /\ (HandlerCrash(h) => m \in lost')
    BY <1>3
       DEF HandlerRuns, MarkDocument, CreateJob, Enqueue, EnqueueRaises, EnqueueTwice, RejectJob,
           RejectDocument, RejectAudit, HandlerCrash, bounds
  <2>3. ASSUME Busy(d), \/ ~Sender(h) \/ m.document # d
                        \/ Sender(h)' /\ handler'[h].msg = m
                        \/ Arrives(m) \/ m \in lost'
        PROVE  DocumentCarried(d)'
    BY <1>1, <2>1, <2>2, <2>3 DEF DocumentCarried, Sender, Arrives, StatusDue, Exhausted, At
  <2>4. ASSUME Sender(h)', handler'[h].msg = m, m.document = d PROVE DocumentCarried(d)'
    BY <2>4 DEF DocumentCarried
  <2>5. ASSUME \/ handler' = [handler EXCEPT ![h].pc = "create"]
               \/ handler' = [handler EXCEPT ![h].pc = "enqueue"]
               \/ handler' = [handler EXCEPT ![h].pc = "reject_job"]
               \/ handler' = [handler EXCEPT ![h].pc = "reject_document"]
        PROVE  Sender(h)' /\ handler'[h].msg = m
    BY <2>5 DEF Sender, TypeInv, TypeOK, HandlersOK
  <2>6. CASE MarkDocument(h)
    <3>1. CASE Exists(m.document)
      <4>1. handler' = [handler EXCEPT ![h] = [handler[h] EXCEPT !.pc = "create"]]
        BY <2>6, <3>1 DEF MarkDocument
      <4>2. Sender(h)' /\ handler'[h].msg = m
        BY <2>5, <4>1
      <4>3. d = m.document \/ Busy(d)
        BY <2>1, <2>6, StatusWritten DEF MarkDocument, Busy
      <4> QED
        BY <2>3, <2>4, <4>2, <4>3
    <3>2. CASE ~Exists(m.document)
      <4>1. UNCHANGED doc /\ ~Sender(h)
        BY <2>6, <3>2 DEF MarkDocument, UpdateDocument, Sender
      <4> QED
        BY <2>3, <4>1 DEF Busy
    <3> QED
      BY <3>1, <3>2
  <2>7. CASE CreateJob(h)
    <3>1. UNCHANGED doc
      BY <2>7 DEF CreateJob
    <3>2. CASE Exists(m.document)
      BY <2>3, <2>5, <2>7, <3>1, <3>2 DEF CreateJob, Busy
    <3>3. CASE ~Exists(m.document)
      BY <2>3, <3>1, <3>3 DEF Busy, Exists
    <3> QED
      BY <3>2, <3>3
  <2>8. CASE EnqueueRaises(h) \/ RejectJob(h)
    BY <2>3, <2>5, <2>8 DEF EnqueueRaises, RejectJob, Busy, tables
  <2>9. CASE Enqueue(h) \/ EnqueueTwice(h)
    <3>1. UNCHANGED doc /\ Arrives(m)
      BY <2>1, <2>9, ArrivesOnce, ArrivesTwice DEF Enqueue, EnqueueTwice, tables, TypeInv, TypeOK
    <3> QED
      BY <2>3, <3>1 DEF Busy
  <2>10. CASE RejectDocument(h)
    <3> DEFINE row == [doc[m.document] EXCEPT
                         !.status = IF m.operation = "delete" THEN "delete_failed" ELSE "failed"]
    <3>1. UpdateDocument(m.document, row) /\ row.status \in {"delete_failed", "failed"}
      BY <2>1, <2>10 DEF RejectDocument, TypeInv, TypeOK, TablesOK
    <3> HIDE DEF row
    <3>2. m.document # d /\ Busy(d)
      BY <2>1, <3>1, StatusWritten DEF Busy, Exists
    <3> QED
      BY <2>3, <3>2
  <2>11. CASE RejectAudit(h) \/ HandlerCrash(h)
    BY <2>2, <2>3, <2>11 DEF RejectAudit, HandlerCrash, Sender, Busy, tables
  <2> QED
    BY <1>3, <2>6, <2>7, <2>8, <2>9, <2>10, <2>11 DEF HandlerRuns
<1> QED
  BY <1>2, <1>3

(* If XADD is exact no document is locked out by a status nobody is going  *)
(* to change, for any number of workers, requests, failures and crashes:   *)
(* the message, worker or request that will change it is there, or died.   *)
THEOREM BusyCarried == ASSUME XaddIsExact PROVE Spec => []BusyDocumentIsCarried
<1> DEFINE Inv == JobInv /\ PlanInv /\ BusyDocumentIsCarried
<1>1. Init => Inv
  BY JobInvInit, PlanInit DEF Init, BusyDocumentIsCarried
<1>2. XaddIsExact /\ Inv /\ [Next]_vars => Inv'
  <2> SUFFICES ASSUME XaddIsExact, Inv, [Next]_vars PROVE Inv'
    OBVIOUS
  <2>1. JobInv' /\ PlanInv'
    BY JobInvNext, PlanNext DEF JobInv
  <2>2. CASE Next
    BY <2>1, <2>2, BusyWorker, BusyHandler DEF Next, JobInv
  <2>3. CASE UNCHANGED vars
    BY <2>1, <2>3 DEF vars, tables, queues, bounds, BusyDocumentIsCarried, StatusDue, Exhausted, At
  <2> QED
    BY <2>1, <2>2, <2>3
<1>3. XaddIsExact
  OBVIOUS
<1> QED
  BY <1>1, <1>2, <1>3, PTL DEF Spec

-----------------------------------------------------------------------------
(* The index report.  It compares numbers, which is enough because what a  *)
(* backend holds of a document is always a prefix of its chunks, and a     *)
(* document only gets ready with a chunk in some backend.                  *)
Prefixes == \A d \in Document, b \in Backend : \E n \in Nat : chunks[d][b] = 1..n
WorkersCounted == \A w \in Worker : worker[w].pc \in {"insert", "publish"} => worker[w].count > 0
ReadyRecorded == \A d \in Document : doc[d].status = "ready" => ~Unrecorded(d)

ReportInv == Prefixes /\ WorkersCounted /\ ReadyRecorded

LEMMA Insertions ==
  ASSUME NEW n \in Nat, NEW k \in Nat
  PROVE  \E i \in Nat : (1..n) \cup (1..k) = 1..i
<1> DEFINE union == (1..n) \cup (1..k)
           greatest == IF n <= k THEN k ELSE n
<1>1. union = 1..greatest /\ greatest \in Nat
  OBVIOUS
<1> HIDE DEF greatest, union
<1>2. \E i \in Nat : union = 1..i
  BY <1>1, Zenon
<1> QED
  BY <1>2 DEF union

(* What one backend holds of one document is rewritten.                    *)
LEMMA PrefixWritten ==
  ASSUME TypeInv, Prefixes, NEW d \in Document, NEW b \in Backend, NEW n \in Nat, NEW set,
         chunks' = [chunks EXCEPT ![d][b] = set], set = 1..n
  PROVE  Prefixes'
BY DEF TypeInv, TypeOK, StoresOK, Prefixes

LEMMA PrefixesKept ==
  ASSUME TypeInv, Prefixes, NEW w \in Worker, WorkerRuns(w) \/ WorkerCrash(w)
  PROVE  Prefixes'
<1> DEFINE d == worker[w].msg.document
<1>1. ASSUME NEW b \in Backend, InsertBackend(w, b) PROVE Prefixes'
  <2>1. d \in Document /\ worker[w].count \in Nat
    BY <1>1, HeldByWorker, PipelineAssumption DEF InsertBackend, At, TypeInv, TypeOK, WorkersOK
  <2>2. worker[w].count \in 0..worker[w].count
    BY <2>1
  <2>3. PICK k \in 0..worker[w].count : chunks' = [chunks EXCEPT ![d][b] = @ \cup 1..k]
    BY <1>1, <2>2 DEF InsertBackend
  <2>4. PICK n \in Nat : chunks[d][b] = 1..n
    BY <2>1 DEF Prefixes
  <2>5. chunks' = [chunks EXCEPT ![d][b] = (1..n) \cup 1..k]
    BY <2>1, <2>3, <2>4 DEF TypeInv, TypeOK, StoresOK
  <2>6. n \in Nat /\ k \in Nat
    BY <2>1, <2>3, <2>4
  <2>7. PICK i \in Nat : (1..n) \cup (1..k) = 1..i
    BY <2>6, Insertions
  <2> QED
    BY <2>1, <2>5, <2>7, PrefixWritten
<1>2. ASSUME NEW b \in Backend, ClearBackend(w, b) PROVE Prefixes'
  <2>1. d \in Document /\ (UNCHANGED chunks \/ chunks' = [chunks EXCEPT ![d][b] = {}])
    BY <1>2, HeldByWorker DEF ClearBackend, At
  <2>2. {} = 1..0
    OBVIOUS
  <2> QED
    BY <2>1, <2>2, PrefixWritten DEF Prefixes
<1>3. ASSUME UNCHANGED chunks PROVE Prefixes'
  BY <1>3 DEF Prefixes
<1> QED
  BY <1>1, <1>2, <1>3
     DEF WorkerRuns, ProcessMessage, Receive, BeginJob, SkipJob, MissingJob, MarkProcessing, Operation,
         Parse, ParseRaises, Publish, Unlink, Finish, MissingAtFinish, DatabaseRaises, RecordFailure,
         ReflectFailure, Resend, ResendTwice, ReportFailure, Acknowledge, WorkerCrash, stores

LEMMA CountsKept ==
  ASSUME TypeInv, WorkersCounted, NEW w \in Worker, WorkerRuns(w) \/ WorkerCrash(w)
  PROVE  WorkersCounted'
<1>1. w \in DOMAIN worker /\ worker[w] \in WorkerRecord
  BY DEF TypeInv, TypeOK, WorkersOK, WorkerRecord
<1>2. ASSUME NEW r, worker' = [worker EXCEPT ![w] = r], r.pc \in {"insert", "publish"} => r.count > 0
      PROVE  WorkersCounted'
  BY <1>1, <1>2 DEF WorkersCounted, TypeInv, TypeOK, WorkersOK
<1>3. ASSUME NEW next, Goto(w, next), next \notin {"insert", "publish"} PROVE WorkersCounted'
  BY <1>1, <1>3, <1>2 DEF Goto, WorkerRecord
<1>4. CASE Parse(w)
  <2>1. PICK n \in 1..MaxChunks : worker' = [worker EXCEPT ![w] =
           [@ EXCEPT !.pc = "insert", !.count = n, !.todo = ModeBackends[worker[w].msg.mode]]]
    BY <1>4 DEF Parse
  <2> DEFINE r == [worker[w] EXCEPT !.pc = "insert", !.count = n, !.todo = ModeBackends[worker[w].msg.mode]]
  <2>2. worker' = [worker EXCEPT ![w] = r]
    BY <2>1
  <2>3. r.count = n /\ n > 0
    BY <1>1, <2>1, PipelineAssumption DEF WorkerRecord
  <2> HIDE DEF r
  <2> QED
    BY <1>2, <2>2, <2>3
<1>5. ASSUME NEW b, NEW failed, NEW next \in {"publish", "unlink"}, BackendDone(w, b, failed, next),
             worker[w].pc \in {"insert", "clear"}, next = "publish" => worker[w].pc = "insert"
      PROVE  WorkersCounted'
  <2> DEFINE left == worker[w].todo \ {b}
             anyFailed == worker[w].failed \/ failed
             pc == IF left # {} THEN worker[w].pc ELSE IF anyFailed THEN "record" ELSE next
             r == [worker[w] EXCEPT !.todo = left, !.failed = anyFailed, !.pc = pc]
  <2>1. worker' = [worker EXCEPT ![w] = r]
    BY <1>5 DEF BackendDone
  <2>2. pc \in {worker[w].pc, "record", next}
    OBVIOUS
  <2> HIDE DEF pc
  <2>3. r.count = worker[w].count /\ r.pc = pc
    BY <1>1 DEF WorkerRecord
  <2>4. worker[w].pc = "insert" => worker[w].count > 0
    BY DEF WorkersCounted
  <2> HIDE DEF r
  <2> QED
    BY <1>2, <1>5, <2>1, <2>2, <2>3, <2>4
<1>6. CASE \E b \in Backend : InsertBackend(w, b) \/ ClearBackend(w, b)
  BY <1>5, <1>6 DEF InsertBackend, ClearBackend, At
<1>7. CASE MarkProcessing(w)
  <2> DEFINE m == worker[w].msg
             todo == IF m.operation = "delete" THEN ModeBackends[m.mode] ELSE {}
             next == IF m.operation = "ingest" THEN "parse"
                     ELSE IF worker[w].indexed THEN "clear" ELSE "unlink"
             r == [worker[w] EXCEPT !.todo = todo, !.pc = next]
  <2>1. worker' = [worker EXCEPT ![w] = r]
    BY <1>7 DEF MarkProcessing
  <2>2. r.pc = next /\ next \in {"parse", "clear", "unlink"}
    BY <1>1 DEF WorkerRecord
  <2> HIDE DEF r, next
  <2> QED
    BY <1>2, <2>1, <2>2
<1>8. CASE BeginJob(w)
  <2>1. worker'[w].pc = "marking" /\ \E r : worker' = [worker EXCEPT ![w] = r] /\ r = worker'[w]
    BY <1>1, <1>8 DEF BeginJob, WorkerRecord
  <2> QED
    BY <1>2, <2>1
<1>9. CASE Receive(w) \/ Acknowledge(w) \/ WorkerCrash(w)
  <2>1. \E pc \in {"received", "idle"} : \E m : worker' = [worker EXCEPT ![w] = Starting(pc, m)]
    BY <1>9 DEF Receive, Acknowledge, WorkerCrash, IdleWorker
  <2> QED
    BY <1>2, <2>1 DEF Starting
<1>10. CASE \/ ParseRaises(w) \/ Publish(w) \/ Unlink(w) \/ SkipJob(w) \/ MissingJob(w) \/ Finish(w)
            \/ MissingAtFinish(w) \/ DatabaseRaises(w) \/ RecordFailure(w) \/ ReflectFailure(w)
            \/ ReportFailure(w) \/ Sends(w)
  <2>1. \E next \in {"ack", "record", "finish", "reflect", "resend", "report"} : Goto(w, next)
    BY <1>10 DEF ParseRaises, Publish, Unlink, SkipJob, MissingJob, Finish, MissingAtFinish,
                 DatabaseRaises, RecordFailure, ReflectFailure, ReportFailure, Sends, Resend, ResendTwice
  <2> QED
    BY <1>3, <2>1
<1> QED
  BY <1>4, <1>6, <1>7, <1>8, <1>9, <1>10 DEF WorkerRuns, ProcessMessage, Operation, Sends

(* How a step may change the row of a document.                            *)
DocumentMoves ==
    \A d \in Document :
      \/ doc'[d] = doc[d]
      \/ \E s \in DocumentStatus \ {"ready", "gone"} : Exists(d) /\ doc'[d] = [doc[d] EXCEPT !.status = s]
      \/ doc'[d] = [status |-> "gone", backends |-> {}, count |-> 0]
      \/ \E w \in Worker :
           /\ worker[w].pc = "publish" /\ worker[w].msg.document = d
           /\ doc'[d] = [status |-> "ready", backends |-> ModeBackends[worker[w].msg.mode],
                         count |-> worker[w].count]

LEMMA DocumentsMove == ASSUME TypeInv, Next PROVE DocumentMoves
<1>1. ASSUME NEW d \in Document, NEW s \in DocumentStatus \ {"ready", "gone"},
             UpdateDocument(d, [doc[d] EXCEPT !.status = s])
      PROVE  DocumentMoves
  BY <1>1 DEF DocumentMoves, UpdateDocument, TypeInv, TypeOK, TablesOK
<1>2. ASSUME UNCHANGED doc PROVE DocumentMoves
  BY <1>2 DEF DocumentMoves
<1>3. ASSUME NEW h \in Handler, HandlerStart(h) \/ HandlerRuns(h) \/ HandlerCrash(h) PROVE DocumentMoves
  <2>1. CASE MarkDocument(h) \/ RejectDocument(h)
    <3>1. handler[h].msg.document \in Document
      BY <2>1, HeldByHandler DEF MarkDocument, RejectDocument
    <3>2. PICK s \in DocumentStatus \ {"ready", "gone"} :
            UpdateDocument(handler[h].msg.document, [doc[handler[h].msg.document] EXCEPT !.status = s])
      BY <2>1 DEF MarkDocument, RejectDocument, DocumentStatus
    <3> QED
      BY <1>1, <3>1, <3>2
  <2>2. CASE ~(MarkDocument(h) \/ RejectDocument(h))
    BY <1>2, <1>3, <2>2
       DEF HandlerStart, AcceptIngest, AcceptDelete, AcceptBulkDelete, Accept, HandlerRuns, CreateJob,
           Enqueue, EnqueueRaises, EnqueueTwice, RejectJob, RejectAudit, HandlerCrash, tables
  <2> QED
    BY <2>1, <2>2
<1>4. ASSUME NEW w \in Worker, WorkerRuns(w) \/ WorkerCrash(w) PROVE DocumentMoves
  <2> DEFINE m == worker[w].msg
  <2>1. CASE MarkProcessing(w) \/ ReflectFailure(w)
    <3>1. m.document \in Document
      BY <2>1, HeldByWorker DEF MarkProcessing, ReflectFailure, At
    <3>2. PICK s \in DocumentStatus \ {"ready", "gone"} :
            UpdateDocument(m.document, [doc[m.document] EXCEPT !.status = s])
      BY <2>1 DEF MarkProcessing, ReflectFailure, DocumentStatus
    <3> QED
      BY <1>1, <3>1, <3>2
  <2>2. CASE Publish(w)
    BY <2>2, HeldByWorker DEF Publish, At, DocumentMoves, UpdateDocument, TypeInv, TypeOK, TablesOK
  <2>3. CASE Finish(w)
    BY <2>3, HeldByWorker DEF Finish, At, DocumentMoves, TypeInv, TypeOK, TablesOK
  <2>4. CASE ~(MarkProcessing(w) \/ ReflectFailure(w) \/ Publish(w) \/ Finish(w))
    BY <1>2, <1>4, <2>4
       DEF WorkerRuns, ProcessMessage, Receive, BeginJob, SkipJob, MissingJob, Operation, Parse, ParseRaises,
           InsertBackend, ClearBackend, Unlink, MissingAtFinish, DatabaseRaises, RecordFailure,
           Resend, ResendTwice, ReportFailure, Acknowledge, WorkerCrash, tables
  <2> QED
    BY <2>1, <2>2, <2>3, <2>4
<1> QED
  BY <1>3, <1>4 DEF Next

LEMMA ReadyKept ==
  ASSUME TypeInv, WorkersCounted, ReadyRecorded, DocumentMoves
  PROVE  ReadyRecorded'
<1> SUFFICES ASSUME NEW d \in Document, doc'[d].status = "ready"
             PROVE  doc'[d].count # 0 /\ doc'[d].backends # {}
  BY DEF ReadyRecorded, Unrecorded
<1>1. CASE doc'[d] = doc[d]
  BY <1>1 DEF ReadyRecorded, Unrecorded
<1>2. ASSUME NEW w \in Worker, worker[w].pc = "publish",
             doc'[d] = [status |-> "ready", backends |-> ModeBackends[worker[w].msg.mode],
                        count |-> worker[w].count]
      PROVE  doc'[d].count # 0 /\ doc'[d].backends # {}
  <2>1. worker[w].msg.mode \in {"milvus", "graph", "mg"} /\ worker[w].count > 0 /\ worker[w].count \in Nat
    BY <1>2, HeldByWorker, PipelineAssumption DEF At, Message, WorkersCounted, TypeInv, TypeOK, WorkersOK
  <2>2. ModeBackends[worker[w].msg.mode] # {}
    BY <2>1 DEF ModeBackends, Backend
  <2>3. doc'[d].count = worker[w].count /\ doc'[d].backends = ModeBackends[worker[w].msg.mode]
    BY <1>2
  <2>4. worker[w].count # 0
    BY <2>1
  <2> QED
    BY <2>2, <2>3, <2>4, Zenon
<1>3. ASSUME \/ \E s \in DocumentStatus \ {"ready", "gone"} : doc'[d] = [doc[d] EXCEPT !.status = s]
             \/ doc'[d] = [status |-> "gone", backends |-> {}, count |-> 0]
      PROVE  FALSE
  <2>1. ASSUME NEW s, doc'[d] = [doc[d] EXCEPT !.status = s] PROVE s = "ready"
    <3>1. [doc[d] EXCEPT !.status = s].status = s
      BY DEF TypeInv, TypeOK, TablesOK
    <3> QED
      BY <2>1, <3>1
  <2>2. doc'[d] # [status |-> "gone", backends |-> {}, count |-> 0]
    OBVIOUS
  <2>3. \A s \in DocumentStatus \ {"ready", "gone"} : doc'[d] # [doc[d] EXCEPT !.status = s]
    <3>1. "ready" \notin DocumentStatus \ {"ready", "gone"}
      OBVIOUS
    <3> QED
      BY <2>1, <3>1, Zenon
  <2> QED
    BY <1>3, <2>2, <2>3, Zenon
<1>4. \/ doc'[d] = doc[d]
      \/ \E s \in DocumentStatus \ {"ready", "gone"} : doc'[d] = [doc[d] EXCEPT !.status = s]
      \/ doc'[d] = [status |-> "gone", backends |-> {}, count |-> 0]
      \/ \E w \in Worker :
           /\ worker[w].pc = "publish"
           /\ doc'[d] = [status |-> "ready", backends |-> ModeBackends[worker[w].msg.mode],
                         count |-> worker[w].count]
  BY DEF DocumentMoves
<1> QED
  BY <1>1, <1>2, <1>3, <1>4

LEMMA ReportInvNext == TypeInv /\ ReportInv /\ [Next]_vars => ReportInv'
<1> SUFFICES ASSUME TypeInv, ReportInv, [Next]_vars PROVE ReportInv'
  OBVIOUS
<1>1. CASE UNCHANGED vars
  BY <1>1 DEF vars, tables, stores, ReportInv, Prefixes, WorkersCounted, ReadyRecorded, Unrecorded
<1>2. CASE Next
  <2>1. ReadyRecorded'
    BY <1>2, DocumentsMove, ReadyKept DEF ReportInv
  <2>2. Prefixes' /\ WorkersCounted'
    <3>1. ASSUME NEW h \in Handler, HandlerStart(h) \/ HandlerRuns(h) \/ HandlerCrash(h)
          PROVE  UNCHANGED <<chunks, worker>>
      BY <3>1
         DEF HandlerStart, AcceptIngest, AcceptDelete, AcceptBulkDelete, Accept, HandlerRuns, MarkDocument,
             CreateJob, Enqueue, EnqueueRaises, EnqueueTwice, RejectJob, RejectDocument, RejectAudit,
             HandlerCrash, stores
    <3>2. ASSUME UNCHANGED <<chunks, worker>> PROVE Prefixes' /\ WorkersCounted'
      BY <3>2 DEF ReportInv, Prefixes, WorkersCounted
    <3> QED
      BY <1>2, <3>1, <3>2, PrefixesKept, CountsKept DEF Next, ReportInv
  <2> QED
    BY <2>1, <2>2 DEF ReportInv
<1> QED
  BY <1>1, <1>2

LEMMA ReportInvInit == Init => ReportInv
<1> SUFFICES ASSUME Init PROVE ReportInv
  OBVIOUS
<1>1. {} = 1..0
  OBVIOUS
<1> QED
  BY <1>1 DEF Init, ReportInv, Prefixes, WorkersCounted, ReadyRecorded, IdleWorker, Starting

\* Two prefixes of equal size are equal.
LEMMA PrefixSize == \A n \in Nat : Cardinality(1..n) = n
<1> SUFFICES ASSUME NEW n \in Nat PROVE Cardinality(1..n) = n
  OBVIOUS
<1>1. Cardinality(1..n) = IF 1 > n THEN 0 ELSE n - 1 + 1
  BY FS_Interval
<1> QED
  BY <1>1

LEMMA CountedRight ==
  ASSUME TypeInv, ReportInv, NEW d \in Document, NEW b \in Backend
  PROVE  /\ doc[d].status = "ready" =>
              (DocumentChunks(b)[d] = ExpectedChunks(d, b) <=> chunks[d][b] = Searchable(d, b))
         /\ doc[d].status # "ready" => (DocumentChunks(b)[d] > 0 <=> chunks[d][b] # Searchable(d, b))
<1>1. PICK n \in Nat : chunks[d][b] = 1..n
  BY DEF ReportInv, Prefixes
<1>2. DocumentChunks(b)[d] = n
  BY <1>1, PrefixSize DEF DocumentChunks
<1>3. ExpectedChunks(d, b) \in Nat /\ doc[d].count \in Nat
  BY PipelineAssumption DEF ExpectedChunks, TypeInv, TypeOK, TablesOK
<1>4. doc[d].status = "ready" => Searchable(d, b) = 1..ExpectedChunks(d, b)
  BY <1>3 DEF Searchable, ExpectedChunks
<1>5. \A k \in Nat : 1..n = 1..k <=> n = k
  BY PrefixSize
<1> QED
  BY <1>1, <1>2, <1>3, <1>4, <1>5 DEF Searchable

LEMMA ReportRight == TypeInv /\ ReportInv => ReportIsExact
<1> SUFFICES ASSUME TypeInv, ReportInv, NEW scanned \in SUBSET Backend
    PROVE  LET report == Report(scanned)
               Wrong(d) == \E b \in scanned : chunks[d][b] # Searchable(d, b)
           IN /\ \A d \in DOMAIN report :
                   /\ report[d] = "consistent" => ~Wrong(d)
                   /\ report[d] = "mismatch" => Wrong(d)
              /\ scanned = Backend =>
                   \A d \in Document : doc[d].status \in {"ready", "gone"} /\ Wrong(d) =>
                       d \in DOMAIN report /\ report[d] = "mismatch"
  BY DEF ReportIsExact
<1> DEFINE report == Report(scanned)
           Wrong(d) == \E b \in scanned : chunks[d][b] # Searchable(d, b)
<1>1. /\ DOMAIN report = {e \in Document : Exists(e)} \cup Orphans(scanned)
      /\ \A d \in DOMAIN report : report[d] = IF Exists(d) THEN DocumentCheck(d, scanned) ELSE "mismatch"
  BY DEF Report
<1>2. ASSUME NEW d \in Document, doc[d].status = "ready" PROVE Wrong(d) <=> Miscounted(d, scanned)
  BY <1>2, CountedRight DEF Miscounted
<1>3. ASSUME NEW d \in Document, ~Exists(d) PROVE Wrong(d) <=> d \in Orphans(scanned)
  <2>1. doc[d].status # "ready"
    BY <1>3 DEF Exists
  <2> QED
    BY <1>3, <2>1, CountedRight DEF Orphans
<1>4. \A d \in Document : doc[d].status = "ready" => ~Unrecorded(d) /\ doc[d].backends \subseteq Backend /\ Exists(d)
  BY DEF ReportInv, ReadyRecorded, TypeInv, TypeOK, TablesOK, Exists
<1>5. \A d \in Document : Exists(d) => d \notin Orphans(scanned)
  BY DEF Orphans
<1> HIDE DEF report, Wrong
<1>6. ASSUME NEW d \in DOMAIN report, report[d] = "consistent" PROVE ~Wrong(d)
  <2>1. d \in Document /\ Exists(d) /\ DocumentCheck(d, scanned) = "consistent"
    BY <1>1, <1>6 DEF Orphans
  <2>2. doc[d].status = "ready" /\ ~Miscounted(d, scanned)
    BY <2>1 DEF DocumentCheck
  <2> QED
    BY <1>2, <2>1, <2>2
<1>7. ASSUME NEW d \in DOMAIN report, report[d] = "mismatch" PROVE Wrong(d)
  <2>1. CASE Exists(d)
    <3>1. d \in Document /\ DocumentCheck(d, scanned) = "mismatch"
      BY <1>1, <1>7, <2>1 DEF Orphans
    <3>2. doc[d].status = "ready" /\ (Unrecorded(d) \/ Miscounted(d, scanned))
      BY <3>1 DEF DocumentCheck
    <3> QED
      BY <1>2, <1>4, <3>1, <3>2
  <2>2. CASE ~Exists(d)
    BY <1>1, <1>3, <2>2 DEF Orphans
  <2> QED
    BY <2>1, <2>2
<1>8. ASSUME scanned = Backend, NEW d \in Document, doc[d].status \in {"ready", "gone"}, Wrong(d)
      PROVE  d \in DOMAIN report /\ report[d] = "mismatch"
  <2>1. CASE doc[d].status = "ready"
    <3>1. Exists(d) /\ DocumentCheck(d, scanned) = "mismatch"
      BY <1>2, <1>4, <1>8, <2>1 DEF DocumentCheck
    <3> QED
      BY <1>1, <3>1
  <2>2. CASE doc[d].status = "gone"
    BY <1>1, <1>3, <1>8, <2>2 DEF Exists
  <2> QED
    BY <1>8, <2>1, <2>2
<1> QED
  BY <1>6, <1>7, <1>8 DEF report, Wrong

(* Whatever failed, died, was sent twice or overlapped, with any number of *)
(* workers: the index report that compares numbers of chunks is right      *)
(* chunk by chunk, and tells of everything a half failed ingestion or an   *)
(* overtaken deletion left behind.                                         *)
THEOREM ReportExact == Spec => []ReportIsExact
<1> DEFINE Inv == TypeInv /\ ReportInv
<1>1. Init => Inv
  BY InitType, ReportInvInit
<1>2. Inv /\ [Next]_vars => Inv'
  BY NextType, ReportInvNext
<1>3. Inv => ReportIsExact
  BY ReportRight
<1> QED
  BY <1>1, <1>2, <1>3, PTL DEF Spec

-----------------------------------------------------------------------------
(* One worker.  A parse, one step here, reads the uploaded file and writes *)
(* the parsed one a while later, so what follows is only claimed for the   *)
(* deployment of compose.yaml, one worker process.                         *)
OneWorker == \A v, w \in Worker : v = w

\* A worker past BeginJob and before the end of its operation.
Operates(w) == worker[w].pc \in {"marking", "parse", "insert", "publish", "clear", "unlink", "finish"}

\* The worker that is at its operation finds the row.
OperandExists == \A w \in Worker : Operates(w) => Exists(worker[w].msg.document)

\* What the backends have to hold while a document is indexed.
InsertsDone ==
    \A w \in Worker :
      LET d == worker[w].msg.document
          Complete(b) == 1..worker[w].count \subseteq chunks[d][b] IN
      /\ At(w, "insert") => \A b \in ModeBackends[worker[w].msg.mode] \ worker[w].todo :
                              ~worker[w].failed => Complete(b)
      /\ At(w, "publish") => \A b \in ModeBackends[worker[w].msg.mode] : Complete(b)
ClearsUnready == \A w \in Worker : At(w, "clear") => doc[worker[w].msg.document].status # "ready"
IndexedInv == InsertsDone /\ ClearsUnready /\ ReadyIsIndexed

\* The parsed file is there only beside the uploaded one.
FilesInv ==
    /\ parsed \subseteq original
    /\ \A w \in Worker : At(w, "finish") /\ worker[w].msg.operation = "delete" =>
         worker[w].msg.document \notin original
    /\ \A d \in Document : doc[d].status = "gone" => d \notin original

\* Nothing of document d is in any backend; its row says that something is.
Empty(d) == \A b \in Backend : chunks[d][b] = {}
Recorded(d) == doc[d].count > 0 \/ doc[d].backends # {}

RowsBare == \A d \in Document : doc[d].status = "gone" => ~Recorded(d)
ChunksRecorded ==
    \A d \in Document : Empty(d) \/ Recorded(d)
      \/ \E w \in Worker : worker[w].pc \in {"insert", "publish"} /\ worker[w].msg.document = d
ClearsDone ==
    \A w \in Worker :
      LET d == worker[w].msg.document IN
      /\ At(w, "marking") /\ Recorded(d) => worker[w].indexed
      /\ At(w, "clear") => \A b \in Backend \ worker[w].todo : chunks[d][b] = {}
      /\ At(w, "unlink") \/ (At(w, "finish") /\ worker[w].msg.operation = "delete") => Empty(d)
NoneFailed == \A w \in Worker : ~worker[w].failed
OrderlyInv == faults = 0 /\ crashes = 0 => ChunksRecorded /\ ClearsDone /\ NoneFailed

Orderly == faults = 0 /\ crashes = 0

StoreInv == OperandExists /\ IndexedInv /\ FilesInv /\ RowsBare /\ OrderlyInv

\* The row of document d keeps all but its status, which stays or gets none
\* of those a worker ends with.
StatusMoves(d) ==
    \/ doc'[d] = doc[d]
    \/ \E s \in DocumentStatus \ {"ready", "gone"} : Exists(d) /\ doc'[d] = [doc[d] EXCEPT !.status = s]

LEMMA StatusMoved ==
  ASSUME TypeInv, NEW d \in Document, StatusMoves(d)
  PROVE  /\ doc'[d].count = doc[d].count /\ doc'[d].backends = doc[d].backends
         /\ (Recorded(d)' <=> Recorded(d)) /\ (Exists(d)' <=> Exists(d))
         /\ doc'[d].status \in {"ready", "gone"} => doc'[d] = doc[d]
<1>1. ASSUME NEW s \in DocumentStatus \ {"ready", "gone"}, Exists(d), doc'[d] = [doc[d] EXCEPT !.status = s]
      PROVE  /\ doc'[d].count = doc[d].count /\ doc'[d].backends = doc[d].backends
             /\ Exists(d) /\ doc'[d].status = s /\ s \notin {"ready", "gone"}
  BY <1>1 DEF TypeInv, TypeOK, TablesOK
<1> QED
  BY <1>1 DEF StatusMoves, Recorded, Exists

LEMMA StatusUpdated ==
  ASSUME TypeInv, NEW d \in Document, NEW s \in DocumentStatus \ {"ready", "gone"},
         UpdateDocument(d, [doc[d] EXCEPT !.status = s])
  PROVE  /\ \A e \in Document : StatusMoves(e)
         /\ Exists(d) => doc'[d].status = s
BY DEF StatusMoves, UpdateDocument, TypeInv, TypeOK, TablesOK

LEMMA HandlerStores ==
  ASSUME TypeInv, NEW h \in Handler, HandlerStart(h) \/ HandlerRuns(h) \/ HandlerCrash(h)
  PROVE  /\ UNCHANGED <<worker, chunks, original, parsed>> /\ (Orderly' => Orderly)
         /\ \A d \in Document : StatusMoves(d)
<1>1. UNCHANGED <<worker, chunks, original, parsed>>
  BY DEF HandlerStart, AcceptIngest, AcceptDelete, AcceptBulkDelete, Accept, HandlerRuns, MarkDocument,
         CreateJob, Enqueue, EnqueueRaises, EnqueueTwice, RejectJob, RejectDocument, RejectAudit,
         HandlerCrash, stores
<1>2. Orderly' => Orderly
  BY DEF HandlerStart, AcceptIngest, AcceptDelete, AcceptBulkDelete, Accept, HandlerRuns, MarkDocument,
         CreateJob, Enqueue, EnqueueRaises, EnqueueTwice, RejectJob, RejectDocument, RejectAudit,
         HandlerCrash, bounds, Orderly, Fault, TypeInv, TypeOK, BoundsOK
<1>3. CASE MarkDocument(h) \/ RejectDocument(h)
  <2>1. handler[h].msg.document \in Document
    BY <1>3, HeldByHandler DEF MarkDocument, RejectDocument
  <2>2. PICK s \in DocumentStatus \ {"ready", "gone"} :
          UpdateDocument(handler[h].msg.document, [doc[handler[h].msg.document] EXCEPT !.status = s])
    BY <1>3 DEF MarkDocument, RejectDocument, DocumentStatus
  <2> QED
    BY <1>1, <1>2, <2>1, <2>2, StatusUpdated
<1>4. CASE ~(MarkDocument(h) \/ RejectDocument(h))
  <2>1. UNCHANGED doc
    BY <1>4
       DEF HandlerStart, AcceptIngest, AcceptDelete, AcceptBulkDelete, Accept, HandlerRuns, CreateJob,
           Enqueue, EnqueueRaises, EnqueueTwice, RejectJob, RejectAudit, HandlerCrash, tables
  <2> QED
    BY <1>1, <1>2, <2>1 DEF StatusMoves
<1> QED
  BY <1>3, <1>4

\* The document of a busy worker.
LEMMA Operand ==
  ASSUME TypeInv, NEW w \in Worker, worker[w].pc # "idle"
  PROVE  worker[w].msg \in Message /\ worker[w].msg.document \in Document
BY HeldByWorker DEF At

LEMMA StoreHandler ==
  ASSUME TypeInv, StoreInv, NEW h \in Handler, HandlerStart(h) \/ HandlerRuns(h) \/ HandlerCrash(h)
  PROVE  StoreInv'
<1>1. UNCHANGED <<worker, chunks, original, parsed>> /\ (Orderly' => Orderly)
  BY HandlerStores
<1>2. \A d \in Document :
        /\ doc'[d].count = doc[d].count /\ doc'[d].backends = doc[d].backends
        /\ (Recorded(d)' <=> Recorded(d)) /\ (Exists(d)' <=> Exists(d))
        /\ doc'[d].status \in {"ready", "gone"} => doc'[d] = doc[d]
  BY HandlerStores, StatusMoved
<1>3. OperandExists'
  BY <1>1, <1>2, Operand DEF StoreInv, OperandExists, Operates
<1>4. IndexedInv'
  <2>1. InsertsDone'
    BY <1>1 DEF StoreInv, IndexedInv, InsertsDone, At
  <2>2. ClearsUnready'
    BY <1>1, <1>2, Operand DEF StoreInv, IndexedInv, ClearsUnready, At
  <2>3. ReadyIsIndexed'
    BY <1>1, <1>2 DEF StoreInv, IndexedInv, ReadyIsIndexed
  <2> QED
    BY <2>1, <2>2, <2>3 DEF IndexedInv
<1>5. FilesInv'
  BY <1>1, <1>2 DEF StoreInv, FilesInv, At
<1>6. RowsBare'
  BY <1>2 DEF StoreInv, RowsBare, Recorded
<1>7. OrderlyInv'
  <2> SUFFICES ASSUME Orderly' PROVE ChunksRecorded' /\ ClearsDone' /\ NoneFailed'
    BY DEF OrderlyInv, Orderly
  <2>1. ChunksRecorded /\ ClearsDone /\ NoneFailed
    BY <1>1 DEF StoreInv, OrderlyInv, Orderly
  <2>2. ChunksRecorded'
    BY <1>1, <1>2, <2>1 DEF ChunksRecorded, Empty
  <2>3. ClearsDone'
    <3>1. ASSUME NEW w \in Worker, worker[w].pc # "idle" PROVE Recorded(worker[w].msg.document)' => Recorded(worker[w].msg.document)
      BY <1>1, <1>2, <3>1, Operand DEF Recorded
    <3> QED
      BY <1>1, <2>1, <3>1 DEF ClearsDone, At, Empty
  <2>4. NoneFailed'
    BY <1>1, <2>1 DEF NoneFailed
  <2> QED
    BY <2>2, <2>3, <2>4
<1> QED
  BY <1>3, <1>4, <1>5, <1>6, <1>7 DEF StoreInv

(* A step that ends or interrupts the operation of the worker.             *)
LEMMA StoreQuiet ==
  ASSUME OneWorker, TypeInv, StoreInv, NEW w \in Worker, ~Operates(w)',
         \A d \in Document : StatusMoves(d), UNCHANGED <<chunks, original>>, parsed' \subseteq original,
         Orderly' => Orderly /\ worker[w].pc \notin {"insert", "publish"} /\ ~worker'[w].failed
  PROVE  StoreInv'
<1>1. \A v \in Worker : v = w
  BY DEF OneWorker
<1>2. \A d \in Document :
        /\ doc'[d].count = doc[d].count /\ doc'[d].backends = doc[d].backends
        /\ (Recorded(d)' <=> Recorded(d)) /\ (Exists(d)' <=> Exists(d))
        /\ doc'[d].status \in {"ready", "gone"} => doc'[d] = doc[d]
  BY StatusMoved
<1>3. OperandExists' /\ InsertsDone' /\ ClearsUnready'
  BY <1>1 DEF OperandExists, InsertsDone, ClearsUnready, Operates, At
<1>4. ReadyIsIndexed'
  BY <1>2 DEF StoreInv, IndexedInv, ReadyIsIndexed
<1>5. FilesInv'
  BY <1>1, <1>2 DEF StoreInv, FilesInv, Operates, At
<1>6. RowsBare'
  BY <1>2 DEF StoreInv, RowsBare, Recorded
<1>7. OrderlyInv'
  <2> SUFFICES ASSUME Orderly' PROVE ChunksRecorded' /\ ClearsDone' /\ NoneFailed'
    BY DEF OrderlyInv, Orderly
  <2>1. ChunksRecorded'
    BY <1>1, <1>2 DEF StoreInv, OrderlyInv, Orderly, ChunksRecorded, Empty
  <2>2. ClearsDone'
    BY <1>1 DEF ClearsDone, Operates, At
  <2>3. NoneFailed'
    BY <1>1 DEF NoneFailed
  <2> QED
    BY <2>1, <2>2, <2>3
<1> QED
  BY <1>3, <1>4, <1>5, <1>6, <1>7 DEF StoreInv, IndexedInv

\* Worker w is done with backend b.
LEMMA BackendLeft ==
  ASSUME TypeInv, NEW w \in Worker, NEW b \in Backend, NEW failed \in BOOLEAN, NEW next,
         BackendDone(w, b, failed, next), next # worker[w].pc, next # "record", worker[w].pc # "record"
  PROVE  /\ worker'[w].msg = worker[w].msg /\ worker'[w].count = worker[w].count
         /\ worker'[w].todo = worker[w].todo \ {b}
         /\ worker'[w].pc \in {worker[w].pc, next, "record"}
         /\ ~worker'[w].failed <=> ~worker[w].failed /\ ~failed
         /\ worker'[w].pc = "record" => worker[w].failed \/ failed
         /\ worker'[w].pc = next => worker[w].todo \subseteq {b} /\ ~worker[w].failed /\ ~failed
<1> DEFINE left == worker[w].todo \ {b}
           anyFailed == worker[w].failed \/ failed
           pc == IF left # {} THEN worker[w].pc ELSE IF anyFailed THEN "record" ELSE next
           r == [worker[w] EXCEPT !.todo = left, !.failed = anyFailed, !.pc = pc]
<1>1. worker' = [worker EXCEPT ![w] = r]
  BY DEF BackendDone
<1>2. pc \in {worker[w].pc, next, "record"}
  OBVIOUS
<1>3. (pc = next => worker[w].todo \subseteq {b} /\ ~anyFailed) /\ (pc = "record" => anyFailed)
  OBVIOUS
<1>4. ~anyFailed <=> ~worker[w].failed /\ ~failed
  OBVIOUS
<1> HIDE DEF pc, anyFailed
<1>5. worker[w] \in WorkerRecord /\ w \in DOMAIN worker
  BY DEF TypeInv, TypeOK, WorkersOK, WorkerRecord
<1>6. r.msg = worker[w].msg /\ r.count = worker[w].count /\ r.todo = left /\ r.pc = pc /\ r.failed = anyFailed
  BY <1>5 DEF WorkerRecord
<1> HIDE DEF r, left
<1>7. worker'[w] = r
  BY <1>1, <1>5
<1>8. /\ worker'[w].msg = worker[w].msg /\ worker'[w].count = worker[w].count
      /\ worker'[w].todo = left /\ worker'[w].pc = pc
  BY <1>6, <1>7
<1>9. ~worker'[w].failed <=> ~anyFailed
  BY <1>6, <1>7, Zenon
<1> QED
  BY <1>2, <1>3, <1>4, <1>8, <1>9 DEF left

LEMMA StoreInsert ==
  ASSUME OneWorker, TypeInv, StoreInv, NEW w \in Worker, NEW b \in Backend, InsertBackend(w, b)
  PROVE  StoreInv'
<1> DEFINE m == worker[w].msg
           d == m.document
<1>1. (\A v \in Worker : v = w) /\ m \in Message /\ d \in Document /\ worker[w].pc = "insert"
  BY Operand DEF OneWorker, InsertBackend, At
<1>2. PICK failed \in BOOLEAN :
        /\ BackendDone(w, b, failed, "publish")
        /\ failed => ~Orderly'
        /\ \E k \in 0..worker[w].count :
             /\ chunks' = [chunks EXCEPT ![d][b] = @ \cup 1..k]
             /\ ~failed => k = worker[w].count
  <2>1. worker[w].count \in 0..worker[w].count
    BY PipelineAssumption DEF TypeInv, TypeOK, WorkersOK
  <2>2. Fault => ~Orderly'
    BY DEF Fault, Orderly, TypeInv, TypeOK, BoundsOK
  <2> QED
    BY <2>1, <2>2 DEF InsertBackend
<1>3. PICK k \in 0..worker[w].count :
        chunks' = [chunks EXCEPT ![d][b] = @ \cup 1..k] /\ (~failed => k = worker[w].count)
  BY <1>2
<1>4. /\ worker'[w].msg = m /\ worker'[w].count = worker[w].count
      /\ worker'[w].todo = worker[w].todo \ {b} /\ worker'[w].pc \in {"insert", "publish", "record"}
      /\ ~worker'[w].failed <=> ~worker[w].failed /\ ~failed
      /\ worker'[w].pc = "record" => worker[w].failed \/ failed
      /\ worker'[w].pc = "publish" => worker[w].todo \subseteq {b} /\ ~worker[w].failed /\ ~failed
  BY <1>1, <1>2, BackendLeft
<1>5. UNCHANGED <<doc, original, parsed, crashes>> /\ (faults' = 0 => faults = 0)
  <2>1. UNCHANGED <<doc, original, parsed, crashes>> /\ (Fault \/ NoFault)
    BY DEF InsertBackend, tables
  <2> QED
    BY <2>1, PipelineAssumption DEF Fault, NoFault, TypeInv, TypeOK, BoundsOK
<1>6. /\ \A e \in Document, c \in Backend : chunks[e][c] \subseteq chunks'[e][c]
      /\ ~failed => 1..worker[w].count \subseteq chunks'[d][b]
      /\ \A e \in Document : e # d => chunks'[e] = chunks[e]
  BY <1>1, <1>3 DEF TypeInv, TypeOK, StoresOK
<1>7. OperandExists'
  BY <1>1, <1>4, <1>5 DEF StoreInv, OperandExists, Operates, Exists
<1>8. IndexedInv'
  <2>1. InsertsDone'
    <3>1. ASSUME NEW c \in ModeBackends[m.mode] \ worker'[w].todo, ~worker[w].failed, ~failed
          PROVE  1..worker[w].count \subseteq chunks'[d][c]
      <4>1. CASE c = b
        BY <1>6, <3>1, <4>1
      <4>2. CASE c # b
        <5>1. c \in Backend
          BY <1>1, ModesType DEF Message
        <5>2. 1..worker[w].count \subseteq chunks[d][c]
          BY <1>1, <1>4, <3>1, <4>2 DEF StoreInv, IndexedInv, InsertsDone, At
        <5> QED
          BY <1>1, <1>6, <5>1, <5>2
      <4> QED
        BY <4>1, <4>2
    <3>2. ASSUME worker'[w].pc = "publish", NEW c \in ModeBackends[m.mode]
          PROVE  c \notin worker'[w].todo
      BY <1>4, <3>2
    <3> QED
      BY <1>1, <1>4, <3>1, <3>2 DEF InsertsDone, At
  <2>2. ClearsUnready'
    BY <1>1, <1>4 DEF ClearsUnready, At
  <2>3. ReadyIsIndexed'
    <3>1. \A e \in Document : doc[e].backends \subseteq Backend
      BY DEF TypeInv, TypeOK, TablesOK
    <3> QED
      BY <1>5, <1>6, <3>1 DEF StoreInv, IndexedInv, ReadyIsIndexed
  <2> QED
    BY <2>1, <2>2, <2>3 DEF IndexedInv
<1>9. FilesInv' /\ RowsBare'
  BY <1>1, <1>4, <1>5 DEF StoreInv, FilesInv, RowsBare, Recorded, At
<1>10. OrderlyInv'
  <2> SUFFICES ASSUME Orderly' PROVE ChunksRecorded' /\ ClearsDone' /\ NoneFailed'
    BY DEF OrderlyInv, Orderly
  <2>1. ~failed /\ ChunksRecorded /\ ~worker[w].failed
    BY <1>2, <1>5 DEF StoreInv, OrderlyInv, Orderly, NoneFailed
  <2>2. worker'[w].pc \in {"insert", "publish"} /\ ~worker'[w].failed
    BY <1>4, <2>1
  <2>3. ChunksRecorded'
    BY <1>1, <1>4, <1>5, <1>6, <2>1, <2>2 DEF ChunksRecorded, Empty, Recorded
  <2> QED
    BY <1>1, <2>2, <2>3 DEF ClearsDone, NoneFailed, At
<1> QED
  BY <1>7, <1>8, <1>9, <1>10 DEF StoreInv

LEMMA StoreClear ==
  ASSUME OneWorker, TypeInv, StoreInv, NEW w \in Worker, NEW b \in Backend, ClearBackend(w, b)
  PROVE  StoreInv'
<1> DEFINE m == worker[w].msg
           d == m.document
<1>1. (\A v \in Worker : v = w) /\ m \in Message /\ d \in Document /\ worker[w].pc = "clear"
  BY Operand DEF OneWorker, ClearBackend, At
<1>2. PICK failed \in BOOLEAN :
        /\ BackendDone(w, b, failed, "unlink")
        /\ failed => ~Orderly'
        /\ chunks' = [chunks EXCEPT ![d][b] = {}] \/ (failed /\ UNCHANGED chunks)
  <2>1. Fault => ~Orderly'
    BY DEF Fault, Orderly, TypeInv, TypeOK, BoundsOK
  <2> QED
    BY <2>1 DEF ClearBackend
<1>3. /\ worker'[w].msg = m /\ worker'[w].count = worker[w].count
      /\ worker'[w].todo = worker[w].todo \ {b} /\ worker'[w].pc \in {"clear", "unlink", "record"}
      /\ ~worker'[w].failed <=> ~worker[w].failed /\ ~failed
      /\ worker'[w].pc = "record" => worker[w].failed \/ failed
      /\ worker'[w].pc = "unlink" => worker[w].todo \subseteq {b} /\ ~worker[w].failed /\ ~failed
  BY <1>1, <1>2, BackendLeft
<1>4. UNCHANGED <<doc, original, parsed, crashes>> /\ (faults' = 0 => faults = 0)
  <2>1. UNCHANGED <<doc, original, parsed, crashes>> /\ (Fault \/ NoFault)
    BY DEF ClearBackend, tables
  <2> QED
    BY <2>1, PipelineAssumption DEF Fault, NoFault, TypeInv, TypeOK, BoundsOK
<1>5. /\ \A e \in Document, c \in Backend : chunks'[e][c] \subseteq chunks[e][c]
      /\ ~failed => chunks'[d][b] = {}
      /\ \A e \in Document : e # d => chunks'[e] = chunks[e]
  BY <1>1, <1>2 DEF TypeInv, TypeOK, StoresOK
<1>6. OperandExists'
  BY <1>1, <1>3, <1>4 DEF StoreInv, OperandExists, Operates, Exists
<1>7. IndexedInv'
  <2>1. InsertsDone' /\ ClearsUnready'
    BY <1>1, <1>3, <1>4 DEF StoreInv, IndexedInv, InsertsDone, ClearsUnready, At
  <2>2. ReadyIsIndexed'
    <3>1. doc[d].status # "ready"
      BY <1>1 DEF StoreInv, IndexedInv, ClearsUnready, At
    <3> QED
      BY <1>4, <1>5, <3>1 DEF StoreInv, IndexedInv, ReadyIsIndexed
  <2> QED
    BY <2>1, <2>2 DEF IndexedInv
<1>8. FilesInv' /\ RowsBare'
  BY <1>1, <1>3, <1>4 DEF StoreInv, FilesInv, RowsBare, Recorded, At
<1>9. OrderlyInv'
  <2> SUFFICES ASSUME Orderly' PROVE ChunksRecorded' /\ ClearsDone' /\ NoneFailed'
    BY DEF OrderlyInv, Orderly
  <2>1. ~failed /\ ChunksRecorded /\ ClearsDone /\ ~worker[w].failed
    BY <1>2, <1>4 DEF StoreInv, OrderlyInv, Orderly, NoneFailed
  <2>2. worker'[w].pc \in {"clear", "unlink"} /\ ~worker'[w].failed
    BY <1>3, <2>1
  <2>3. ChunksRecorded'
    BY <1>1, <1>4, <1>5, <2>1 DEF ChunksRecorded, Empty, Recorded
  <2>4. \A c \in Backend \ worker'[w].todo : chunks'[d][c] = {}
    <3>1. \A c \in Backend \ worker[w].todo : chunks[d][c] = {}
      BY <1>1, <2>1 DEF ClearsDone, At
    <3> QED
      BY <1>1, <1>3, <1>5, <2>1, <3>1
  <2>5. worker'[w].pc = "unlink" => Empty(d)'
    BY <1>3, <2>4 DEF Empty
  <2>6. worker'[w].pc = "unlink" => \A c \in Backend : chunks'[d][c] = {}
    BY <1>3, <2>4
  <2>7. ClearsDone'
    BY <1>1, <1>3, <2>2, <2>4, <2>6 DEF ClearsDone, At, Empty
  <2> QED
    BY <1>1, <2>2, <2>3, <2>7 DEF NoneFailed
<1> QED
  BY <1>6, <1>7, <1>8, <1>9 DEF StoreInv

(* The begin of an operation, as far as the stores go.                     *)
LEMMA StoreBegin ==
  ASSUME OneWorker, TypeInv, StoreInv, NEW w \in Worker, BeginJob(w)
  PROVE  StoreInv'
<1> DEFINE m == worker[w].msg
           d == m.document
           row == doc[d]
           r == [worker[w] EXCEPT !.pc = "marking", !.indexed = row.count > 0 \/ row.backends # {}]
<1>1. (\A v \in Worker : v = w) /\ d \in Document /\ worker[w].pc = "received" /\ Exists(d)
  BY Operand DEF OneWorker, BeginJob, At
<1>2. worker[w] \in WorkerRecord /\ w \in DOMAIN worker
  BY DEF TypeInv, TypeOK, WorkersOK, WorkerRecord
<1>3. /\ r.pc = "marking" /\ r.msg = m /\ r.failed = worker[w].failed
      /\ r.indexed = (row.count > 0 \/ row.backends # {})
  BY <1>2 DEF WorkerRecord
<1>4. worker' = [worker EXCEPT ![w] = r]
  BY DEF BeginJob
<1> HIDE DEF r
<1>5. worker'[w] = r
  BY <1>2, <1>4
<1>6. /\ worker'[w].pc = "marking" /\ worker'[w].msg = m
      /\ ~worker[w].failed => ~worker'[w].failed
      /\ Recorded(d) => worker'[w].indexed
  BY <1>3, <1>5, Zenon DEF Recorded
<1>7. UNCHANGED <<doc, chunks, original, parsed, faults, crashes>>
  BY DEF BeginJob, stores, bounds
<1>8. OperandExists' /\ InsertsDone' /\ ClearsUnready'
  BY <1>1, <1>6, <1>7 DEF OperandExists, InsertsDone, ClearsUnready, At, Exists
<1>9. ReadyIsIndexed' /\ FilesInv' /\ RowsBare'
  BY <1>1, <1>6, <1>7 DEF StoreInv, IndexedInv, ReadyIsIndexed, FilesInv, RowsBare, Recorded, At
<1>10. OrderlyInv'
  <2> SUFFICES ASSUME Orderly PROVE ChunksRecorded' /\ ClearsDone' /\ NoneFailed'
    BY <1>7 DEF OrderlyInv, Orderly
  <2>1. ChunksRecorded'
    BY <1>1, <1>7 DEF StoreInv, OrderlyInv, Orderly, ChunksRecorded, Empty, Recorded
  <2>2. NoneFailed'
    BY <1>1, <1>6 DEF StoreInv, OrderlyInv, Orderly, NoneFailed
  <2>3. ClearsDone'
    <3>1. Recorded(d)' => worker'[w].indexed
      BY <1>6, <1>7 DEF Recorded
    <3>2. worker'[w].pc = "marking" /\ worker'[w].msg.document = d
      BY <1>6
    <3>3. \A v \in Worker : (Recorded(worker[v].msg.document)' => worker'[v].indexed)
      BY <1>1, <3>1, <3>2 DEF Recorded
    <3> QED
      BY <1>1, <3>2, <3>3 DEF ClearsDone, At
  <2> QED
    BY <2>1, <2>2, <2>3
<1> QED
  BY <1>8, <1>9, <1>10 DEF StoreInv, IndexedInv

LEMMA StoreMark ==
  ASSUME OneWorker, TypeInv, PlanInv, StoreInv, NEW w \in Worker, MarkProcessing(w)
  PROVE  StoreInv'
<1> DEFINE m == worker[w].msg
           d == m.document
           todo == IF m.operation = "delete" THEN ModeBackends[m.mode] ELSE {}
           next == IF m.operation = "ingest" THEN "parse"
                   ELSE IF worker[w].indexed THEN "clear" ELSE "unlink"
           r == [worker[w] EXCEPT !.todo = todo, !.pc = next]
           s == IF m.operation = "delete" THEN "deleting" ELSE "processing"
<1>1. /\ \A v \in Worker : v = w
      /\ m \in Message /\ m.operation \in {"ingest", "delete"} /\ d \in Document
      /\ worker[w].pc = "marking" /\ Exists(d)
  BY Operand DEF OneWorker, MarkProcessing, At, Message, StoreInv, OperandExists, Operates
<1>2. worker[w] \in WorkerRecord /\ w \in DOMAIN worker
  BY DEF TypeInv, TypeOK, WorkersOK, WorkerRecord
<1>3. worker' = [worker EXCEPT ![w] = r] /\ UpdateDocument(d, [doc[d] EXCEPT !.status = s])
  BY DEF MarkProcessing
<1>4. /\ next \in {"parse", "clear", "unlink"}
      /\ next = "parse" \/ m.operation = "delete"
      /\ next = "unlink" => ~worker[w].indexed
      /\ next = "clear" => todo = Backend
  <2>1. m.operation = "delete" => m.mode = "mg"
    BY <1>1 DEF PlanInv, WorkersPlanned, ClearsAll, At
  <2>2. m.operation = "delete" => todo = Backend
    BY <2>1 DEF ModeBackends
  <2>3. next = "clear" => m.operation = "delete"
    BY <1>1
  <2> HIDE DEF todo
  <2> QED
    BY <1>1, <2>2, <2>3
<1> HIDE DEF next, todo
<1>5. r.pc = next /\ r.msg = m /\ r.failed = worker[w].failed /\ r.todo = todo
  BY <1>2 DEF WorkerRecord
<1> HIDE DEF r
<1>6. worker'[w] = r
  BY <1>2, <1>3
<1>7. /\ worker'[w].pc = next /\ worker'[w].msg = m /\ worker'[w].todo = todo
      /\ worker'[w].failed = worker[w].failed
  BY <1>5, <1>6
<1>8. UNCHANGED <<chunks, original, parsed, faults, crashes>>
  BY DEF MarkProcessing, stores, bounds
<1>9. (\A e \in Document : StatusMoves(e)) /\ doc'[d].status = s /\ s \notin {"ready", "gone"}
  BY <1>1, <1>3, StatusUpdated DEF DocumentStatus
<1>10. \A e \in Document :
         /\ doc'[e].count = doc[e].count /\ doc'[e].backends = doc[e].backends
         /\ (Recorded(e)' <=> Recorded(e)) /\ (Exists(e)' <=> Exists(e))
         /\ doc'[e].status \in {"ready", "gone"} => doc'[e] = doc[e]
  BY <1>9, StatusMoved
<1>11. OperandExists' /\ InsertsDone' /\ ClearsUnready'
  BY <1>1, <1>4, <1>7, <1>9, <1>10 DEF OperandExists, InsertsDone, ClearsUnready, At, Exists
<1>12. ReadyIsIndexed' /\ FilesInv' /\ RowsBare'
  BY <1>1, <1>4, <1>7, <1>8, <1>10
     DEF StoreInv, IndexedInv, ReadyIsIndexed, FilesInv, RowsBare, Recorded, At
<1>13. OrderlyInv'
  <2> SUFFICES ASSUME Orderly PROVE ChunksRecorded' /\ ClearsDone' /\ NoneFailed'
    BY <1>8 DEF OrderlyInv, Orderly
  <2>1. ChunksRecorded /\ ClearsDone /\ NoneFailed
    BY DEF StoreInv, OrderlyInv, Orderly
  <2>2. NoneFailed'
    BY <1>1, <1>7, <2>1 DEF NoneFailed
  <2>3. \A e \in Document : Empty(e) \/ Recorded(e)
    BY <1>1, <2>1 DEF ChunksRecorded
  <2>4. ChunksRecorded'
    BY <1>8, <1>10, <2>3 DEF ChunksRecorded, Empty
  <2>5. next = "unlink" => Empty(d)
    BY <1>1, <1>4, <2>1, <2>3 DEF ClearsDone, At
  <2>6. ClearsDone'
    BY <1>1, <1>4, <1>7, <1>8, <2>5 DEF ClearsDone, At, Empty
  <2> QED
    BY <2>2, <2>4, <2>6
<1> QED
  BY <1>11, <1>12, <1>13 DEF StoreInv, IndexedInv

LEMMA StoreParse ==
  ASSUME OneWorker, TypeInv, StoreInv, NEW w \in Worker, Parse(w)
  PROVE  StoreInv'
<1> DEFINE m == worker[w].msg
<1>1. (\A v \in Worker : v = w) /\ m.document \in Document /\ worker[w].pc = "parse" /\ m.document \in original
  BY Operand DEF OneWorker, Parse, At
<1>2. PICK n \in 1..MaxChunks : worker' = [worker EXCEPT ![w] =
        [@ EXCEPT !.pc = "insert", !.count = n, !.todo = ModeBackends[m.mode]]]
  BY DEF Parse
<1> DEFINE todo == ModeBackends[m.mode]
           r == [worker[w] EXCEPT !.pc = "insert", !.count = n, !.todo = todo]
<1>3. worker[w] \in WorkerRecord /\ w \in DOMAIN worker /\ worker' = [worker EXCEPT ![w] = r]
  BY <1>2 DEF TypeInv, TypeOK, WorkersOK, WorkerRecord
<1> HIDE DEF todo
<1>4. r.pc = "insert" /\ r.msg = m /\ r.failed = worker[w].failed /\ r.todo = todo
  BY <1>3 DEF WorkerRecord
<1> HIDE DEF r
<1>5. /\ worker'[w].pc = "insert" /\ worker'[w].msg = m /\ worker'[w].failed = worker[w].failed
      /\ worker'[w].todo = todo
  BY <1>3, <1>4
<1>6. UNCHANGED <<doc, chunks, original, faults, crashes>> /\ parsed' = parsed \cup {m.document}
  BY DEF Parse, tables, bounds
<1>7. OperandExists'
  BY <1>1, <1>5, <1>6 DEF StoreInv, OperandExists, Operates, Exists
<1>8. InsertsDone' /\ ClearsUnready' /\ ReadyIsIndexed'
  BY <1>1, <1>5, <1>6 DEF StoreInv, IndexedInv, InsertsDone, ClearsUnready, ReadyIsIndexed, At, todo
<1>9. FilesInv' /\ RowsBare'
  BY <1>1, <1>5, <1>6 DEF StoreInv, FilesInv, RowsBare, Recorded, At
<1>10. OrderlyInv'
  BY <1>1, <1>5, <1>6
     DEF StoreInv, OrderlyInv, ChunksRecorded, ClearsDone, NoneFailed, Empty, Recorded, At
<1> QED
  BY <1>7, <1>8, <1>9, <1>10 DEF StoreInv, IndexedInv

LEMMA StorePublish ==
  ASSUME OneWorker, TypeInv, PlanInv, WorkersCounted, StoreInv, NEW w \in Worker, Publish(w)
  PROVE  StoreInv'
<1> DEFINE m == worker[w].msg
           d == m.document
           named == ModeBackends[m.mode]
           row == [status |-> "ready", backends |-> named, count |-> worker[w].count]
<1>1. /\ \A v \in Worker : v = w
      /\ m \in Message /\ d \in Document /\ worker[w].pc = "publish" /\ Exists(d)
      /\ m.operation = "ingest" /\ worker[w].count > 0
  BY Operand
     DEF OneWorker, Publish, At, StoreInv, OperandExists, Operates, PlanInv, WorkersPlanned, WorkersCounted
<1>2. \A b \in named : 1..worker[w].count \subseteq chunks[d][b]
  BY <1>1 DEF StoreInv, IndexedInv, InsertsDone, At
<1> HIDE DEF named
<1>3. row.status = "ready" /\ row.backends = named /\ row.count = worker[w].count
  OBVIOUS
<1>4. doc' = [doc EXCEPT ![d] = row]
  BY <1>1 DEF Publish, UpdateDocument, named
<1> HIDE DEF row
<1>5. doc'[d] = row /\ \A e \in Document : e # d => doc'[e] = doc[e]
  BY <1>1, <1>4 DEF TypeInv, TypeOK, TablesOK
<1>6. worker'[w].pc = "finish" /\ worker'[w].msg = m /\ worker'[w].failed = worker[w].failed
  BY DEF Publish, Goto, TypeInv, TypeOK, WorkersOK
<1>7. UNCHANGED <<chunks, original, parsed, faults, crashes>>
  BY DEF Publish, stores, bounds
<1>8. OperandExists' /\ InsertsDone' /\ ClearsUnready'
  BY <1>1, <1>3, <1>5, <1>6 DEF OperandExists, InsertsDone, ClearsUnready, At, Exists
<1>9. ReadyIsIndexed'
  <2>1. \A b \in doc'[d].backends : 1..doc'[d].count \subseteq chunks[d][b]
    BY <1>2, <1>3, <1>5
  <2> QED
    BY <1>5, <1>7, <2>1 DEF StoreInv, IndexedInv, ReadyIsIndexed
<1>10. FilesInv' /\ RowsBare'
  BY <1>1, <1>3, <1>5, <1>6, <1>7 DEF StoreInv, FilesInv, RowsBare, Recorded, At
<1>11. OrderlyInv'
  <2> SUFFICES ASSUME Orderly PROVE ChunksRecorded' /\ ClearsDone' /\ NoneFailed'
    BY <1>7 DEF OrderlyInv, Orderly
  <2>1. ChunksRecorded /\ NoneFailed
    BY DEF StoreInv, OrderlyInv, Orderly
  <2>2. doc'[d].count > 0
    BY <1>1, <1>3, <1>5
  <2>3. ChunksRecorded'
    BY <1>1, <1>5, <1>7, <2>1, <2>2 DEF ChunksRecorded, Empty, Recorded
  <2>4. ClearsDone' /\ NoneFailed'
    BY <1>1, <1>6, <2>1 DEF ClearsDone, NoneFailed, At
  <2> QED
    BY <2>3, <2>4
<1> QED
  BY <1>8, <1>9, <1>10, <1>11 DEF StoreInv, IndexedInv

LEMMA StoreUnlink ==
  ASSUME OneWorker, TypeInv, StoreInv, NEW w \in Worker, Unlink(w), Goto(w, "finish")
  PROVE  StoreInv'
<1> DEFINE m == worker[w].msg
           d == m.document
<1>1. (\A v \in Worker : v = w) /\ d \in Document /\ worker[w].pc = "unlink"
  BY Operand DEF OneWorker, Unlink, At
<1>2. worker'[w].pc = "finish" /\ worker'[w].msg = m /\ worker'[w].failed = worker[w].failed
  BY DEF Goto, TypeInv, TypeOK, WorkersOK
<1>3. /\ UNCHANGED <<doc, chunks, faults, crashes>>
      /\ parsed' = parsed \ {d} /\ original' = original \ {d}
  <2>1. ~Goto(w, "record")
    <3>1. Goto(w, "record") => worker'[w].pc = "record"
      BY DEF Goto, TypeInv, TypeOK, WorkersOK
    <3> QED
      BY <1>2, <3>1
  <2> QED
    BY <2>1 DEF Unlink, tables, NoFault
<1>4. OperandExists' /\ InsertsDone' /\ ClearsUnready' /\ ReadyIsIndexed'
  BY <1>1, <1>2, <1>3
     DEF StoreInv, IndexedInv, OperandExists, Operates, InsertsDone, ClearsUnready, ReadyIsIndexed,
         Exists, At
<1>5. FilesInv' /\ RowsBare'
  BY <1>1, <1>2, <1>3 DEF StoreInv, FilesInv, RowsBare, Recorded, At
<1>6. OrderlyInv'
  BY <1>1, <1>2, <1>3
     DEF StoreInv, OrderlyInv, ChunksRecorded, ClearsDone, NoneFailed, Empty, Recorded, At
<1> QED
  BY <1>4, <1>5, <1>6 DEF StoreInv, IndexedInv

LEMMA StoreFinish ==
  ASSUME OneWorker, TypeInv, StoreInv, NEW w \in Worker, Finish(w)
  PROVE  StoreInv'
<1> DEFINE m == worker[w].msg
           d == m.document
<1>1. (\A v \in Worker : v = w) /\ d \in Document /\ worker[w].pc = "finish"
  BY Operand DEF OneWorker, Finish, At
<1>2. worker'[w].pc = "ack" /\ worker'[w].msg = m /\ worker'[w].failed = worker[w].failed
  BY DEF Finish, Goto, TypeInv, TypeOK, WorkersOK
<1>3. UNCHANGED <<chunks, original, parsed, faults, crashes>>
  BY DEF Finish, stores, bounds
<1>4. CASE m.operation # "delete"
  <2>1. UNCHANGED doc /\ ~Operates(w)'
    BY <1>2, <1>4 DEF Finish, Operates
  <2>2. Orderly' => Orderly /\ ~worker'[w].failed
    BY <1>2, <1>3 DEF Orderly, StoreInv, OrderlyInv, NoneFailed
  <2> QED
    BY <1>1, <1>3, <2>1, <2>2, StoreQuiet DEF StatusMoves, StoreInv, FilesInv
<1>5. CASE m.operation = "delete"
  <2> DEFINE row == [status |-> "gone", backends |-> {}, count |-> 0]
  <2>1. row.status = "gone" /\ row.backends = {} /\ row.count = 0
    OBVIOUS
  <2>2. doc' = [doc EXCEPT ![d] = row]
    BY <1>5 DEF Finish
  <2> HIDE DEF row
  <2>3. doc'[d] = row /\ \A e \in Document : e # d => doc'[e] = doc[e]
    BY <1>1, <2>2 DEF TypeInv, TypeOK, TablesOK
  <2>4. d \notin original
    BY <1>1, <1>5 DEF StoreInv, FilesInv, At
  <2>5. OperandExists' /\ InsertsDone' /\ ClearsUnready'
    BY <1>1, <1>2 DEF OperandExists, Operates, InsertsDone, ClearsUnready, At
  <2>6. ReadyIsIndexed'
    BY <1>3, <2>1, <2>3 DEF StoreInv, IndexedInv, ReadyIsIndexed
  <2>7. FilesInv' /\ RowsBare'
    BY <1>1, <1>2, <1>3, <2>1, <2>3, <2>4 DEF StoreInv, FilesInv, RowsBare, Recorded, At
  <2>8. OrderlyInv'
    <3> SUFFICES ASSUME Orderly PROVE ChunksRecorded' /\ ClearsDone' /\ NoneFailed'
      BY <1>3 DEF OrderlyInv, Orderly
    <3>1. ChunksRecorded /\ ClearsDone /\ NoneFailed
      BY DEF StoreInv, OrderlyInv, Orderly
    <3>2. Empty(d)
      BY <1>1, <1>5, <3>1 DEF ClearsDone, At
    <3>3. ChunksRecorded'
      BY <1>1, <1>3, <2>3, <3>1, <3>2 DEF ChunksRecorded, Empty, Recorded
    <3> QED
      BY <1>1, <1>2, <3>1, <3>3 DEF ClearsDone, NoneFailed, At
  <2> QED
    BY <2>5, <2>6, <2>7, <2>8 DEF StoreInv, IndexedInv
<1> QED
  BY <1>4, <1>5

LEMMA StoreWorker ==
  ASSUME OneWorker, TypeInv, PlanInv, WorkersCounted, StoreInv,
         NEW w \in Worker, WorkerRuns(w) \/ WorkerCrash(w)
  PROVE  StoreInv'
<1> DEFINE m == worker[w].msg
<1>1. Fault => ~Orderly'
  BY DEF Fault, Orderly, TypeInv, TypeOK, BoundsOK
<1>2. ASSUME NEW next \in {"ack", "record", "reflect", "resend", "report"}, Goto(w, next)
      PROVE  ~Operates(w)' /\ (~worker[w].failed => ~worker'[w].failed)
  BY <1>2 DEF Goto, Operates, TypeInv, TypeOK, WorkersOK
<1>3. Orderly => ~worker[w].failed
  BY DEF Orderly, StoreInv, OrderlyInv, NoneFailed
<1>4. ASSUME UNCHANGED doc PROVE \A d \in Document : StatusMoves(d)
  BY <1>4 DEF StatusMoves
<1>5. parsed \subseteq original
  BY DEF StoreInv, FilesInv
<1>6. CASE \/ SkipJob(w) \/ MissingJob(w) \/ MissingAtFinish(w) \/ RecordFailure(w) \/ Resend(w)
           \/ ReportFailure(w)
  <2>1. UNCHANGED <<doc, chunks, original, parsed, faults, crashes>> /\ worker[w].pc \notin {"insert", "publish"}
    BY <1>6 DEF SkipJob, MissingJob, MissingAtFinish, RecordFailure, Resend, ReportFailure, tables, stores,
                bounds, At
  <2>2. \E next \in {"ack", "record", "reflect", "resend", "report"} : Goto(w, next)
    BY <1>6 DEF SkipJob, MissingJob, MissingAtFinish, RecordFailure, Resend, ReportFailure
  <2>3. Orderly' => Orderly
    BY <2>1 DEF Orderly
  <2> QED
    BY <1>2, <1>3, <1>4, <1>5, <2>1, <2>2, <2>3, StoreQuiet
<1>7. CASE DatabaseRaises(w) \/ ResendTwice(w)
  <2>1. UNCHANGED <<doc, chunks, original, parsed>> /\ Fault
    BY <1>7 DEF DatabaseRaises, ResendTwice, tables, stores
  <2>2. \E next \in {"ack", "record", "reflect", "resend", "report"} : Goto(w, next)
    BY <1>7 DEF DatabaseRaises, ResendTwice
  <2> QED
    BY <1>1, <1>2, <1>4, <1>5, <2>1, <2>2, StoreQuiet
<1>8. CASE ReflectFailure(w)
  <2>1. m.document \in Document
    BY <1>8, Operand DEF ReflectFailure, At
  <2>2. PICK s \in DocumentStatus \ {"ready", "gone"} :
          UpdateDocument(m.document, [doc[m.document] EXCEPT !.status = s])
    BY <1>8 DEF ReflectFailure, DocumentStatus
  <2>3. \A e \in Document : StatusMoves(e)
    BY <2>1, <2>2, StatusUpdated
  <2>4. UNCHANGED <<chunks, original, parsed, faults, crashes>> /\ Goto(w, "resend") /\ At(w, "reflect")
    BY <1>8 DEF ReflectFailure, stores, bounds
  <2>5. (Orderly' => Orderly) /\ worker[w].pc \notin {"insert", "publish"}
    BY <2>4 DEF Orderly, At
  <2>6. ~Operates(w)' /\ (~worker[w].failed => ~worker'[w].failed)
    BY <1>2, <2>4
  <2> QED
    BY <1>3, <1>5, <2>3, <2>4, <2>5, <2>6, StoreQuiet
<1>9. CASE Acknowledge(w) \/ Receive(w) \/ WorkerCrash(w)
  <2>1. /\ UNCHANGED <<doc, chunks, original, parsed, faults>>
        /\ Acknowledge(w) \/ Receive(w) => UNCHANGED crashes /\ worker[w].pc \notin {"insert", "publish"}
    BY <1>9 DEF Acknowledge, Receive, WorkerCrash, tables, stores, bounds, At
  <2>2. WorkerCrash(w) => ~Orderly'
    BY DEF WorkerCrash, Orderly, TypeInv, TypeOK, BoundsOK
  <2>3. \E pc \in {"received", "idle"} : \E n : worker'[w] = Starting(pc, n)
    BY <1>9 DEF Acknowledge, Receive, WorkerCrash, IdleWorker, TypeInv, TypeOK, WorkersOK
  <2>4. worker'[w].pc \in {"received", "idle"} /\ worker'[w].failed = FALSE
    BY <2>3 DEF Starting
  <2>5. ~Operates(w)' /\ ~worker'[w].failed
    BY <2>4 DEF Operates
  <2>6. Orderly' => Orderly /\ worker[w].pc \notin {"insert", "publish"}
    BY <1>9, <2>1, <2>2 DEF Orderly
  <2> QED
    BY <1>4, <1>5, <2>1, <2>5, <2>6, StoreQuiet
<1>10. CASE ParseRaises(w)
  <2>1. /\ UNCHANGED <<doc, chunks, original, crashes>> /\ Goto(w, "record") /\ (Fault \/ NoFault)
        /\ parsed' \subseteq original /\ worker[w].pc = "parse"
    BY <1>5, <1>10 DEF ParseRaises, tables, At
  <2>2. Orderly' => Orderly
    BY <1>1, <2>1 DEF Orderly, NoFault
  <2>3. ~Operates(w)' /\ (~worker[w].failed => ~worker'[w].failed)
    BY <1>2, <2>1
  <2> QED
    BY <1>3, <1>4, <2>1, <2>2, <2>3, StoreQuiet
<1>11. CASE Unlink(w)
  <2>1. CASE Goto(w, "finish")
    BY <1>11, <2>1, StoreUnlink
  <2>2. CASE ~Goto(w, "finish")
    <3>1. UNCHANGED <<doc, chunks, original, crashes>> /\ Goto(w, "record") /\ Fault /\ parsed' \subseteq original
      BY <1>5, <1>11, <2>2 DEF Unlink, tables
    <3>2. ~Operates(w)'
      BY <1>2, <3>1
    <3> QED
      BY <1>1, <1>4, <3>1, <3>2, StoreQuiet
  <2> QED
    BY <2>1, <2>2
<1> QED
  BY <1>6, <1>7, <1>8, <1>9, <1>10, <1>11, StoreBegin, StoreMark, StoreParse, StoreInsert, StoreClear,
     StorePublish, StoreFinish
     DEF WorkerRuns, ProcessMessage, Operation

\* What holds with one worker.
OneWorkerInv == TypeInv /\ PlanInv /\ WorkersCounted /\ StoreInv

LEMMA OneWorkerNext == OneWorker /\ OneWorkerInv /\ [Next]_vars => OneWorkerInv'
<1> SUFFICES ASSUME OneWorker, OneWorkerInv, [Next]_vars PROVE OneWorkerInv'
  OBVIOUS
<1>1. TypeInv' /\ PlanInv'
  BY NextType, PlanNext DEF OneWorkerInv
<1>2. CASE Next
  <2>1. ASSUME NEW h \in Handler, HandlerStart(h) \/ HandlerRuns(h) \/ HandlerCrash(h)
        PROVE  WorkersCounted' /\ StoreInv'
    BY <2>1, HandlerStores, StoreHandler DEF OneWorkerInv, WorkersCounted
  <2>2. ASSUME NEW w \in Worker, WorkerRuns(w) \/ WorkerCrash(w) PROVE WorkersCounted' /\ StoreInv'
    BY <2>2, CountsKept, StoreWorker DEF OneWorkerInv
  <2> QED
    BY <1>1, <1>2, <2>1, <2>2 DEF Next, OneWorkerInv
<1>3. CASE UNCHANGED vars
  <2>1. UNCHANGED <<doc, chunks, original, parsed, worker, faults, crashes>>
    BY <1>3 DEF vars, tables, stores, bounds
  <2>2. WorkersCounted' /\ OperandExists' /\ IndexedInv'
    BY <2>1 DEF OneWorkerInv, WorkersCounted, StoreInv, OperandExists, Operates, Exists, IndexedInv,
                InsertsDone, ClearsUnready, ReadyIsIndexed, At
  <2>3. FilesInv' /\ RowsBare' /\ OrderlyInv'
    BY <2>1 DEF OneWorkerInv, StoreInv, FilesInv, RowsBare, OrderlyInv, ChunksRecorded, ClearsDone,
                NoneFailed, Empty, Recorded, At
  <2> QED
    BY <1>1, <2>2, <2>3 DEF OneWorkerInv, StoreInv
<1> QED
  BY <1>2, <1>3

LEMMA OneWorkerInit == Init => OneWorkerInv
<1> SUFFICES ASSUME Init PROVE OneWorkerInv
  OBVIOUS
<1>1. \A w \in Worker : worker[w].pc = "idle" /\ worker[w].failed = FALSE
  BY DEF Init, IdleWorker, Starting
<1>2. WorkersCounted /\ OperandExists /\ IndexedInv
  BY <1>1 DEF Init, WorkersCounted, OperandExists, Operates, IndexedInv, InsertsDone, ClearsUnready,
              ReadyIsIndexed, At
<1>3. FilesInv /\ RowsBare /\ OrderlyInv
  BY <1>1 DEF Init, FilesInv, RowsBare, OrderlyInv, ChunksRecorded, ClearsDone, NoneFailed, Empty, At
<1> QED
  BY <1>2, <1>3, InitType, PlanInit DEF OneWorkerInv, StoreInv

(* With one worker a ready document is indexed: every backend its row      *)
(* names holds the number of chunks the row counts, whatever failed, died  *)
(* or was sent twice, and whatever requests of other modes overlap.        *)
THEOREM ReadyIndexed == ASSUME OneWorker PROVE Spec => []ReadyIsIndexed
<1>1. OneWorker
  OBVIOUS
<1>2. OneWorkerInv => ReadyIsIndexed
  BY DEF OneWorkerInv, StoreInv, IndexedInv
<1> QED
  BY <1>1, <1>2, OneWorkerInit, OneWorkerNext, PTL DEF Spec

(* With one worker no file of a document outlives its row.                 *)
THEOREM NoFileOutlives == ASSUME OneWorker PROVE Spec => []RemovedHasNoFile
<1>1. OneWorker
  OBVIOUS
<1>2. OneWorkerInv => RemovedHasNoFile
  BY DEF OneWorkerInv, StoreInv, FilesInv, RemovedHasNoFile
<1> QED
  BY <1>1, <1>2, OneWorkerInit, OneWorkerNext, PTL DEF Spec

(* With one worker, and until something fails or dies, a removed document  *)
(* is in no backend: a deletion that skips the backends because the row    *)
(* recorded nothing, or clears them, was right to, whatever came before.   *)
THEOREM OrderlyRemovalComplete == ASSUME OneWorker PROVE Spec => []OrderlyRemovalIsComplete
<1>1. OneWorker
  OBVIOUS
<1>2. OneWorkerInv => OrderlyRemovalIsComplete
  <2> SUFFICES ASSUME OneWorkerInv, Orderly, NEW d \in Document, doc[d].status = "gone" PROVE Empty(d)
    BY DEF OrderlyRemovalIsComplete, RemovedIsUnindexed, Empty, Orderly
  <2>1. ~Recorded(d) /\ ChunksRecorded
    BY DEF OneWorkerInv, StoreInv, RowsBare, OrderlyInv, Orderly
  <2>2. ASSUME NEW w \in Worker, worker[w].pc \in {"insert", "publish"} PROVE worker[w].msg.document # d
    BY <2>2 DEF OneWorkerInv, StoreInv, OperandExists, Operates, Exists
  <2> QED
    BY <2>1, <2>2 DEF ChunksRecorded
<1> QED
  BY <1>1, <1>2, OneWorkerInit, OneWorkerNext, PTL DEF Spec
=============================================================================
