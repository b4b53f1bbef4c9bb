------------------------------ MODULE ChatTurn ------------------------------
(***************************************************************************)
(* The server's side of a conversation: POST /api/chat (main.py), the rows *)
(* it keeps in core/database.py, and POST /api/tasks/{id}/feedback         *)
(* (api/conversations.py).  A turn is one POST; turns of a thread may      *)
(* overlap, since nothing excludes them.                                   *)
(*                                                                         *)
(* Each step is one round trip to the database.  A session that read a row *)
(* writes back only the columns whose value it changed, as SQLAlchemy      *)
(* does: a column set to what was read is left to whoever wrote it since.  *)
(*                                                                         *)
(* A client that goes away makes Starlette, which is not part of the       *)
(* repository, cancel the response: at an await of the generator this is a *)
(* CancelledError, at a yield the generator is only closed, and its        *)
(* handlers do not run; every further await of a cancelled response is     *)
(* cancelled again.                                                        *)
(*                                                                         *)
(* Abstractions.  A text is the turn it belongs to.  How a run of the      *)
(* graph ends is arbitrary: TaskGraph is about that.  One user.  Every     *)
(* question brings one attachment.                                         *)
(***************************************************************************)
EXTENDS Naturals, FiniteSets, Sequences

CONSTANTS
    Thread,      \* conversations.thread_id
    Turn,        \* POST /api/chat, each made once
    Click,       \* POST /api/tasks/{id}/feedback, each made once
    MaxFaults,   \* bound on the round trips that fail and the processes that die
    None         \* no value

ASSUME ChatAssumption ==
    /\ MaxFaults \in Nat
    /\ None \notin Turn
    /\ None \notin Thread

VARIABLES
    conversation,  \* the row of each thread, or Absent
    messages,      \* conversation_messages of each thread, in order
    latest,        \* action of the newest chat event of the audit trail
    turn,          \* where each POST /api/chat is
    rating,        \* rating of the answer of each turn
    click,         \* where each POST .../feedback is
    overlapped,    \* threads of which two turns were under way at once
    unrecorded,    \* turns whose end some step kept from being recorded
    faults

rows == <<conversation, messages, latest>>
clicks == <<rating, click>>
vars == <<rows, turn, clicks, overlapped, unrecorded, faults>>

Outcome == {"completed", "waiting", "failed", "cancelled"}
Status == Outcome \cup {"running"}
Rating == {"helpful", "not_helpful"}

\* The role of the message a turn leaves behind; a cancelled one leaves none.
Role(outcome) == IF outcome = "failed" THEN "error" ELSE "assistant"

Row == [status: Status \cup {"absent"}, prompt: Turn \cup {None}, attached: Nat]
Absent == [status |-> "absent", prompt |-> None, attached |-> 0]

Message == [role: {"user", "assistant", "error"}, turn: Turn]

\* serving: in the try block of event_generator; handling: in an except block
\* or before the try, where what is raised ends the generator.
Step == {"unsent", "find", "create", "reopen", "say", "log", "accepted", "stream", "fetch",
         "record", "report", "ended", "refused", "dropped", "dead"}
UnderWay(t) == turn[t].pc \notin {"unsent", "ended", "refused", "dropped", "dead"}
At(t, pc) == turn[t].pc = pc

Fault == faults < MaxFaults /\ faults' = faults + 1
Goto(t, pc) == turn' = [turn EXCEPT ![t].pc = pc]

\* What a session that read copy and set new leaves in the row.
Left(stored, read, set) == IF set = read THEN stored ELSE set
Written(row, copy, new) ==
    [status |-> Left(row.status, copy.status, new.status),
     prompt |-> Left(row.prompt, copy.prompt, new.prompt),
     attached |-> Left(row.attached, copy.attached, new.attached)]

Init ==
    /\ conversation = [th \in Thread |-> Absent]
    /\ messages = [th \in Thread |-> <<>>]
    /\ latest = [th \in Thread |-> "none"]
    /\ turn = [t \in Turn |-> [pc |-> "unsent", thread |-> None, copy |-> Absent,
                               serving |-> TRUE, outcome |-> "failed"]]
    /\ rating = [t \in Turn |-> "none"]
    /\ click = [c \in Click |-> [pc |-> "unsent", thread |-> None, value |-> "none",
                                 answer |-> None, copy |-> "none"]]
    /\ overlapped = {}
    /\ unrecorded = {}
    /\ faults = 0

-----------------------------------------------------------------------------
(* chat_endpoint up to the response.                                       *)

\* A request that passed the rate limit.
Receive(t, th) ==
    /\ At(t, "unsent")
    /\ turn' = [turn EXCEPT ![t] = [@ EXCEPT !.pc = "find", !.thread = th]]
    /\ overlapped' = IF \E u \in Turn : UnderWay(u) /\ turn[u].thread = th
                     THEN overlapped \cup {th} ELSE overlapped
    /\ UNCHANGED <<rows, clicks, unrecorded, faults>>

\* ensure_conversation: the first select.
FindConversation(t) ==
    LET row == conversation[turn[t].thread] IN
    /\ At(t, "find")
    /\ turn' = [turn EXCEPT ![t] =
         [@ EXCEPT !.pc = IF row = Absent THEN "create" ELSE "reopen", !.copy = row]]
    /\ UNCHANGED <<rows, clicks, overlapped, unrecorded, faults>>

\* The insert; when another turn was faster, the rollback and the second select.
CreateConversation(t) ==
    LET th == turn[t].thread IN
    /\ At(t, "create")
    /\ IF conversation[th] = Absent
       THEN /\ conversation' = [conversation EXCEPT ![th] =
                 [status |-> "running", prompt |-> None, attached |-> 1]]
            /\ Goto(t, "say")
       ELSE /\ turn' = [turn EXCEPT ![t] = [@ EXCEPT !.pc = "reopen", !.copy = conversation[th]]]
            /\ UNCHANGED conversation
    /\ UNCHANGED <<messages, latest, clicks, overlapped, unrecorded, faults>>

ReopenConversation(t) ==
    LET th == turn[t].thread IN
    /\ At(t, "reopen")
    /\ conversation' = [conversation EXCEPT ![th] = Written(@, turn[t].copy,
         [status |-> "running", prompt |-> None, attached |-> turn[t].copy.attached + 1])]
    /\ Goto(t, "say")
    /\ UNCHANGED <<messages, latest, clicks, overlapped, unrecorded, faults>>

\* append_conversation_message
AppendQuestion(t) ==
    /\ At(t, "say")
    /\ messages' = [messages EXCEPT ![turn[t].thread] = Append(@, [role |-> "user", turn |-> t])]
    /\ Goto(t, "log")
    /\ UNCHANGED <<conversation, latest, clicks, overlapped, unrecorded, faults>>

\* append_audit_event "chat.requested"; the response is returned.
LogRequest(t) ==
    /\ At(t, "log")
    /\ latest' = [latest EXCEPT ![turn[t].thread] = "running"]
    /\ Goto(t, "accepted")
    /\ UNCHANGED <<conversation, messages, clicks, overlapped, unrecorded, faults>>

\* Any of these round trips raises: the client gets an error, the row stays.
RequestRaises(t) ==
    /\ turn[t].pc \in {"find", "create", "reopen", "say", "log"}
    /\ Fault
    /\ Goto(t, "refused")
    /\ unrecorded' = unrecorded \cup {t}
    /\ UNCHANGED <<rows, clicks, overlapped>>

-----------------------------------------------------------------------------
(* event_generator                                                         *)

BeginRun(t) ==
    /\ At(t, "accepted")
    /\ Goto(t, "stream")
    /\ UNCHANGED <<rows, clicks, overlapped, unrecorded, faults>>

\* The turn is to be finished with an outcome, from the try block or not.
Finishing(t, outcome, serving) ==
    turn' = [turn EXCEPT ![t] =
        [@ EXCEPT !.pc = "fetch", !.outcome = outcome, !.serving = serving]]

\* No checkpointer, or attachments that cannot be parsed (HTTPException).
RefuseRun(t) ==
    /\ At(t, "accepted")
    /\ Finishing(t, "failed", FALSE)
    /\ UNCHANGED <<rows, clicks, overlapped, unrecorded, faults>>

\* The terminal chunk; when the stream has none it counts as an error.
EndRun(t) ==
    /\ At(t, "stream")
    /\ \E outcome \in {"completed", "waiting", "failed"} : Finishing(t, outcome, TRUE)
    /\ UNCHANGED <<rows, clicks, overlapped, unrecorded, faults>>

\* run_agent_stream raises before its own try block.
RunRaises(t) ==
    /\ At(t, "stream")
    /\ Finishing(t, "failed", FALSE)
    /\ UNCHANGED <<rows, clicks, overlapped, unrecorded, faults>>

\* The client is gone and the generator awaits: except asyncio.CancelledError.
Cancel(t) ==
    /\ turn[t].pc \in {"stream", "fetch", "record", "report"}
    /\ turn[t].serving
    /\ Finishing(t, "cancelled", FALSE)
    /\ UNCHANGED <<rows, clicks, overlapped, unrecorded, faults>>

\* Mutant of Drop: at a yield the handlers are thought to run.
DropNoticed(t) ==
    /\ turn[t].pc \in {"accepted", "stream"}
    /\ Goto(t, "ended")
    /\ UNCHANGED <<rows, clicks, overlapped, unrecorded, faults>>

\* The client is gone before the generator began, while it is at a yield, or
\* again while an except block records the end.
Drop(t) ==
    /\ \/ turn[t].pc \in {"accepted", "stream"}
       \/ turn[t].pc \in {"fetch", "record", "report"} /\ ~turn[t].serving
    /\ Goto(t, "dropped")
    /\ unrecorded' = unrecorded \cup {t}
    /\ UNCHANGED <<rows, clicks, overlapped, faults>>

\* finish_conversation_turn: session.get
FetchConversation(t) ==
    /\ At(t, "fetch")
    /\ turn' = [turn EXCEPT ![t] =
         [@ EXCEPT !.pc = "record", !.copy = conversation[turn[t].thread]]]
    /\ UNCHANGED <<rows, clicks, overlapped, unrecorded, faults>>

\* Mutant of RecordEnd: the status is left alone when the turn was cancelled.
RecordEndUnlessCancelled(t) ==
    LET th == turn[t].thread
        outcome == turn[t].outcome IN
    /\ At(t, "record")
    /\ conversation' = [conversation EXCEPT ![th] = Written(@, turn[t].copy,
         [turn[t].copy EXCEPT !.status = IF outcome = "cancelled" THEN @ ELSE outcome,
                              !.prompt = IF outcome = "waiting" THEN t ELSE None])]
    /\ messages' = IF outcome = "cancelled" THEN messages
                   ELSE [messages EXCEPT ![th] = Append(@, [role |-> Role(outcome), turn |-> t])]
    /\ Goto(t, "report")
    /\ UNCHANGED <<latest, clicks, overlapped, unrecorded, faults>>

\* Mutant of RecordEnd: a question back is kept as the prompt only.
RecordEndWithoutPrompt(t) ==
    LET th == turn[t].thread
        outcome == turn[t].outcome IN
    /\ At(t, "record")
    /\ conversation' = [conversation EXCEPT ![th] = Written(@, turn[t].copy,
         [turn[t].copy EXCEPT !.status = outcome,
                              !.prompt = IF outcome = "waiting" THEN t ELSE None])]
    /\ messages' = IF outcome \in {"cancelled", "waiting"} THEN messages
                   ELSE [messages EXCEPT ![th] = Append(@, [role |-> Role(outcome), turn |-> t])]
    /\ Goto(t, "report")
    /\ UNCHANGED <<latest, clicks, overlapped, unrecorded, faults>>

\* finish_conversation_turn: the assignments and the commit.
RecordEnd(t) ==
    LET th == turn[t].thread
        outcome == turn[t].outcome IN
    /\ At(t, "record")
    /\ conversation' = [conversation EXCEPT ![th] = Written(@, turn[t].copy,
         [turn[t].copy EXCEPT !.status = outcome,
                              !.prompt = IF outcome = "waiting" THEN t ELSE None])]
    /\ messages' = IF outcome = "cancelled" THEN messages
                   ELSE [messages EXCEPT ![th] = Append(@, [role |-> Role(outcome), turn |-> t])]
    /\ Goto(t, "report")
    /\ UNCHANGED <<latest, clicks, overlapped, unrecorded, faults>>

\* append_audit_event, then the terminal chunk goes out.
ReportEnd(t) ==
    /\ At(t, "report")
    /\ latest' = [latest EXCEPT ![turn[t].thread] = turn[t].outcome]
    /\ Goto(t, "ended")
    /\ UNCHANGED <<conversation, messages, clicks, overlapped, unrecorded, faults>>

\* Mutant of FinishRaises: the except block reports and records nothing.
FinishRaisesQuietly(t) ==
    /\ turn[t].pc \in {"fetch", "record", "report"}
    /\ Fault
    /\ Goto(t, "ended")
    /\ UNCHANGED <<rows, clicks, overlapped, unrecorded>>

\* One of these three raises: once more from the except block, as a failure.
FinishRaises(t) ==
    /\ turn[t].pc \in {"fetch", "record", "report"}
    /\ Fault
    /\ IF turn[t].serving
       THEN Finishing(t, "failed", FALSE) /\ UNCHANGED unrecorded
       ELSE Goto(t, "dropped") /\ unrecorded' = unrecorded \cup {t}
    /\ UNCHANGED <<rows, clicks, overlapped>>

Chat(t) ==
    \/ FindConversation(t) \/ CreateConversation(t) \/ ReopenConversation(t)
    \/ AppendQuestion(t) \/ LogRequest(t) \/ RequestRaises(t)
    \/ BeginRun(t) \/ RefuseRun(t) \/ EndRun(t) \/ RunRaises(t)
    \/ FetchConversation(t) \/ RecordEnd(t) \/ ReportEnd(t) \/ FinishRaises(t)

Disconnect(t) == Cancel(t) \/ Drop(t)

\* An API process dies with some of its requests; nothing resumes them.
ProcessCrash ==
    /\ Fault
    /\ \E dying \in SUBSET {t \in Turn : UnderWay(t)} :
         /\ dying # {}
         /\ turn' = [t \in Turn |-> IF t \in dying THEN [turn[t] EXCEPT !.pc = "dead"] ELSE turn[t]]
         /\ unrecorded' = unrecorded \cup dying
    /\ UNCHANGED <<rows, clicks, overlapped>>

-----------------------------------------------------------------------------
(* set_task_feedback                                                       *)

\* get_user_conversation: 404 without a row, so nobody rates before one is there.
Rate(c, th) ==
    /\ click[c].pc = "unsent"
    /\ conversation[th] # Absent
    /\ \E v \in Rating :
         click' = [click EXCEPT ![c] = [@ EXCEPT !.pc = "find", !.thread = th, !.value = v]]
    /\ UNCHANGED <<rows, turn, rating, overlapped, unrecorded, faults>>

Answers(th) == {i \in DOMAIN messages[th] : messages[th][i].role = "assistant"}

\* Mutant of FindAnswer: the newest message that is not the user's.
FindNewestMessage(c) ==
    LET th == click[c].thread
        replies == {i \in DOMAIN messages[th] : messages[th][i].role # "user"} IN
    /\ click[c].pc = "find"
    /\ IF replies = {}
       THEN click' = [click EXCEPT ![c].pc = "refused"]
       ELSE \E i \in replies :
              /\ \A j \in replies : j <= i
              /\ click' = [click EXCEPT ![c] = [@ EXCEPT !.pc = "look", !.answer = messages[th][i].turn]]
    /\ UNCHANGED <<rows, turn, rating, overlapped, unrecorded, faults>>

\* The newest assistant message at the time of the query; 409 without one.
FindAnswer(c) ==
    LET th == click[c].thread IN
    /\ click[c].pc = "find"
    /\ IF Answers(th) = {}
       THEN click' = [click EXCEPT ![c].pc = "refused"]
       ELSE \E i \in Answers(th) :
              /\ \A j \in Answers(th) : j <= i
              /\ click' = [click EXCEPT ![c] = [@ EXCEPT !.pc = "look", !.answer = messages[th][i].turn]]
    /\ UNCHANGED <<rows, turn, rating, overlapped, unrecorded, faults>>

LookRating(c) ==
    /\ click[c].pc = "look"
    /\ click' = [click EXCEPT ![c] = [@ EXCEPT !.pc = "store", !.copy = rating[click[c].answer]]]
    /\ UNCHANGED <<rows, turn, rating, overlapped, unrecorded, faults>>

\* The insert fails when another click was faster (uq_conversation_feedback_
\* message_user, nothing catches it); an equal value is not written.
StoreRating(c) ==
    LET a == click[c].answer
        v == click[c].value
        inserts == click[c].copy = "none" IN
    /\ click[c].pc = "store"
    /\ IF inserts /\ rating[a] # "none"
       THEN click' = [click EXCEPT ![c].pc = "error"] /\ UNCHANGED rating
       ELSE /\ rating' = IF click[c].copy = v THEN rating ELSE [rating EXCEPT ![a] = v]
            /\ click' = [click EXCEPT ![c].pc = "saved"]
    /\ UNCHANGED <<rows, turn, overlapped, unrecorded, faults>>

SetFeedback(c) == (\E th \in Thread : Rate(c, th)) \/ FindAnswer(c) \/ LookRating(c) \/ StoreRating(c)

-----------------------------------------------------------------------------
Next ==
    \/ \E t \in Turn : (\E th \in Thread : Receive(t, th)) \/ Chat(t) \/ Disconnect(t)
    \/ \E c \in Click : SetFeedback(c)
    \/ ProcessCrash

Spec == Init /\ [][Next]_vars

-----------------------------------------------------------------------------
(* Properties.                                                             *)

\* The tables hold values of their columns and every request is at a step.
TypeOK ==
    /\ conversation \in [Thread -> Row]
    /\ messages \in [Thread -> Seq(Message)]
    /\ latest \in [Thread -> Status \cup {"none"}]
    /\ turn \in [Turn -> [pc : Step, thread : Thread \cup {None}, copy : Row,
                          serving : BOOLEAN, outcome : Outcome]]
    /\ \A t \in Turn : turn[t].pc # "unsent" => turn[t].thread \in Thread
    /\ rating \in [Turn -> Rating \cup {"none"}]
    /\ click \in [Click -> [pc : {"unsent", "find", "look", "store", "saved", "refused", "error"},
                            thread : Thread \cup {None}, value : Rating \cup {"none"},
                            answer : Turn \cup {None}, copy : Rating \cup {"none"}]]
    /\ \A c \in Click : click[c].pc # "unsent" => click[c].thread \in Thread /\ click[c].value \in Rating
    /\ \A c \in Click : click[c].pc \in {"look", "store"} => click[c].answer \in Turn
    /\ overlapped \in SUBSET Thread
    /\ unrecorded \in SUBSET Turn
    /\ faults \in Nat

\* A conversation is shown as running only while one of its turns is under way
\* or after the end of one was lost (client gone at a yield, a failing round
\* trip, a dead process): overlapping turns, which write back what they read
\* before, never leave it running between them.
RunningIsUnderWay ==
    \A th \in Thread : conversation[th].status = "running" =>
        \E t \in Turn : turn[t].thread = th /\ (UnderWay(t) \/ t \in unrecorded)

\* t asked the last question of th and has ended; every other turn of th asked
\* before it, and none ran beside another.
Settled(th, t) ==
    LET questions == {i \in DOMAIN messages[th] : messages[th][i].role = "user"} IN
    /\ th \notin overlapped
    /\ turn[t].pc = "ended"
    /\ \E i \in questions : messages[th][i].turn = t /\ \A j \in questions : j <= i
    /\ \A u \in Turn : turn[u].thread = th => \E i \in questions : messages[th][i].turn = u

\* Once the last turn of a thread ended, whatever was cancelled, failed or lost
\* before it, the row tells its outcome, asks for a reply exactly if it waits
\* for one and counts every attachment, and the last message is its answer.
TurnsAreRecorded ==
    \A th \in Thread, t \in Turn : Settled(th, t) =>
        /\ conversation[th].status = turn[t].outcome
        /\ conversation[th].prompt = IF turn[t].outcome = "waiting" THEN t ELSE None
        /\ conversation[th].attached =
               Cardinality({u \in Turn : turn[u].thread = th})
        /\ turn[t].outcome # "cancelled" =>
               messages[th][Len(messages[th])] = [role |-> Role(turn[t].outcome), turn |-> t]

\* The audit trail, from which the dashboards count conversations, and the row,
\* which the user's task list shows, then tell the same end.
EventsAgreeWithRow ==
    \A th \in Thread, t \in Turn : Settled(th, t) => latest[th] = conversation[th].status

=============================================================================
