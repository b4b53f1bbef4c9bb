--------------------------- MODULE ChatTurnProofs ---------------------------
(***************************************************************************)
(* What holds of conversations for every number of threads, turns, clicks, *)
(* loads and faults: the types; that a row says "running" only while a     *)
(* turn is under way or after the end of one was lost; that the row, the   *)
(* messages and the audit trail tell how the last turn ended; that the     *)
(* tab in front of the server makes only requests ChatTurn knows; and what *)
(* the tab shows, keeps and rates.                                         *)
(***************************************************************************)
EXTENDS ChatSession, FiniteSetTheorems, WellFoundedInduction, TLAPS

TurnRow == [pc : Step, thread : Thread \cup {None}, copy : Row, serving : BOOLEAN,
            outcome : Outcome]
ClickRow == [pc : {"unsent", "find", "look", "store", "saved", "refused", "error"},
             thread : Thread \cup {None}, value : Rating \cup {"none"},
             answer : Turn \cup {None}, copy : Rating \cup {"none"}]

(* The parts of TypeOK that an action touches or leaves.                   *)
RowsTyped ==
    /\ conversation \in [Thread -> Row]
    /\ messages \in [Thread -> Seq(Message)]
    /\ latest \in [Thread -> Status \cup {"none"}]
TurnsTyped ==
    /\ turn \in [Turn -> TurnRow]
    /\ \A t \in Turn : turn[t].pc # "unsent" => turn[t].thread \in Thread
ClicksTyped ==
    /\ rating \in [Turn -> Rating \cup {"none"}]
    /\ click \in [Click -> ClickRow]
    /\ \A c \in Click : click[c].pc # "unsent" => click[c].thread \in Thread /\ click[c].value \in Rating
    /\ \A c \in Click : click[c].pc \in {"look", "store"} => click[c].answer \in Turn
GhostsTyped ==
    /\ overlapped \in SUBSET Thread
    /\ unrecorded \in SUBSET Turn
    /\ faults \in Nat

LEMMA TypeParts == TypeOK <=> RowsTyped /\ TurnsTyped /\ ClicksTyped /\ GhostsTyped
BY DEF TypeOK, RowsTyped, TurnsTyped, ClicksTyped, GhostsTyped, TurnRow, ClickRow

(* The values the actions put into a row of the tables are of its type.    *)
LEMMA RowsOfTheTable ==
    /\ Absent \in Row
    /\ \A row, copy, new \in Row : Written(row, copy, new) \in Row
<1>1. Absent \in Row
  BY DEF Absent, Row
<1>2. ASSUME NEW row \in Row, NEW copy \in Row, NEW new \in Row
      PROVE  Written(row, copy, new) \in Row
  BY DEF Written, Left, Row
<1>3. QED
  BY <1>1, <1>2

(* One turn changes to a typed row; the others stay.                       *)
LEMMA TurnChanges ==
    ASSUME TurnsTyped, NEW t \in Turn, NEW row \in TurnRow,
           row.pc # "unsent" => row.thread \in Thread,
           turn' = [turn EXCEPT ![t] = row]
    PROVE  TurnsTyped'
BY DEF TurnsTyped

LEMMA GotoIsTyped ==
    ASSUME TurnsTyped, NEW t \in Turn, NEW pc \in Step, ~At(t, "unsent"), Goto(t, pc)
    PROVE  TurnsTyped'
<1>1. turn' = [turn EXCEPT ![t].pc = pc] /\ turn[t].pc # "unsent"
  BY DEF Goto, At
<1>2. turn' \in [Turn -> TurnRow]
  BY <1>1 DEF TurnsTyped, TurnRow
<1>3. \A u \in Turn : turn'[u].pc # "unsent" => turn'[u].thread \in Thread
  BY <1>1 DEF TurnsTyped, TurnRow
<1>4. QED
  BY <1>2, <1>3 DEF TurnsTyped

LEMMA FinishingIsTyped ==
    ASSUME TurnsTyped, NEW t \in Turn, ~At(t, "unsent"),
           NEW outcome \in Outcome, NEW serving \in BOOLEAN, Finishing(t, outcome, serving)
    PROVE  TurnsTyped'
<1> DEFINE row == [turn[t] EXCEPT !.pc = "fetch", !.outcome = outcome, !.serving = serving]
<1>1. turn' = [turn EXCEPT ![t] = row]
  BY DEF Finishing
<1>2. turn[t] \in TurnRow /\ turn[t].thread \in Thread
  BY DEF TurnsTyped, At
<1>3. row \in TurnRow /\ row.thread \in Thread
  BY <1>2 DEF TurnRow, Step
<1> HIDE DEF row
<1>4. QED
  BY <1>1, <1>3, TurnChanges

LEMMA CopyIsTyped ==
    ASSUME TurnsTyped, NEW t \in Turn, ~At(t, "unsent"), NEW pc \in Step, NEW copy \in Row,
           turn' = [turn EXCEPT ![t] = [@ EXCEPT !.pc = pc, !.copy = copy]]
    PROVE  TurnsTyped'
<1> DEFINE row == [turn[t] EXCEPT !.pc = pc, !.copy = copy]
<1>1. turn' = [turn EXCEPT ![t] = row]
  OBVIOUS
<1>2. turn[t] \in TurnRow /\ turn[t].thread \in Thread
  BY DEF TurnsTyped, At
<1>3. row \in TurnRow /\ row.thread \in Thread
  BY <1>2 DEF TurnRow
<1> HIDE DEF row
<1>4. QED
  BY <1>1, <1>3, TurnChanges

Parts == RowsTyped /\ TurnsTyped /\ ClicksTyped /\ GhostsTyped

LEMMA TypeInit == Init => Parts
<1> SUFFICES ASSUME Init PROVE Parts
  OBVIOUS
<1> DEFINE first == [pc |-> "unsent", thread |-> None, copy |-> Absent, serving |-> TRUE,
                     outcome |-> "failed"]
           blank == [pc |-> "unsent", thread |-> None, value |-> "none", answer |-> None,
                     copy |-> "none"]
<1>1. RowsTyped
  BY RowsOfTheTable DEF Init, RowsTyped, Status
<1>2. first \in TurnRow /\ first.pc = "unsent"
  BY RowsOfTheTable DEF TurnRow, Step, Outcome
<1>3. blank \in ClickRow /\ blank.pc = "unsent"
  BY DEF ClickRow
<1>4. turn = [t \in Turn |-> first] /\ click = [c \in Click |-> blank]
  BY DEF Init
<1> HIDE DEF first, blank
<1>5. TurnsTyped
  BY <1>2, <1>4 DEF TurnsTyped
<1>6. ClicksTyped
  BY <1>3, <1>4 DEF Init, ClicksTyped
<1>7. GhostsTyped
  BY DEF Init, GhostsTyped
<1>8. QED
  BY <1>1, <1>5, <1>6, <1>7 DEF Parts

(* What an action leaves alone keeps its type.                             *)
LEMMA ClicksStay == ASSUME ClicksTyped, UNCHANGED clicks PROVE ClicksTyped'
BY DEF ClicksTyped, clicks
LEMMA RowsStay == ASSUME RowsTyped, UNCHANGED rows PROVE RowsTyped'
BY DEF RowsTyped, rows
LEMMA GhostsStay ==
    ASSUME GhostsTyped, UNCHANGED overlapped,
           unrecorded' \in SUBSET Turn, faults' = faults \/ faults' = faults + 1
    PROVE  GhostsTyped'
BY DEF GhostsTyped

(* Requests up to the response.                                            *)
LEMMA RequestIsTyped ==
    ASSUME Parts, NEW t \in Turn,
           \/ FindConversation(t) \/ CreateConversation(t) \/ ReopenConversation(t)
           \/ AppendQuestion(t) \/ LogRequest(t) \/ RequestRaises(t)
    PROVE  Parts'
<1> DEFINE th == turn[t].thread
<1>1. ~At(t, "unsent") /\ UNCHANGED clicks
  BY DEF FindConversation, CreateConversation, ReopenConversation, AppendQuestion, LogRequest,
         RequestRaises, At, Goto
<1>2. th \in Thread /\ turn[t] \in TurnRow /\ turn[t].copy \in Row /\ conversation[th] \in Row
  BY <1>1 DEF Parts, TurnsTyped, RowsTyped, At, TurnRow
<1>3. GhostsTyped'
  <2>1. UNCHANGED overlapped /\ unrecorded' \in SUBSET Turn /\ (faults' = faults \/ faults' = faults + 1)
    BY DEF FindConversation, CreateConversation, ReopenConversation, AppendQuestion, LogRequest,
           RequestRaises, Fault, Parts, GhostsTyped
  <2>2. QED
    BY <2>1, GhostsStay DEF Parts
<1>4. ClicksTyped'
  BY <1>1, ClicksStay DEF Parts
<1>5. CASE FindConversation(t)
  <2>1. RowsTyped'
    BY <1>5, RowsStay DEF FindConversation, Parts
  <2>2. PICK pc \in Step : turn' = [turn EXCEPT ![t] = [@ EXCEPT !.pc = pc, !.copy = conversation[th]]]
    BY <1>5 DEF FindConversation, Step
  <2>3. QED
    BY <1>1, <1>2, <1>3, <1>4, <2>1, <2>2, CopyIsTyped DEF Parts
<1>6. CASE CreateConversation(t)
  <2>1. CASE conversation[th] = Absent
    <3> DEFINE new == [status |-> "running", prompt |-> None, attached |-> 1]
    <3>1. new \in Row
      BY DEF Row, Status
    <3>2. conversation' = [conversation EXCEPT ![th] = new] /\ UNCHANGED <<messages, latest>> /\ Goto(t, "say")
      BY <1>6, <2>1 DEF CreateConversation
    <3> HIDE DEF new
    <3>3. RowsTyped'
      BY <1>2, <3>1, <3>2 DEF RowsTyped, Parts
    <3>4. QED
      BY <1>1, <1>3, <1>4, <3>2, <3>3, GotoIsTyped DEF Parts, Step
  <2>2. CASE conversation[th] # Absent
    <3>1. UNCHANGED rows
      BY <1>6, <2>2 DEF CreateConversation, rows
    <3>2. turn' = [turn EXCEPT ![t] = [@ EXCEPT !.pc = "reopen", !.copy = conversation[th]]]
      BY <1>6, <2>2 DEF CreateConversation
    <3>3. "reopen" \in Step
      BY DEF Step
    <3>4. QED
      BY <1>1, <1>2, <1>3, <1>4, <3>1, <3>2, <3>3, CopyIsTyped, RowsStay DEF Parts
  <2>3. QED
    BY <2>1, <2>2
<1>7. CASE ReopenConversation(t)
  <2> DEFINE set == [status |-> "running", prompt |-> None, attached |-> turn[t].copy.attached + 1]
             new == Written(conversation[th], turn[t].copy, set)
  <2>1. set \in Row
    BY <1>2 DEF Row, Status
  <2>2. new \in Row
    BY <1>2, <2>1, RowsOfTheTable
  <2>3. conversation' = [conversation EXCEPT ![th] = new] /\ UNCHANGED <<messages, latest>> /\ Goto(t, "say")
    BY <1>7 DEF ReopenConversation
  <2> HIDE DEF new
  <2>4. RowsTyped'
    BY <1>2, <2>2, <2>3 DEF RowsTyped, Parts
  <2>5. QED
    BY <1>1, <1>3, <1>4, <2>3, <2>4, GotoIsTyped DEF Parts, Step
<1>8. CASE AppendQuestion(t)
  <2>1. [role |-> "user", turn |-> t] \in Message
    BY DEF Message
  <2>2. messages' = [messages EXCEPT ![th] = Append(@, [role |-> "user", turn |-> t])]
        /\ UNCHANGED <<conversation, latest>> /\ Goto(t, "log")
    BY <1>8 DEF AppendQuestion
  <2>3. RowsTyped'
    BY <1>2, <2>1, <2>2 DEF RowsTyped, Parts
  <2>4. QED
    BY <1>1, <1>3, <1>4, <2>2, <2>3, GotoIsTyped DEF Parts, Step
<1>9. CASE LogRequest(t)
  <2>1. latest' = [latest EXCEPT ![th] = "running"] /\ UNCHANGED <<conversation, messages>>
        /\ Goto(t, "accepted")
    BY <1>9 DEF LogRequest
  <2>2. RowsTyped'
    BY <1>2, <2>1 DEF RowsTyped, Parts, Status
  <2>3. QED
    BY <1>1, <1>3, <1>4, <2>1, <2>2, GotoIsTyped DEF Parts, Step
<1>10. CASE RequestRaises(t)
  <2>1. UNCHANGED rows /\ Goto(t, "refused")
    BY <1>10 DEF RequestRaises
  <2>2. QED
    BY <1>1, <1>3, <1>4, <2>1, RowsStay, GotoIsTyped DEF Parts, Step
<1>11. QED
  BY <1>5, <1>6, <1>7, <1>8, <1>9, <1>10

(* The run of the graph, and the client that goes away.                    *)
LEMMA RunIsTyped ==
    ASSUME Parts, NEW t \in Turn,
           \/ BeginRun(t) \/ RefuseRun(t) \/ EndRun(t) \/ RunRaises(t) \/ Cancel(t) \/ Drop(t)
    PROVE  Parts'
<1>1. ~At(t, "unsent") /\ UNCHANGED clicks /\ UNCHANGED rows
  BY DEF BeginRun, RefuseRun, EndRun, RunRaises, Cancel, Drop, At
<1>2. GhostsTyped'
  <2>1. UNCHANGED overlapped /\ unrecorded' \in SUBSET Turn /\ faults' = faults
    BY DEF BeginRun, RefuseRun, EndRun, RunRaises, Cancel, Drop, Parts, GhostsTyped
  <2>2. QED
    BY <2>1, GhostsStay DEF Parts
<1>3. Goto(t, "stream") \/ Goto(t, "dropped") \/
      \E outcome \in Outcome, serving \in BOOLEAN : Finishing(t, outcome, serving)
  BY DEF BeginRun, RefuseRun, EndRun, RunRaises, Cancel, Drop, Outcome
<1>4. TurnsTyped'
  BY <1>1, <1>3, GotoIsTyped, FinishingIsTyped DEF Parts, Step
<1>5. QED
  BY <1>1, <1>2, <1>4, RowsStay, ClicksStay DEF Parts

(* The end of a turn.                                                      *)
LEMMA EndIsTyped ==
    ASSUME Parts, NEW t \in Turn,
           FetchConversation(t) \/ RecordEnd(t) \/ ReportEnd(t) \/ FinishRaises(t)
    PROVE  Parts'
<1> DEFINE th == turn[t].thread
           outcome == turn[t].outcome
<1>1. ~At(t, "unsent") /\ UNCHANGED clicks
  BY DEF FetchConversation, RecordEnd, ReportEnd, FinishRaises, At
<1>2. th \in Thread /\ turn[t] \in TurnRow /\ turn[t].copy \in Row /\ outcome \in Outcome
      /\ conversation[th] \in Row
  BY <1>1 DEF Parts, TurnsTyped, RowsTyped, At, TurnRow
<1>3. GhostsTyped'
  <2>1. UNCHANGED overlapped /\ unrecorded' \in SUBSET Turn /\ (faults' = faults \/ faults' = faults + 1)
    BY DEF FetchConversation, RecordEnd, ReportEnd, FinishRaises, Fault, Parts, GhostsTyped
  <2>2. QED
    BY <2>1, GhostsStay DEF Parts
<1>4. ClicksTyped'
  BY <1>1, ClicksStay DEF Parts
<1>5. CASE FetchConversation(t)
  <2>1. UNCHANGED rows
        /\ turn' = [turn EXCEPT ![t] = [@ EXCEPT !.pc = "record", !.copy = conversation[th]]]
    BY <1>5 DEF FetchConversation
  <2>2. "record" \in Step
    BY DEF Step
  <2>3. QED
    BY <1>1, <1>2, <1>3, <1>4, <2>1, <2>2, CopyIsTyped, RowsStay DEF Parts
<1>6. CASE RecordEnd(t)
  <2> DEFINE set == [turn[t].copy EXCEPT !.status = outcome,
                                        !.prompt = IF outcome = "waiting" THEN t ELSE None]
             new == Written(conversation[th], turn[t].copy, set)
             said == [role |-> Role(outcome), turn |-> t]
  <2>1. set \in Row
    BY <1>2 DEF Row, Status
  <2>2. new \in Row
    BY <1>2, <2>1, RowsOfTheTable
  <2>3. conversation' = [conversation EXCEPT ![th] = new] /\ UNCHANGED latest /\ Goto(t, "report")
    BY <1>6 DEF RecordEnd
  <2>4. said \in Message
    <3>1. Role(outcome) \in {"user", "assistant", "error"}
      BY DEF Role
    <3>2. QED
      BY <3>1 DEF Message
  <2>5. messages' = messages \/ messages' = [messages EXCEPT ![th] = Append(@, said)]
    BY <1>6 DEF RecordEnd
  <2> HIDE DEF new, said
  <2>6. messages' \in [Thread -> Seq(Message)]
    <3>1. messages \in [Thread -> Seq(Message)]
      BY DEF RowsTyped, Parts
    <3>2. Append(messages[th], said) \in Seq(Message)
      BY <1>2, <2>4, <3>1
    <3>3. QED
      BY <1>2, <2>5, <3>1, <3>2
  <2>7. RowsTyped'
    BY <1>2, <2>2, <2>3, <2>6 DEF RowsTyped, Parts
  <2>8. QED
    BY <1>1, <1>3, <1>4, <2>3, <2>7, GotoIsTyped DEF Parts, Step
<1>7. CASE ReportEnd(t)
  <2>1. latest' = [latest EXCEPT ![th] = outcome] /\ UNCHANGED <<conversation, messages>>
        /\ Goto(t, "ended")
    BY <1>7 DEF ReportEnd
  <2>2. RowsTyped'
    BY <1>2, <2>1 DEF RowsTyped, Parts, Status
  <2>3. QED
    BY <1>1, <1>3, <1>4, <2>1, <2>2, GotoIsTyped DEF Parts, Step
<1>8. CASE FinishRaises(t)
  <2>1. UNCHANGED rows /\ (Goto(t, "dropped") \/ Finishing(t, "failed", FALSE))
    BY <1>8 DEF FinishRaises
  <2>2. TurnsTyped'
    BY <1>1, <2>1, GotoIsTyped, FinishingIsTyped DEF Parts, Step, Outcome
  <2>3. QED
    BY <1>3, <1>4, <2>1, <2>2, RowsStay DEF Parts
<1>9. QED
  BY <1>5, <1>6, <1>7, <1>8

(* A request that arrives, and a process that dies.                        *)
LEMMA ReceiveIsTyped ==
    ASSUME Parts, NEW t \in Turn, NEW th \in Thread, Receive(t, th)
    PROVE  Parts'
<1> DEFINE row == [turn[t] EXCEPT !.pc = "find", !.thread = th]
<1>1. turn' = [turn EXCEPT ![t] = row] /\ UNCHANGED <<rows, clicks, unrecorded, faults>>
  BY DEF Receive
<1>2. overlapped' \in SUBSET Thread
  BY DEF Receive, Parts, GhostsTyped
<1>3. turn[t] \in TurnRow
  BY DEF Parts, TurnsTyped
<1>4. row \in TurnRow /\ row.thread \in Thread
  BY <1>3 DEF TurnRow, Step
<1> HIDE DEF row
<1>5. TurnsTyped'
  BY <1>1, <1>4, TurnChanges DEF Parts
<1>6. RowsTyped' /\ ClicksTyped'
  BY <1>1, RowsStay, ClicksStay DEF Parts
<1>7. GhostsTyped'
  BY <1>1, <1>2 DEF Parts, GhostsTyped
<1>8. QED
  BY <1>5, <1>6, <1>7 DEF Parts

LEMMA CrashIsTyped == ASSUME Parts, ProcessCrash PROVE Parts'
<1>1. PICK dying \in SUBSET {t \in Turn : UnderWay(t)} :
        /\ turn' = [t \in Turn |-> IF t \in dying THEN [turn[t] EXCEPT !.pc = "dead"] ELSE turn[t]]
        /\ unrecorded' = unrecorded \cup dying
  BY DEF ProcessCrash
<1>2. UNCHANGED rows /\ UNCHANGED clicks /\ UNCHANGED overlapped /\ faults' = faults + 1
  BY DEF ProcessCrash, Fault
<1>3. ASSUME NEW t \in Turn
      PROVE  turn'[t] \in TurnRow /\ (turn'[t].pc # "unsent" => turn'[t].thread \in Thread)
  <2>1. turn[t] \in TurnRow /\ (turn[t].pc # "unsent" => turn[t].thread \in Thread)
    BY DEF Parts, TurnsTyped
  <2>2. CASE t \in dying
    <3>1. turn[t].pc # "unsent" /\ turn'[t] = [turn[t] EXCEPT !.pc = "dead"]
      BY <1>1, <2>2 DEF UnderWay
    <3>2. QED
      BY <2>1, <3>1 DEF TurnRow, Step
  <2>3. CASE t \notin dying
    BY <1>1, <2>1, <2>3
  <2>4. QED
    BY <2>2, <2>3
<1>4. TurnsTyped'
  <2>1. DOMAIN turn' = Turn /\ turn' = [t \in Turn |-> turn'[t]]
    BY <1>1
  <2>2. QED
    BY <1>3, <2>1 DEF TurnsTyped
<1>5. unrecorded' \in SUBSET Turn
  BY <1>1 DEF Parts, GhostsTyped
<1>6. QED
  BY <1>2, <1>4, <1>5, RowsStay, ClicksStay, GhostsStay DEF Parts

(* A rating.                                                               *)
LEMMA ClickChanges ==
    ASSUME ClicksTyped, NEW c \in Click, NEW row \in ClickRow,
           row.pc # "unsent" => row.thread \in Thread /\ row.value \in Rating,
           row.pc \in {"look", "store"} => row.answer \in Turn,
           click' = [click EXCEPT ![c] = row], rating' \in [Turn -> Rating \cup {"none"}]
    PROVE  ClicksTyped'
BY DEF ClicksTyped

LEMMA AnswersAreTurns ==
    ASSUME RowsTyped, NEW th \in Thread, NEW i \in Answers(th)
    PROVE  messages[th][i].turn \in Turn
<1>1. messages[th] \in Seq(Message) /\ i \in DOMAIN messages[th]
  BY DEF RowsTyped, Answers
<1> DEFINE said == messages[th]
<1>2. said \in [1..Len(said) -> Message] /\ i \in 1..Len(said)
  BY <1>1
<1>3. said[i] \in Message
  BY <1>2
<1>4. QED
  BY <1>3 DEF Message

LEMMA ClickIsTyped ==
    ASSUME Parts, NEW c \in Click, SetFeedback(c)
    PROVE  Parts'
<1>1. UNCHANGED <<rows, turn, overlapped, unrecorded, faults>>
  BY DEF SetFeedback, Rate, FindAnswer, LookRating, StoreRating
<1>2. RowsTyped' /\ TurnsTyped' /\ GhostsTyped'
  BY <1>1, RowsStay DEF Parts, TurnsTyped, GhostsTyped
<1>3. click[c] \in ClickRow /\ rating \in [Turn -> Rating \cup {"none"}]
      /\ (click[c].pc # "unsent" => click[c].thread \in Thread /\ click[c].value \in Rating)
      /\ (click[c].pc \in {"look", "store"} => click[c].answer \in Turn)
  BY DEF Parts, ClicksTyped
<1>4. ClicksTyped'
  <2>1. CASE \E th \in Thread : Rate(c, th)
    <3>1. PICK th \in Thread, v \in Rating :
            /\ click' = [click EXCEPT ![c] = [click[c] EXCEPT !.pc = "find", !.thread = th, !.value = v]]
            /\ rating' = rating
      BY <2>1 DEF Rate
    <3> DEFINE row == [click[c] EXCEPT !.pc = "find", !.thread = th, !.value = v]
    <3>2. row \in ClickRow /\ row.pc = "find" /\ row.thread \in Thread /\ row.value \in Rating
      BY <1>3 DEF ClickRow
    <3>3. click' = [click EXCEPT ![c] = row] /\ rating' = rating
      BY <3>1
    <3> HIDE DEF row
    <3>4. QED
      BY <1>3, <3>2, <3>3, ClickChanges DEF Parts
  <2>2. CASE FindAnswer(c)
    <3>1. CASE Answers(click[c].thread) = {}
      <4> DEFINE row == [click[c] EXCEPT !.pc = "refused"]
      <4>1. click[c].pc = "find" /\ click' = [click EXCEPT ![c] = row] /\ rating' = rating
        BY <2>2, <3>1 DEF FindAnswer
      <4>2. row \in ClickRow /\ row.pc = "refused" /\ row.thread \in Thread /\ row.value \in Rating
        BY <1>3, <4>1 DEF ClickRow
      <4> HIDE DEF row
      <4>3. QED
        BY <1>3, <4>1, <4>2, ClickChanges DEF Parts
    <3>2. CASE Answers(click[c].thread) # {}
      <4>1. PICK i \in Answers(click[c].thread) :
              click' = [click EXCEPT ![c] = [click[c] EXCEPT !.pc = "look",
                                               !.answer = messages[click[c].thread][i].turn]]
        BY <2>2, <3>2 DEF FindAnswer
      <4> DEFINE a == messages[click[c].thread][i].turn
                 row == [click[c] EXCEPT !.pc = "look", !.answer = a]
      <4>2. click[c].pc = "find" /\ rating' = rating /\ click' = [click EXCEPT ![c] = row]
        BY <2>2, <4>1 DEF FindAnswer
      <4>3. a \in Turn
        BY <1>3, <4>2, AnswersAreTurns DEF Parts
      <4>4. row \in ClickRow /\ row.pc = "look" /\ row.thread \in Thread /\ row.value \in Rating
            /\ row.answer \in Turn
        BY <1>3, <4>2, <4>3 DEF ClickRow
      <4> HIDE DEF row
      <4>5. QED
        BY <1>3, <4>2, <4>4, ClickChanges DEF Parts
    <3>3. QED
      BY <3>1, <3>2
  <2>3. CASE LookRating(c)
    <3> DEFINE row == [click[c] EXCEPT !.pc = "store", !.copy = rating[click[c].answer]]
    <3>1. click[c].pc = "look" /\ rating' = rating /\ click' = [click EXCEPT ![c] = row]
      BY <2>3 DEF LookRating
    <3>2. rating[click[c].answer] \in Rating \cup {"none"}
      BY <1>3, <3>1
    <3>3. row \in ClickRow /\ row.pc = "store" /\ row.thread \in Thread /\ row.value \in Rating
          /\ row.answer \in Turn
      BY <1>3, <3>1, <3>2 DEF ClickRow
    <3> HIDE DEF row
    <3>4. QED
      BY <1>3, <3>1, <3>3, ClickChanges DEF Parts
  <2>4. CASE StoreRating(c)
    <3>1. click[c].pc = "store"
      BY <2>4 DEF StoreRating
    <3>2. PICK pc \in {"error", "saved"} : click' = [click EXCEPT ![c].pc = pc]
      BY <2>4 DEF StoreRating
    <3>3. rating' = rating \/ rating' = [rating EXCEPT ![click[c].answer] = click[c].value]
      BY <2>4 DEF StoreRating
    <3>4. rating' \in [Turn -> Rating \cup {"none"}]
      BY <1>3, <3>1, <3>3
    <3> DEFINE row == [click[c] EXCEPT !.pc = pc]
    <3>5. row \in ClickRow /\ row.pc = pc /\ row.thread \in Thread /\ row.value \in Rating
      BY <1>3, <3>1 DEF ClickRow
    <3>6. click' = [click EXCEPT ![c] = row]
      BY <3>2
    <3> HIDE DEF row
    <3>7. QED
      BY <3>4, <3>5, <3>6, ClickChanges DEF Parts
  <2>5. QED
    BY <2>1, <2>2, <2>3, <2>4 DEF SetFeedback
<1>5. QED
  BY <1>2, <1>4 DEF Parts

LEMMA TypeStep == Parts /\ [Next]_vars => Parts'
<1> SUFFICES ASSUME Parts, [Next]_vars PROVE Parts'
  OBVIOUS
<1>1. CASE UNCHANGED vars
  BY <1>1, RowsStay, ClicksStay DEF vars, Parts, TurnsTyped, GhostsTyped
<1>2. CASE ProcessCrash
  BY <1>2, CrashIsTyped
<1>3. CASE \E c \in Click : SetFeedback(c)
  BY <1>3, ClickIsTyped
<1>4. CASE \E t \in Turn : (\E th \in Thread : Receive(t, th)) \/ Chat(t) \/ Disconnect(t)
  BY <1>4, ReceiveIsTyped, RequestIsTyped, RunIsTyped, EndIsTyped DEF Chat, Disconnect
<1>5. QED
  BY <1>1, <1>2, <1>3, <1>4 DEF Next

(* The tables keep their types, for any number of overlapping turns.       *)
THEOREM ChatTypeCorrect == Spec => []TypeOK
<1>1. Init => Parts
  BY TypeInit
<1>2. Parts /\ [Next]_vars => Parts'
  BY TypeStep
<1>3. Parts => TypeOK
  BY TypeParts DEF Parts
<1>4. QED
  BY <1>1, <1>2, <1>3, PTL DEF Spec

-----------------------------------------------------------------------------
(* RunningIsUnderWay.  Before a turn writes its end it is the reason why   *)
(* its thread is running; a turn about to write (record) is no reason if   *)
(* it read another state, as then it may leave the row as it is.           *)

Reason(th, u) ==
    /\ turn[u].thread = th
    /\ \/ u \in unrecorded
       \/ turn[u].pc \in {"say", "log", "accepted", "stream", "fetch"}
       \/ turn[u].pc = "record" /\ turn[u].copy.status = "running"

RunningHasReason ==
    \A th \in Thread : conversation[th].status = "running" => \E u \in Turn : Reason(th, u)

\* Turns that were lost send nothing any more.
LostIsOver == \A u \in unrecorded : turn[u].pc \in {"refused", "dropped", "dead"}

ReasonInv == Parts /\ RunningHasReason /\ LostIsOver

(* A step that leaves the rows alone and takes no reason away.             *)
LEMMA ReasonsStay ==
    ASSUME RunningHasReason, UNCHANGED conversation,
           \A th \in Thread, u \in Turn : Reason(th, u) => Reason(th, u)'
    PROVE  RunningHasReason'
BY DEF RunningHasReason

(* A turn that goes on stays a reason, and so do the others.               *)
LEMMA GoingOn ==
    ASSUME Parts, LostIsOver, NEW t \in Turn, t \notin unrecorded, unrecorded' = unrecorded,
           NEW row, turn' = [turn EXCEPT ![t] = row],
           \/ row.thread = turn[t].thread /\ row.pc \in {"say", "log", "accepted", "stream", "fetch"}
           \/ ~(\E th \in Thread : Reason(th, t))
    PROVE  \A th \in Thread, u \in Turn : Reason(th, u) => Reason(th, u)'
<1> SUFFICES ASSUME NEW th \in Thread, NEW u \in Turn, Reason(th, u) PROVE Reason(th, u)'
  OBVIOUS
<1>1. turn \in [Turn -> TurnRow]
  BY DEF Parts, TurnsTyped
<1>2. CASE u # t
  BY <1>1, <1>2 DEF Reason
<1>3. CASE u = t
  BY <1>1, <1>3 DEF Reason
<1>4. QED
  BY <1>2, <1>3

(* A turn whose end is lost becomes a reason for good.                     *)
LEMMA Losing ==
    ASSUME Parts, NEW t \in Turn, NEW pc, Goto(t, pc), unrecorded' = unrecorded \cup {t}
    PROVE  \A th \in Thread, u \in Turn : Reason(th, u) => Reason(th, u)'
<1>1. turn \in [Turn -> TurnRow] /\ turn' = [turn EXCEPT ![t].pc = pc]
  BY DEF Parts, TurnsTyped, Goto
<1>2. ASSUME NEW u \in Turn PROVE turn'[u].thread = turn[u].thread /\ (u # t => turn'[u] = turn[u])
  BY <1>1 DEF TurnRow
<1>3. QED
  BY <1>2 DEF Reason

(* Only turns that can be lost are lost.                                   *)
LEMMA LostStay ==
    ASSUME Parts, LostIsOver, NEW t \in Turn, turn[t].pc \notin {"refused", "dropped", "dead"},
           NEW row, turn' = [turn EXCEPT ![t] = row],
           \/ unrecorded' = unrecorded
           \/ unrecorded' = unrecorded \cup {t} /\ row.pc \in {"refused", "dropped"}
    PROVE  LostIsOver' /\ t \notin unrecorded
<1>1. turn \in [Turn -> TurnRow] /\ unrecorded \subseteq Turn
  BY DEF Parts, TurnsTyped, GhostsTyped
<1>2. QED
  BY <1>1 DEF LostIsOver

(* The row of a thread is written by a turn that is a reason afterwards.   *)
LEMMA Reopened ==
    ASSUME Parts, RunningHasReason, NEW t \in Turn, NEW th \in Thread, NEW new,
           conversation' = [conversation EXCEPT ![th] = new], Reason(th, t)',
           \A other \in Thread, u \in Turn : Reason(other, u) => Reason(other, u)'
    PROVE  RunningHasReason'
<1>1. conversation \in [Thread -> Row]
  BY DEF Parts, RowsTyped
<1>2. ASSUME NEW other \in Thread, conversation'[other].status = "running"
      PROVE  \E u \in Turn : Reason(other, u)'
  <2>1. CASE other = th
    BY <2>1
  <2>2. CASE other # th
    <3>1. conversation[other].status = "running"
      BY <1>1, <1>2, <2>2
    <3>2. QED
      BY <3>1 DEF RunningHasReason
  <2>3. QED
    BY <2>1, <2>2
<1>3. QED
  BY <1>2 DEF RunningHasReason

\* The part of the invariant that is about reasons.
Reasons == RunningHasReason /\ LostIsOver

LEMMA GotoIsARow ==
    ASSUME Parts, NEW t \in Turn, NEW pc, Goto(t, pc)
    PROVE  \E row : turn' = [turn EXCEPT ![t] = row] /\ row.pc = pc /\ row.thread = turn[t].thread
<1> DEFINE row == [turn[t] EXCEPT !.pc = pc]
<1>1. turn[t] \in TurnRow
  BY DEF Parts, TurnsTyped
<1>2. row.pc = pc /\ row.thread = turn[t].thread
  BY <1>1 DEF TurnRow
<1>3. turn' = [turn EXCEPT ![t] = row]
  BY DEF Goto
<1> HIDE DEF row
<1>4. QED
  BY <1>2, <1>3

LEMMA FinishingIsARow ==
    ASSUME Parts, NEW t \in Turn, NEW outcome, NEW serving, Finishing(t, outcome, serving)
    PROVE  \E row : turn' = [turn EXCEPT ![t] = row] /\ row.pc = "fetch" /\ row.thread = turn[t].thread
<1> DEFINE row == [turn[t] EXCEPT !.pc = "fetch", !.outcome = outcome, !.serving = serving]
<1>1. turn[t] \in TurnRow
  BY DEF Parts, TurnsTyped
<1>2. row.pc = "fetch" /\ row.thread = turn[t].thread
  BY <1>1 DEF TurnRow
<1>3. turn' = [turn EXCEPT ![t] = row]
  BY DEF Finishing
<1> HIDE DEF row
<1>4. QED
  BY <1>2, <1>3

(* A turn that goes on, from a step that is not final, with the row of its *)
(* thread left alone.                                                      *)
LEMMA GoingOnKeepsReasons ==
    ASSUME Parts, Reasons, NEW t \in Turn, turn[t].pc \notin {"refused", "dropped", "dead"},
           UNCHANGED <<conversation, unrecorded>>,
           NEW row, turn' = [turn EXCEPT ![t] = row],
           \/ /\ row.thread = turn[t].thread
              /\ row.pc \in {"say", "log", "accepted", "stream", "fetch"}
           \/ turn[t].pc \notin {"say", "log", "accepted", "stream", "fetch", "record"}
    PROVE  Reasons'
<1>1. LostIsOver' /\ t \notin unrecorded
  BY LostStay DEF Reasons
<1>2. turn[t].pc \notin {"say", "log", "accepted", "stream", "fetch", "record"} =>
        ~(\E th \in Thread : Reason(th, t))
  BY <1>1 DEF Reason
<1>3. \A th \in Thread, u \in Turn : Reason(th, u) => Reason(th, u)'
  BY <1>1, <1>2, GoingOn DEF Reasons
<1>4. QED
  BY <1>1, <1>3, ReasonsStay DEF Reasons

LEMMA LosingKeepsReasons ==
    ASSUME Parts, Reasons, NEW t \in Turn, turn[t].pc \notin {"refused", "dropped", "dead"},
           UNCHANGED conversation, NEW pc \in {"refused", "dropped"}, Goto(t, pc),
           unrecorded' = unrecorded \cup {t}
    PROVE  Reasons'
<1>1. PICK row : turn' = [turn EXCEPT ![t] = row] /\ row.pc = pc
  BY GotoIsARow
<1>2. LostIsOver'
  BY <1>1, LostStay DEF Reasons
<1>3. \A th \in Thread, u \in Turn : Reason(th, u) => Reason(th, u)'
  BY Losing
<1>4. QED
  BY <1>2, <1>3, ReasonsStay DEF Reasons

LEMMA OpeningKeepsReasons ==
    ASSUME Parts, Reasons, NEW t \in Turn, turn[t].pc \in {"create", "reopen"},
           NEW new, conversation' = [conversation EXCEPT ![turn[t].thread] = new],
           Goto(t, "say"), UNCHANGED unrecorded
    PROVE  Reasons'
<1>1. turn \in [Turn -> TurnRow] /\ turn[t].thread \in Thread
  BY DEF Parts, TurnsTyped
<1>2. PICK row : turn' = [turn EXCEPT ![t] = row] /\ row.pc = "say" /\ row.thread = turn[t].thread
  BY GotoIsARow
<1>3. LostIsOver' /\ t \notin unrecorded
  BY <1>2, LostStay DEF Reasons
<1>4. \A th \in Thread, u \in Turn : Reason(th, u) => Reason(th, u)'
  BY <1>2, <1>3, GoingOn DEF Reasons
<1>5. PICK th \in Thread : th = turn[t].thread
  BY <1>1
<1>6. Reason(th, t)'
  BY <1>1, <1>2, <1>5 DEF Reason
<1>7. QED
  BY <1>3, <1>4, <1>5, <1>6, Reopened DEF Reasons

(* The read of the end: a turn that reads another state than running is no *)
(* reason any more, but then nothing is asked of its thread.               *)
LEMMA FetchKeepsReasons ==
    ASSUME Parts, Reasons, NEW t \in Turn, FetchConversation(t)
    PROVE  Reasons'
<1> DEFINE row == [turn[t] EXCEPT !.pc = "record", !.copy = conversation[turn[t].thread]]
<1>1. turn \in [Turn -> TurnRow] /\ turn[t].pc = "fetch"
      /\ UNCHANGED <<conversation, unrecorded>> /\ turn' = [turn EXCEPT ![t] = row]
  BY DEF Parts, TurnsTyped, FetchConversation, At, rows
<1>2. row.pc = "record" /\ row.thread = turn[t].thread /\ row.copy = conversation[turn[t].thread]
  BY <1>1 DEF TurnRow
<1> HIDE DEF row
<1>3. LostIsOver' /\ t \notin unrecorded
  BY <1>1, LostStay DEF Reasons
<1>4. ASSUME NEW th \in Thread, conversation[th].status = "running"
      PROVE  \E u \in Turn : Reason(th, u)'
  <2>1. PICK u \in Turn : Reason(th, u)
    BY <1>4 DEF Reasons, RunningHasReason
  <2>2. Reason(th, u)'
    <3>1. CASE u # t
      BY <1>1, <2>1, <3>1 DEF Reason
    <3>2. CASE u = t
      BY <1>1, <1>2, <1>4, <2>1, <3>2 DEF Reason
    <3>3. QED
      BY <3>1, <3>2
  <2>3. QED
    BY <2>2
<1>5. QED
  BY <1>1, <1>3, <1>4 DEF Reasons, RunningHasReason

(* The write of the end.  If the turn read "running" it writes its outcome *)
(* over whatever is there; otherwise it was no reason, and it writes       *)
(* "running" never.                                                        *)
LEMMA RecordKeepsReasons ==
    ASSUME Parts, Reasons, NEW t \in Turn, RecordEnd(t)
    PROVE  Reasons'
<1> DEFINE th == turn[t].thread
           old == conversation[th]
           copy == turn[t].copy
           outcome == turn[t].outcome
           set == [copy EXCEPT !.status = outcome,
                               !.prompt = IF outcome = "waiting" THEN t ELSE None]
           new == Written(old, copy, set)
<1>1. turn[t].pc = "record" /\ UNCHANGED unrecorded /\ Goto(t, "report")
      /\ conversation' = [conversation EXCEPT ![th] = new]
  BY DEF RecordEnd, At
<1>2. turn \in [Turn -> TurnRow] /\ th \in Thread /\ copy \in Row /\ outcome \in Outcome
      /\ conversation \in [Thread -> Row]
  BY <1>1 DEF Parts, TurnsTyped, TurnRow, RowsTyped
<1>3. set.status = outcome
  BY <1>2 DEF Row
<1>4. new.status = Left(old.status, copy.status, outcome)
  BY <1>3 DEF Written
<1>5. outcome # "running"
  BY <1>2 DEF Outcome
<1>6. new.status = "running" => old.status = "running" /\ copy.status # "running"
  BY <1>4, <1>5 DEF Left
<1> HIDE DEF new, set
<1>7. PICK row : turn' = [turn EXCEPT ![t] = row]
  BY <1>1, GotoIsARow
<1>8. LostIsOver' /\ t \notin unrecorded
  BY <1>1, <1>7, LostStay DEF Reasons
<1>9. ASSUME NEW other \in Thread, conversation'[other].status = "running"
      PROVE  \E u \in Turn : Reason(other, u)'
  <2>1. conversation[other].status = "running" /\ (other = th => copy.status # "running")
    BY <1>1, <1>2, <1>6, <1>9
  <2>2. PICK u \in Turn : Reason(other, u)
    BY <2>1 DEF Reasons, RunningHasReason
  <2>3. u # t
    BY <1>1, <1>8, <2>1, <2>2 DEF Reason
  <2>4. Reason(other, u)'
    BY <1>1, <1>2, <1>7, <2>2, <2>3 DEF Reason
  <2>5. QED
    BY <2>4
<1>10. QED
  BY <1>8, <1>9 DEF Reasons, RunningHasReason

LEMMA CrashKeepsReasons == ASSUME Parts, Reasons, ProcessCrash PROVE Reasons'
<1>1. PICK dying \in SUBSET {t \in Turn : UnderWay(t)} :
        /\ turn' = [t \in Turn |-> IF t \in dying THEN [turn[t] EXCEPT !.pc = "dead"] ELSE turn[t]]
        /\ unrecorded' = unrecorded \cup dying
  BY DEF ProcessCrash
<1>2. UNCHANGED conversation /\ turn \in [Turn -> TurnRow] /\ unrecorded \subseteq Turn
  BY DEF ProcessCrash, rows, Parts, TurnsTyped, GhostsTyped
<1>3. ASSUME NEW t \in Turn
      PROVE  /\ turn'[t].thread = turn[t].thread
             /\ t \notin dying => turn'[t] = turn[t]
             /\ t \in dying => turn'[t].pc = "dead"
  <2>1. turn[t] \in TurnRow
    BY <1>2
  <2>2. QED
    BY <1>1, <2>1 DEF TurnRow
<1>4. \A th \in Thread, u \in Turn : Reason(th, u) => Reason(th, u)'
  BY <1>1, <1>3 DEF Reason
<1>5. LostIsOver'
  BY <1>1, <1>2, <1>3 DEF Reasons, LostIsOver
<1>6. QED
  BY <1>2, <1>4, <1>5, ReasonsStay DEF Reasons

(* One step of a request.                                                  *)
LEMMA ChatKeepsReasons ==
    ASSUME Parts, Reasons, NEW t \in Turn, Chat(t) \/ Disconnect(t)
    PROVE  Reasons'
<1>1. CASE FindConversation(t)
  <2> DEFINE row == [turn[t] EXCEPT !.pc = IF conversation[turn[t].thread] = Absent THEN "create" ELSE "reopen",
                                    !.copy = conversation[turn[t].thread]]
  <2>1. turn' = [turn EXCEPT ![t] = row] /\ turn[t].pc = "find" /\ UNCHANGED <<conversation, unrecorded>>
    BY <1>1 DEF FindConversation, At, rows
  <2> HIDE DEF row
  <2>2. QED
    BY <2>1, GoingOnKeepsReasons
<1>2. CASE CreateConversation(t)
  <2>1. CASE conversation[turn[t].thread] = Absent
    BY <1>2, <2>1, OpeningKeepsReasons DEF CreateConversation, At
  <2>2. CASE conversation[turn[t].thread] # Absent
    <3> DEFINE row == [turn[t] EXCEPT !.pc = "reopen", !.copy = conversation[turn[t].thread]]
    <3>1. turn' = [turn EXCEPT ![t] = row] /\ turn[t].pc = "create" /\ UNCHANGED <<conversation, unrecorded>>
      BY <1>2, <2>2 DEF CreateConversation, At
    <3> HIDE DEF row
    <3>2. QED
      BY <3>1, GoingOnKeepsReasons
  <2>3. QED
    BY <2>1, <2>2
<1>3. CASE ReopenConversation(t)
  BY <1>3, OpeningKeepsReasons DEF ReopenConversation, At
<1>4. CASE AppendQuestion(t) \/ LogRequest(t) \/ BeginRun(t) \/ ReportEnd(t)
  <2>1. PICK pc \in {"log", "accepted", "stream", "ended"} :
          /\ Goto(t, pc) /\ UNCHANGED <<conversation, unrecorded>>
          /\ turn[t].pc \in {"say", "log", "accepted", "report"}
          /\ pc = "ended" => turn[t].pc = "report"
    BY <1>4 DEF AppendQuestion, LogRequest, BeginRun, ReportEnd, At, rows
  <2>2. PICK row : turn' = [turn EXCEPT ![t] = row] /\ row.pc = pc /\ row.thread = turn[t].thread
    BY <2>1, GotoIsARow
  <2>3. QED
    BY <2>1, <2>2, GoingOnKeepsReasons
<1>5. CASE RequestRaises(t) \/ Drop(t)
  <2>1. PICK pc \in {"refused", "dropped"} :
          /\ Goto(t, pc) /\ UNCHANGED conversation /\ unrecorded' = unrecorded \cup {t}
          /\ turn[t].pc \notin {"refused", "dropped", "dead"}
    BY <1>5 DEF RequestRaises, Drop, rows
  <2>2. QED
    BY <2>1, LosingKeepsReasons
<1>6. CASE RefuseRun(t) \/ EndRun(t) \/ RunRaises(t) \/ Cancel(t)
           \/ (FinishRaises(t) /\ turn[t].serving)
  <2>1. /\ \E outcome, serving : Finishing(t, outcome, serving)
        /\ UNCHANGED <<conversation, unrecorded>>
        /\ turn[t].pc \notin {"refused", "dropped", "dead"}
    BY <1>6 DEF RefuseRun, EndRun, RunRaises, Cancel, FinishRaises, At, rows
  <2>2. PICK row : turn' = [turn EXCEPT ![t] = row] /\ row.pc = "fetch" /\ row.thread = turn[t].thread
    BY <2>1, FinishingIsARow
  <2>3. QED
    BY <2>1, <2>2, GoingOnKeepsReasons
<1>7. CASE FinishRaises(t) /\ ~turn[t].serving
  <2>1. /\ Goto(t, "dropped") /\ UNCHANGED conversation /\ unrecorded' = unrecorded \cup {t}
        /\ turn[t].pc \notin {"refused", "dropped", "dead"}
    BY <1>7 DEF FinishRaises, rows
  <2>2. QED
    BY <2>1, LosingKeepsReasons
<1>8. CASE FetchConversation(t)
  BY <1>8, FetchKeepsReasons
<1>9. CASE RecordEnd(t)
  BY <1>9, RecordKeepsReasons
<1>10. QED
  BY <1>1, <1>2, <1>3, <1>4, <1>5, <1>6, <1>7, <1>8, <1>9 DEF Chat, Disconnect

LEMMA ReasonStep == ReasonInv /\ [Next]_vars => ReasonInv'
<1> SUFFICES ASSUME Parts, Reasons, [Next]_vars PROVE Parts' /\ Reasons'
  BY DEF ReasonInv, Reasons
<1>1. Parts'
  BY TypeStep
<1>2. CASE UNCHANGED <<conversation, turn, unrecorded>>
  BY <1>1, <1>2 DEF Reasons, RunningHasReason, LostIsOver, Reason
<1>3. CASE ProcessCrash
  BY <1>1, <1>3, CrashKeepsReasons
<1>4. CASE \E t \in Turn : Chat(t) \/ Disconnect(t)
  BY <1>1, <1>4, ChatKeepsReasons
<1>5. CASE \E t \in Turn, th \in Thread : Receive(t, th)
  <2>1. PICK t \in Turn, th \in Thread : Receive(t, th)
    BY <1>5
  <2> DEFINE row == [turn[t] EXCEPT !.pc = "find", !.thread = th]
  <2>2. turn' = [turn EXCEPT ![t] = row] /\ turn[t].pc = "unsent" /\ UNCHANGED <<conversation, unrecorded>>
    BY <2>1 DEF Receive, At, rows
  <2> HIDE DEF row
  <2>3. QED
    BY <1>1, <2>2, GoingOnKeepsReasons
<1>6. CASE \E c \in Click : SetFeedback(c)
  <2>1. UNCHANGED <<conversation, turn, unrecorded>>
    BY <1>6 DEF SetFeedback, Rate, FindAnswer, LookRating, StoreRating, rows
  <2>2. QED
    BY <1>2, <2>1
<1>7. CASE UNCHANGED vars
  BY <1>2, <1>7 DEF vars, rows
<1>8. QED
  BY <1>1, <1>3, <1>4, <1>5, <1>6, <1>7 DEF Next

LEMMA ReasonInit == Init => ReasonInv
<1> SUFFICES ASSUME Init PROVE ReasonInv
  OBVIOUS
<1>1. Parts
  BY TypeInit
<1>2. \A th \in Thread : conversation[th].status = "absent"
  BY DEF Init, Absent
<1>3. QED
  BY <1>1, <1>2 DEF Init, ReasonInv, RunningHasReason, LostIsOver

(* However turns of a thread overlap, its row says "running" only while    *)
(* one is under way or after the end of one was lost.                      *)
THEOREM RunningCorrect == Spec => []RunningIsUnderWay
<1>1. Init => ReasonInv
  BY ReasonInit
<1>2. ReasonInv /\ [Next]_vars => ReasonInv'
  BY ReasonStep
<1>3. ReasonInv => RunningIsUnderWay
  BY DEF ReasonInv, RunningHasReason, RunningIsUnderWay, Reason, UnderWay
<1>4. QED
  BY <1>1, <1>2, <1>3, PTL DEF Spec

-----------------------------------------------------------------------------
(* The tab in front of the server.                                         *)

LEMMA ShownStep == shown \in Thread /\ [SessionNext]_all => (shown \in Thread)'
<1> SUFFICES ASSUME shown \in Thread, [SessionNext]_all PROVE shown' \in Thread
  OBVIOUS
<1>1. CASE UNCHANGED all
  BY <1>1 DEF all, page, shell
<1>2. CASE Server
  BY <1>2 DEF Server, page, shell
<1>3. CASE Tab
  BY <1>3 DEF Tab, Send, Deliver, LoseStream, Stop, ResumeSession, Reload, LoadSession,
              GetTask, LoadArrives, LoadFails, RateAnswer, Show, shell
<1>4. QED
  BY <1>1, <1>2, <1>3 DEF SessionNext

LEMMA TabSteps == shown \in Thread /\ [SessionNext]_all => [Next]_vars
<1> SUFFICES ASSUME shown \in Thread, SessionNext PROVE Next \/ UNCHANGED vars
  BY DEF all
<1>1. CASE Server
  BY <1>1 DEF Server, Next, SetFeedback
<1>2. CASE \E t \in Turn : Send(t)
  <2>1. \E t \in Turn, th \in Thread : Receive(t, th)
    BY <1>2 DEF Send
  <2>2. QED
    BY <2>1 DEF Next
<1>3. CASE \E c \in Click : RateAnswer(c)
  <2>1. \E c \in Click, th \in Thread : Rate(c, th)
    BY <1>3 DEF RateAnswer
  <2>2. QED
    BY <2>1 DEF Next, SetFeedback
<1>4. CASE UNCHANGED vars
  BY <1>4
<1>5. ASSUME Tab
      PROVE  (\E t \in Turn : Send(t)) \/ (\E c \in Click : RateAnswer(c)) \/ UNCHANGED vars
  BY <1>5 DEF Tab, Deliver, LoseStream, Stop, ResumeSession, Reload, LoadSession, GetTask,
              LoadArrives, LoadFails
<1>6. QED
  BY <1>1, <1>2, <1>3, <1>4, <1>5 DEF SessionNext

(* The browser does to the server only what any client may do: what holds  *)
(* of ChatTurn for arbitrary clients holds behind the tab.                 *)
THEOREM SessionIsAChat == SessionSpec => Spec
<1>1. SessionInit => Init /\ shown \in Thread
  BY DEF SessionInit
<1>2. QED
  BY <1>1, ShownStep, TabSteps, PTL DEF SessionSpec, Spec

-----------------------------------------------------------------------------
(* TurnsAreRecorded and EventsAgreeWithRow.  As long as no two turns of a  *)
(* thread ran side by side, the one under way is alone with the rows: its  *)
(* question is the last, what it read is still there, and what it wrote    *)
(* stays until another turn asks.                                          *)

Questions(th) == {i \in DOMAIN messages[th] : messages[th][i].role = "user"}
Asked(th, u) == \E i \in Questions(th) : messages[th][i].turn = u
AskedLast(th, u) ==
    \E i \in Questions(th) : messages[th][i].turn = u /\ \A j \in Questions(th) : j <= i

\* A question is that of a turn of the thread which has got that far.
QuestionsInv ==
    /\ \A t \in Turn : turn[t].pc = "unsent" => turn[t].thread = None
    /\ \A th \in Thread, t \in Turn : Asked(th, t) =>
         /\ turn[t].thread = th
         /\ turn[t].pc \notin {"unsent", "find", "create", "reopen", "say"}

Alone(th) ==
    \A t, u \in Turn :
        (UnderWay(t) /\ turn[t].thread = th /\ UnderWay(u) /\ turn[u].thread = th) => t = u

\* The row and the last message tell the outcome of t.
Ends(th, t) ==
    /\ conversation[th].status = turn[t].outcome
    /\ conversation[th].prompt = IF turn[t].outcome = "waiting" THEN t ELSE None
    /\ turn[t].outcome # "cancelled" =>
         messages[th][Len(messages[th])] = [role |-> Role(turn[t].outcome), turn |-> t]

Ongoing(th, t) == turn[t].thread = th =>
    /\ turn[t].pc \in {"log", "accepted", "stream", "fetch", "record", "report"} => AskedLast(th, t)
    /\ turn[t].pc \in {"reopen", "record"} => turn[t].copy = conversation[th]
    /\ turn[t].pc = "report" => Ends(th, t)

\* Unless one was lost before it asked, the turns that asked or are about to
\* are those whose attachment is counted.
Openers(th) == {u \in Turn : turn[u].thread = th /\ (Asked(th, u) \/ turn[u].pc = "say")}
Counted(th) ==
    (\A u \in Turn : turn[u].thread = th => Asked(th, u) \/ UnderWay(u)) =>
        IsFiniteSet(Openers(th)) /\ conversation[th].attached = Cardinality(Openers(th))

Told(th, t) ==
    /\ Ends(th, t)
    /\ conversation[th].attached = Cardinality({u \in Turn : turn[u].thread = th})
    /\ latest[th] = turn[t].outcome

ThreadInv(th) == th \notin overlapped =>
    /\ Alone(th)
    /\ Counted(th)
    /\ \A t \in Turn : Ongoing(th, t) /\ (Settled(th, t) => Told(th, t))

RecordInv == QuestionsInv /\ \A th \in Thread : ThreadInv(th)

(* Settled, in these words, of the next state.                             *)
LEMMA SettledMeans ==
    \A th \in Thread, t \in Turn : Settled(th, t)' <=>
        /\ th \notin overlapped' /\ turn'[t].pc = "ended" /\ AskedLast(th, t)'
        /\ \A u \in Turn : turn'[u].thread = th => Asked(th, u)'
BY DEF Settled, AskedLast, Asked, Questions

(* One question is the last.                                               *)
LEMMA OneIsLast ==
    ASSUME Parts', NEW th \in Thread, NEW t, NEW u, AskedLast(th, t)', AskedLast(th, u)'
    PROVE  t = u
<1>1. Questions(th)' \subseteq Nat
  BY DEF Parts, RowsTyped, Questions
<1>2. QED
  BY <1>1 DEF AskedLast

(* A message is added to a thread.                                         *)
LEMMA Said ==
    ASSUME Parts, NEW th \in Thread, NEW m \in Message, messages'[th] = Append(messages[th], m)
    PROVE  /\ m.role = "user" => \A u : /\ Asked(th, u)' <=> Asked(th, u) \/ u = m.turn
                                        /\ AskedLast(th, u)' <=> u = m.turn
           /\ m.role # "user" => \A u : /\ Asked(th, u)' <=> Asked(th, u)
                                        /\ AskedLast(th, u)' <=> AskedLast(th, u)
           /\ messages'[th][Len(messages'[th])] = m
<1> DEFINE old == messages[th]
           new == messages'[th]
           n == Len(old)
<1>1. old \in Seq(Message)
  BY DEF Parts, RowsTyped
<1>2. /\ n \in Nat /\ DOMAIN old = 1..n /\ DOMAIN new = 1..(n + 1) /\ Len(new) = n + 1
      /\ new[n + 1] = m /\ \A i \in 1..n : new[i] = old[i]
  BY <1>1
<1> HIDE DEF n
<1>3. ASSUME m.role # "user" PROVE Questions(th)' = Questions(th)
  BY <1>2, <1>3 DEF Questions
<1>4. ASSUME m.role = "user" PROVE Questions(th)' = Questions(th) \cup {n + 1}
  BY <1>2, <1>4 DEF Questions
<1>5. Questions(th) \subseteq 1..n
  BY <1>2 DEF Questions
<1>6. ASSUME m.role # "user", NEW u
      PROVE  (Asked(th, u)' <=> Asked(th, u)) /\ (AskedLast(th, u)' <=> AskedLast(th, u))
  BY <1>2, <1>3, <1>5, <1>6 DEF Asked, AskedLast
<1>7. ASSUME m.role = "user", NEW u
      PROVE  Asked(th, u)' <=> Asked(th, u) \/ u = m.turn
  BY <1>2, <1>4, <1>5, <1>7 DEF Asked
<1>8. ASSUME m.role = "user", NEW u
      PROVE  AskedLast(th, u)' <=> u = m.turn
  <2>1. \A j \in Questions(th)' : j <= n + 1
    BY <1>2, <1>4, <1>5, <1>8
  <2>2. n + 1 \in Questions(th)' /\ \A i \in Questions(th)' : n + 1 <= i => i = n + 1
    BY <1>2, <1>4, <1>5, <1>8
  <2>3. QED
    BY <1>2, <2>1, <2>2 DEF AskedLast
<1>9. QED
  BY <1>2, <1>6, <1>7, <1>8

(* A thread none of whose rows and turns a step touches.                   *)
LEMMA ThreadUntouched ==
    ASSUME QuestionsInv, NEW th \in Thread, ThreadInv(th), overlapped \subseteq overlapped',
           conversation'[th] = conversation[th], messages'[th] = messages[th], latest'[th] = latest[th],
           \A u \in Turn : turn'[u] = turn[u] \/ (turn[u].thread # th /\ turn'[u].thread # th)
    PROVE  ThreadInv(th)'
<1> SUFFICES ASSUME th \notin overlapped' PROVE ThreadInv(th)'
  BY DEF ThreadInv
<1>1. /\ th \notin overlapped /\ Alone(th) /\ Counted(th)
      /\ \A t \in Turn : Ongoing(th, t) /\ (Settled(th, t) => Told(th, t))
  BY DEF ThreadInv
<1>2. Questions(th)' = Questions(th)
  BY DEF Questions
<1>3. \A u : (Asked(th, u)' <=> Asked(th, u)) /\ (AskedLast(th, u)' <=> AskedLast(th, u))
  BY <1>2 DEF Asked, AskedLast
<1>4. Openers(th)' = Openers(th)
  BY <1>3 DEF Openers
<1>5. {u \in Turn : turn'[u].thread = th} = {u \in Turn : turn[u].thread = th}
  OBVIOUS
<1>6. Alone(th)'
  BY <1>1 DEF Alone, UnderWay
<1>7. Counted(th)'
  BY <1>1, <1>3, <1>4 DEF Counted, UnderWay
<1>8. ASSUME NEW t \in Turn, turn'[t] = turn[t]
      PROVE  Ongoing(th, t)' /\ (Settled(th, t)' => Told(th, t)')
  <2>1. Ongoing(th, t)'
    BY <1>1, <1>3, <1>8 DEF Ongoing, Ends
  <2>2. Settled(th, t)' => Settled(th, t)
    <3>1. (\A u \in Turn : turn'[u].thread = th => Asked(th, u)') =>
            \A u \in Turn : turn[u].thread = th => Asked(th, u)
      BY <1>3
    <3>2. Questions(th)' = Questions(th) /\ messages'[th] = messages[th]
      BY <1>2
    <3>3. QED
      BY <1>1, <1>8, <3>1, <3>2 DEF Settled, Questions, Asked
  <2>3. Told(th, t) => Told(th, t)'
    BY <1>5, <1>8 DEF Told, Ends
  <2>4. QED
    BY <1>1, <2>1, <2>2, <2>3
<1>9. ASSUME NEW t \in Turn, turn[t].thread # th, turn'[t].thread # th
      PROVE  Ongoing(th, t)' /\ ~Settled(th, t)'
  <2>1. Ongoing(th, t)'
    BY <1>9 DEF Ongoing
  <2>2. ~Asked(th, t)
    BY <1>9 DEF QuestionsInv
  <2>3. Settled(th, t)' => AskedLast(th, t)'
    BY SettledMeans
  <2>4. QED
    BY <1>3, <2>1, <2>2, <2>3 DEF AskedLast, Asked
<1>10. QED
  BY <1>1, <1>6, <1>7, <1>8, <1>9 DEF ThreadInv

(* A thread of which one turn takes a step while no other is under way.    *)
LEMMA OwnKeeps ==
    ASSUME Parts', QuestionsInv', NEW th \in Thread, NEW t \in Turn, turn'[t].thread = th,
           \A u \in Turn \ {t} : \/ turn'[u] = turn[u] /\ (turn[u].thread = th => ~UnderWay(u))
                                 \/ turn'[u].thread # th,
           Ongoing(th, t)', Counted(th)', Asked(th, t)' => AskedLast(th, t)',
           Settled(th, t)' => Told(th, t)'
    PROVE  ThreadInv(th)'
<1>1. \A u \in Turn \ {t} : turn'[u].thread = th => ~UnderWay(u)'
  BY DEF UnderWay
<1>2. Alone(th)'
  <2>1. \A u \in Turn : UnderWay(u)' /\ turn'[u].thread = th => u = t
    BY <1>1
  <2>2. QED
    BY <2>1 DEF Alone
<1>3. \A u \in Turn \ {t} : Ongoing(th, u)'
  BY <1>1 DEF Ongoing, UnderWay
<1>4. ASSUME NEW u \in Turn, u # t PROVE ~Settled(th, u)'
  <2>1. Settled(th, u)' => /\ AskedLast(th, u)'
                           /\ \A v \in Turn : turn'[v].thread = th => Asked(th, v)'
    BY SettledMeans
  <2>2. AskedLast(th, u)' /\ AskedLast(th, t)' => t = u
    BY OneIsLast
  <2>3. QED
    BY <1>4, <2>1, <2>2
<1>5. QED
  BY <1>2, <1>3, <1>4 DEF ThreadInv

(* One turn that is under way takes a step.                                *)
OthersKept(th) ==
    \A x \in Thread \ {th} : /\ conversation'[x] = conversation[x]
                             /\ messages'[x] = messages[x]
                             /\ latest'[x] = latest[x]

LEMMA TurnStep ==
    ASSUME Parts, Parts', RecordInv, NEW t \in Turn, NEW th \in Thread, th = turn[t].thread,
           UnderWay(t), \A u \in Turn \ {t} : turn'[u] = turn[u], turn'[t].thread = th,
           overlapped' = overlapped, OthersKept(th), QuestionsInv',
           th \notin overlapped /\ ThreadInv(th) =>
             /\ Ongoing(th, t)' /\ Counted(th)'
             /\ Asked(th, t)' => AskedLast(th, t)'
             /\ Settled(th, t)' => Told(th, t)'
    PROVE  RecordInv'
<1>1. ASSUME NEW x \in Thread, x # th PROVE ThreadInv(x)'
  <2>1. \A u \in Turn : turn'[u] = turn[u] \/ (turn[u].thread # x /\ turn'[u].thread # x)
    BY <1>1
  <2>2. QED
    BY <1>1, <2>1, ThreadUntouched DEF RecordInv, OthersKept
<1>2. ASSUME th \notin overlapped PROVE ThreadInv(th)'
  <2>1. ThreadInv(th)
    BY DEF RecordInv
  <2>2. \A u \in Turn \ {t} : turn[u].thread = th => ~UnderWay(u)
    BY <1>2, <2>1 DEF ThreadInv, Alone
  <2>3. QED
    BY <1>2, <2>1, <2>2, OwnKeeps
<1>3. th \in overlapped => ThreadInv(th)'
  BY DEF ThreadInv
<1>4. QED
  BY <1>1, <1>2, <1>3 DEF RecordInv

(* What is asked stays so while no message is added.                       *)
LEMMA Silent ==
    ASSUME messages' = messages
    PROVE  \A th, u : (Asked(th, u)' <=> Asked(th, u)) /\ (AskedLast(th, u)' <=> AskedLast(th, u))
<1>1. \A th : Questions(th)' = Questions(th)
  BY DEF Questions
<1>2. QED
  BY <1>1 DEF Asked, AskedLast

(* A turn that steps on, or is lost, leaves the count alone.               *)
LEMMA CountStays ==
    ASSUME NEW th \in Thread, NEW t \in Turn, turn[t].thread = th, UnderWay(t),
           \A u \in Turn \ {t} : turn'[u] = turn[u], turn'[t].thread = th,
           \A u \in Turn : Asked(th, u)' <=> Asked(th, u),
           conversation'[th].attached = conversation[th].attached,
           \/ Asked(th, t) \/ ~UnderWay(t)'
           \/ turn[t].pc # "say" /\ turn'[t].pc # "say",
           Counted(th)
    PROVE  Counted(th)'
<1> SUFFICES ASSUME \A u \in Turn : turn'[u].thread = th => Asked(th, u)' \/ UnderWay(u)'
             PROVE  /\ IsFiniteSet(Openers(th)')
                    /\ conversation'[th].attached = Cardinality(Openers(th)')
  BY DEF Counted
<1>1. \A u \in Turn : turn[u].thread = th => Asked(th, u) \/ UnderWay(u)
  BY DEF UnderWay
<1>2. Asked(th, t) \/ UnderWay(t)'
  OBVIOUS
<1>3. Openers(th)' = Openers(th)
  BY <1>2 DEF Openers
<1>4. QED
  BY <1>1, <1>3 DEF Counted

Talking == {"log", "accepted", "stream", "fetch", "record", "report"}

(* A step that adds no message and leaves the row alone.                   *)
LEMMA Plain ==
    ASSUME Parts, Parts', RecordInv, NEW t \in Turn, UnderWay(t), NEW row, row.thread = turn[t].thread,
           turn' = [turn EXCEPT ![t] = row],
           row.pc \notin {"unsent", "find", "say", "report", "ended"},
           row.pc \in Talking => turn[t].pc \in Talking,
           row.pc \in {"create", "reopen"} => turn[t].pc \in {"find", "create"},
           row.pc \in {"reopen", "record"} => row.copy = conversation[turn[t].thread],
           turn[t].pc = "say" => row.pc \in {"refused", "dropped", "dead"},
           conversation' = conversation, messages' = messages, overlapped' = overlapped,
           \A x \in Thread \ {turn[t].thread} : latest'[x] = latest[x]
    PROVE  RecordInv'
<1>1. turn'[t] = row /\ \A u \in Turn \ {t} : turn'[u] = turn[u]
  BY DEF Parts, TurnsTyped
<1>2. PICK th \in Thread : th = turn[t].thread
  BY DEF Parts, TurnsTyped, UnderWay
<1>3. \A x, u : (Asked(x, u)' <=> Asked(x, u)) /\ (AskedLast(x, u)' <=> AskedLast(x, u))
  BY Silent
<1>4. QuestionsInv'
  <2>1. \A u \in Turn : turn'[u].pc = "unsent" => turn'[u].thread = None
    BY <1>1 DEF RecordInv, QuestionsInv
  <2>2. ASSUME NEW x \in Thread, NEW u \in Turn, Asked(x, u)
        PROVE  /\ turn'[u].thread = x
               /\ turn'[u].pc \notin {"unsent", "find", "create", "reopen", "say"}
    <3>1. /\ turn[u].thread = x
          /\ turn[u].pc \notin {"unsent", "find", "create", "reopen", "say"}
      BY <2>2 DEF RecordInv, QuestionsInv
    <3>2. QED
      BY <1>1, <3>1
  <2>3. QED
    BY <1>3, <2>1, <2>2 DEF QuestionsInv
<1>5. ASSUME th \notin overlapped, ThreadInv(th)
      PROVE  /\ Ongoing(th, t)' /\ Counted(th)'
             /\ Asked(th, t)' => AskedLast(th, t)'
             /\ Settled(th, t)' => Told(th, t)'
  <2>1. Counted(th) /\ Ongoing(th, t)
    BY <1>5 DEF ThreadInv
  <2>2. turn[t].pc \in Talking => AskedLast(th, t)
    BY <1>2, <2>1 DEF Ongoing, Talking
  <2>3. Asked(th, t) => turn[t].pc \in Talking
    BY <1>2 DEF RecordInv, QuestionsInv, Talking, UnderWay, Parts, TurnsTyped, TurnRow, Step
  <2>4. Ongoing(th, t)'
    BY <1>1, <1>2, <1>3, <2>2 DEF Ongoing, Talking
  <2>5. Counted(th)'
    <3>1. ~UnderWay(t)' \/ (turn[t].pc # "say" /\ turn'[t].pc # "say")
      BY <1>1 DEF UnderWay
    <3>2. turn'[t].thread = th /\ turn[t].thread = th
      BY <1>1, <1>2
    <3>3. QED
      BY <1>1, <1>2, <1>3, <2>1, <3>1, <3>2, CountStays
  <2>6. ~Settled(th, t)'
    BY <1>1 DEF Settled
  <2>7. QED
    BY <1>3, <2>2, <2>3, <2>4, <2>5, <2>6
<1>6. OthersKept(th)
  BY <1>2 DEF OthersKept
<1>7. turn'[t].thread = th /\ turn[t].thread = th
  BY <1>1, <1>2
<1>8. QED
  BY <1>1, <1>2, <1>4, <1>5, <1>6, <1>7, TurnStep

(* The steps that only move on.                                            *)
LEMMA RequestKeepsRecord ==
    ASSUME Parts, Parts', RecordInv, NEW t \in Turn,
           FindConversation(t) \/ LogRequest(t) \/ RequestRaises(t) \/ BeginRun(t)
    PROVE  RecordInv'
<1> DEFINE th == turn[t].thread
<1>1. CASE FindConversation(t)
  <2> DEFINE row == [turn[t] EXCEPT !.pc = IF conversation[th] = Absent THEN "create" ELSE "reopen",
                                    !.copy = conversation[th]]
  <2>1. turn' = [turn EXCEPT ![t] = row] /\ turn[t].pc = "find"
    BY <1>1 DEF FindConversation, At
  <2>2. /\ row.thread = th /\ row.copy = conversation[th] /\ row.pc \in {"create", "reopen"}
    BY DEF Parts, TurnsTyped, TurnRow
  <2>3. conversation' = conversation /\ messages' = messages /\ latest' = latest /\ overlapped' = overlapped
    BY <1>1 DEF FindConversation, rows
  <2> HIDE DEF row
  <2>4. QED
    BY <2>1, <2>2, <2>3, Plain DEF Talking, UnderWay
<1>2. CASE LogRequest(t)
  <2> DEFINE row == [turn[t] EXCEPT !.pc = "accepted"]
  <2>1. turn' = [turn EXCEPT ![t] = row] /\ turn[t].pc = "log"
    BY <1>2 DEF LogRequest, At, Goto
  <2>2. row.thread = th /\ row.pc = "accepted"
    BY DEF Parts, TurnsTyped, TurnRow
  <2>3. /\ conversation' = conversation /\ messages' = messages /\ overlapped' = overlapped
        /\ \A x \in Thread \ {turn[t].thread} : latest'[x] = latest[x]
    BY <1>2 DEF LogRequest, Parts, RowsTyped
  <2> HIDE DEF row
  <2>4. QED
    BY <2>1, <2>2, <2>3, Plain DEF Talking, UnderWay
<1>3. CASE RequestRaises(t)
  <2> DEFINE row == [turn[t] EXCEPT !.pc = "refused"]
  <2>1. turn' = [turn EXCEPT ![t] = row] /\ turn[t].pc \in {"find", "create", "reopen", "say", "log"}
    BY <1>3 DEF RequestRaises, Goto
  <2>2. row.thread = th /\ row.pc = "refused"
    BY DEF Parts, TurnsTyped, TurnRow
  <2>3. conversation' = conversation /\ messages' = messages /\ latest' = latest /\ overlapped' = overlapped
    BY <1>3 DEF RequestRaises, rows
  <2> HIDE DEF row
  <2>4. QED
    BY <2>1, <2>2, <2>3, Plain DEF Talking, UnderWay
<1>4. CASE BeginRun(t)
  <2> DEFINE row == [turn[t] EXCEPT !.pc = "stream"]
  <2>1. turn' = [turn EXCEPT ![t] = row] /\ turn[t].pc = "accepted"
    BY <1>4 DEF BeginRun, Goto, At
  <2>2. row.thread = th /\ row.pc = "stream"
    BY DEF Parts, TurnsTyped, TurnRow
  <2>3. conversation' = conversation /\ messages' = messages /\ latest' = latest /\ overlapped' = overlapped
    BY <1>4 DEF BeginRun, rows
  <2> HIDE DEF row
  <2>4. QED
    BY <2>1, <2>2, <2>3, Plain DEF Talking, UnderWay
<1>5. QED
  BY <1>1, <1>2, <1>3, <1>4

(* The turn is to be finished, or lost.                                    *)
LEMMA FinishingKeepsRecord ==
    ASSUME Parts, Parts', RecordInv, NEW t \in Turn, turn[t].pc \in Talking,
           NEW outcome, NEW serving, Finishing(t, outcome, serving),
           rows' = rows, overlapped' = overlapped
    PROVE  RecordInv'
<1> DEFINE row == [turn[t] EXCEPT !.pc = "fetch", !.outcome = outcome, !.serving = serving]
<1>1. turn' = [turn EXCEPT ![t] = row]
  BY DEF Finishing
<1>2. row.thread = turn[t].thread /\ row.pc = "fetch"
  BY DEF Parts, TurnsTyped, TurnRow
<1>3. conversation' = conversation /\ messages' = messages /\ latest' = latest
  BY DEF rows
<1> HIDE DEF row
<1>4. QED
  BY <1>1, <1>2, <1>3, Plain DEF Talking, UnderWay

LEMMA DroppedKeepsRecord ==
    ASSUME Parts, Parts', RecordInv, NEW t \in Turn, turn[t].pc \in Talking, Goto(t, "dropped"),
           rows' = rows, overlapped' = overlapped
    PROVE  RecordInv'
<1> DEFINE row == [turn[t] EXCEPT !.pc = "dropped"]
<1>1. turn' = [turn EXCEPT ![t] = row]
  BY DEF Goto
<1>2. row.thread = turn[t].thread /\ row.pc = "dropped"
  BY DEF Parts, TurnsTyped, TurnRow
<1>3. conversation' = conversation /\ messages' = messages /\ latest' = latest
  BY DEF rows
<1> HIDE DEF row
<1>4. QED
  BY <1>1, <1>2, <1>3, Plain DEF Talking, UnderWay

LEMMA RunKeepsRecord ==
    ASSUME Parts, Parts', RecordInv, NEW t \in Turn,
           \/ RefuseRun(t) \/ EndRun(t) \/ RunRaises(t) \/ Disconnect(t)
           \/ FetchConversation(t) \/ FinishRaises(t)
    PROVE  RecordInv'
<1>1. CASE RefuseRun(t)
  BY <1>1, FinishingKeepsRecord DEF RefuseRun, At, Talking
<1>2. CASE EndRun(t)
  <2>1. PICK outcome \in {"completed", "waiting", "failed"} : Finishing(t, outcome, TRUE)
    BY <1>2 DEF EndRun
  <2>2. QED
    BY <1>2, <2>1, FinishingKeepsRecord DEF EndRun, At, Talking
<1>3. CASE RunRaises(t)
  BY <1>3, FinishingKeepsRecord DEF RunRaises, At, Talking
<1>4. CASE Cancel(t)
  BY <1>4, FinishingKeepsRecord DEF Cancel, Talking
<1>5. CASE Drop(t)
  BY <1>5, DroppedKeepsRecord DEF Drop, Talking, rows
<1>6. CASE FetchConversation(t)
  <2> DEFINE th == turn[t].thread
             row == [turn[t] EXCEPT !.pc = "record", !.copy = conversation[th]]
  <2>1. turn' = [turn EXCEPT ![t] = row] /\ turn[t].pc = "fetch"
    BY <1>6 DEF FetchConversation, At
  <2>2. row.thread = th /\ row.copy = conversation[th] /\ row.pc = "record"
    BY DEF Parts, TurnsTyped, TurnRow
  <2>3. conversation' = conversation /\ messages' = messages /\ latest' = latest /\ overlapped' = overlapped
    BY <1>6 DEF FetchConversation, rows
  <2> HIDE DEF row
  <2>4. QED
    BY <2>1, <2>2, <2>3, Plain DEF Talking, UnderWay
<1>7. CASE FinishRaises(t)
  <2>1. turn[t].pc \in Talking /\ rows' = rows /\ overlapped' = overlapped
    BY <1>7 DEF FinishRaises, Talking, rows
  <2>2. Finishing(t, "failed", FALSE) \/ Goto(t, "dropped")
    BY <1>7 DEF FinishRaises
  <2>3. QED
    BY <2>1, <2>2, FinishingKeepsRecord, DroppedKeepsRecord
<1>8. QED
  BY <1>1, <1>2, <1>3, <1>4, <1>5, <1>6, <1>7 DEF Disconnect

(* A turn that has not got to its question has not asked it.               *)
LEMMA NotYetAsked ==
    ASSUME RecordInv, NEW t \in Turn, NEW th \in Thread, turn[t].pc \in {"unsent", "find", "create", "reopen", "say"}
    PROVE  ~Asked(th, t)
BY DEF RecordInv, QuestionsInv

(* The row is made or opened again for one more attachment.                *)
LEMMA OpenedKeepsRecord ==
    ASSUME Parts, Parts', RecordInv, NEW t \in Turn, turn[t].pc \in {"create", "reopen"},
           NEW th \in Thread, th = turn[t].thread, Goto(t, "say"),
           th \notin overlapped => conversation'[th].attached = conversation[th].attached + 1,
           \A x \in Thread \ {th} : conversation'[x] = conversation[x],
           messages' = messages, latest' = latest, overlapped' = overlapped
    PROVE  RecordInv'
<1> DEFINE row == [turn[t] EXCEPT !.pc = "say"]
<1>1. row.thread = th /\ row.pc = "say"
  BY DEF Parts, TurnsTyped, TurnRow
<1>2. turn'[t] = row /\ \A u \in Turn \ {t} : turn'[u] = turn[u]
  BY DEF Goto, Parts, TurnsTyped
<1> HIDE DEF row
<1>3. \A x, u : (Asked(x, u)' <=> Asked(x, u)) /\ (AskedLast(x, u)' <=> AskedLast(x, u))
  BY Silent
<1>4. QuestionsInv'
  BY <1>1, <1>2, <1>3 DEF RecordInv, QuestionsInv
<1>5. ~Asked(th, t) /\ ~Asked(th, t)'
  BY <1>3, NotYetAsked
<1>6. ASSUME th \notin overlapped, ThreadInv(th)
      PROVE  Counted(th)'
  <2> SUFFICES ASSUME \A u \in Turn : turn'[u].thread = th => Asked(th, u)' \/ UnderWay(u)'
               PROVE  /\ IsFiniteSet(Openers(th)')
                      /\ conversation'[th].attached = Cardinality(Openers(th)')
    BY DEF Counted
  <2>1. \A u \in Turn : turn[u].thread = th => Asked(th, u) \/ UnderWay(u)
    BY <1>2, <1>3 DEF UnderWay
  <2>2. IsFiniteSet(Openers(th)) /\ conversation[th].attached = Cardinality(Openers(th))
    BY <1>6, <2>1 DEF ThreadInv, Counted
  <2>3. Openers(th)' = Openers(th) \cup {t}
    BY <1>1, <1>2, <1>3 DEF Openers
  <2>4. t \notin Openers(th)
    BY <1>5 DEF Openers
  <2>5. QED
    BY <1>6, <2>2, <2>3, <2>4, FS_AddElement
<1>7. Ongoing(th, t)' /\ ~Settled(th, t)'
  BY <1>1, <1>2 DEF Ongoing, Settled
<1>8. OthersKept(th) /\ UnderWay(t) /\ turn'[t].thread = th
  BY <1>1, <1>2 DEF OthersKept, UnderWay
<1>9. QED
  BY <1>2, <1>4, <1>5, <1>6, <1>7, <1>8, TurnStep

LEMMA OpenKeepsRecord ==
    ASSUME Parts, Parts', RecordInv, NEW t \in Turn, CreateConversation(t) \/ ReopenConversation(t)
    PROVE  RecordInv'
<1> DEFINE th == turn[t].thread
<1>1. th \in Thread
  BY DEF Parts, TurnsTyped, CreateConversation, ReopenConversation, At
<1>2. CASE CreateConversation(t) /\ conversation[th] = Absent
  <2>1. /\ turn[t].pc = "create" /\ Goto(t, "say")
        /\ messages' = messages /\ latest' = latest /\ overlapped' = overlapped
        /\ conversation' = [conversation EXCEPT ![th] =
                [status |-> "running", prompt |-> None, attached |-> 1]]
    BY <1>2 DEF CreateConversation, At
  <2>2. conversation[th].attached = 0
    BY <1>2 DEF Absent
  <2>3. conversation'[th].attached = 1 /\ \A x \in Thread \ {th} : conversation'[x] = conversation[x]
    BY <1>1, <2>1 DEF Parts, RowsTyped
  <2> HIDE DEF th
  <2>4. QED
    BY <1>1, <2>1, <2>2, <2>3, OpenedKeepsRecord DEF th
<1>3. CASE CreateConversation(t) /\ conversation[th] # Absent
  <2> DEFINE row == [turn[t] EXCEPT !.pc = "reopen", !.copy = conversation[th]]
  <2>1. turn' = [turn EXCEPT ![t] = row] /\ turn[t].pc = "create"
    BY <1>3 DEF CreateConversation, At
  <2>2. row.thread = th /\ row.copy = conversation[th] /\ row.pc = "reopen"
    BY DEF Parts, TurnsTyped, TurnRow
  <2>3. conversation' = conversation /\ messages' = messages /\ latest' = latest /\ overlapped' = overlapped
    BY <1>3 DEF CreateConversation
  <2> HIDE DEF row
  <2>4. QED
    BY <2>1, <2>2, <2>3, Plain DEF Talking, UnderWay
<1>4. CASE ReopenConversation(t)
  <2> DEFINE copy == turn[t].copy
             new == [status |-> "running", prompt |-> None, attached |-> copy.attached + 1]
  <2>1. /\ turn[t].pc = "reopen" /\ Goto(t, "say")
        /\ messages' = messages /\ latest' = latest /\ overlapped' = overlapped
        /\ conversation' = [conversation EXCEPT ![th] = Written(conversation[th], copy, new)]
    BY <1>4 DEF ReopenConversation, At
  <2>2. /\ conversation'[th] = Written(conversation[th], copy, new)
        /\ \A x \in Thread \ {th} : conversation'[x] = conversation[x]
    BY <1>1, <2>1 DEF Parts, RowsTyped
  <2>3. ASSUME th \notin overlapped PROVE copy = conversation[th]
    BY <1>1, <2>1, <2>3 DEF RecordInv, ThreadInv, Ongoing
  <2>4. ASSUME th \notin overlapped PROVE conversation'[th].attached = conversation[th].attached + 1
    BY <2>2, <2>3, <2>4 DEF Written, Left
  <2> HIDE DEF th
  <2>5. QED
    BY <1>1, <2>1, <2>2, <2>4, OpenedKeepsRecord DEF th
<1>5. QED
  BY <1>2, <1>3, <1>4

(* The question is stored.                                                 *)
LEMMA QuestionKeepsRecord ==
    ASSUME Parts, Parts', RecordInv, NEW t \in Turn, AppendQuestion(t)
    PROVE  RecordInv'
<1>0. PICK th \in Thread : th = turn[t].thread
  BY DEF AppendQuestion, At, Parts, TurnsTyped
<1> DEFINE row == [turn[t] EXCEPT !.pc = "log"]
           m == [role |-> "user", turn |-> t]
<1>1. turn[t].pc = "say" /\ th \in Thread /\ turn[t].thread = th
  BY <1>0 DEF AppendQuestion, At, Parts, TurnsTyped
<1>2. row.thread = th /\ row.pc = "log" /\ m.role = "user" /\ m.turn = t /\ m \in Message
  BY <1>0 DEF Parts, TurnsTyped, TurnRow, Message
<1>3. /\ turn' = [turn EXCEPT ![t] = row] /\ messages' = [messages EXCEPT ![th] = Append(@, m)]
      /\ conversation' = conversation /\ latest' = latest /\ overlapped' = overlapped
  BY <1>0 DEF AppendQuestion, Goto
<1> HIDE DEF m, row
<1>4. turn'[t] = row /\ \A u \in Turn \ {t} : turn'[u] = turn[u]
  BY <1>3 DEF Parts, TurnsTyped
<1>5. /\ messages'[th] = Append(messages[th], m)
      /\ \A x \in Thread \ {th} : messages'[x] = messages[x]
  BY <1>1, <1>3 DEF Parts, RowsTyped
<1>6. \A x \in Thread \ {th} : \A u : Asked(x, u)' <=> Asked(x, u)
  BY <1>5 DEF Asked, Questions
<1>7. \A u : (Asked(th, u)' <=> Asked(th, u) \/ u = t) /\ (AskedLast(th, u)' <=> u = t)
  BY <1>1, <1>2, <1>5, Said
<1>8. QuestionsInv'
  <2>1. \A u \in Turn : turn'[u].pc = "unsent" => turn'[u].thread = None
    BY <1>2, <1>4 DEF RecordInv, QuestionsInv
  <2>2. ASSUME NEW x \in Thread, NEW u \in Turn, Asked(x, u)'
        PROVE  /\ turn'[u].thread = x
               /\ turn'[u].pc \notin {"unsent", "find", "create", "reopen", "say"}
    <3>1. CASE u = t /\ x = th
      BY <1>2, <1>4, <3>1
    <3>2. CASE Asked(x, u)
      BY <1>1, <1>2, <1>4, <3>2 DEF RecordInv, QuestionsInv
    <3>3. QED
      BY <1>6, <1>7, <2>2, <3>1, <3>2
  <2>3. QED
    BY <2>1, <2>2 DEF QuestionsInv
<1>9. ASSUME th \notin overlapped, ThreadInv(th)
      PROVE  Counted(th)'
  <2> SUFFICES ASSUME \A u \in Turn : turn'[u].thread = th => Asked(th, u)' \/ UnderWay(u)'
               PROVE  /\ IsFiniteSet(Openers(th)')
                      /\ conversation'[th].attached = Cardinality(Openers(th)')
    BY DEF Counted
  <2>1. \A u \in Turn : turn[u].thread = th => Asked(th, u) \/ UnderWay(u)
    BY <1>1, <1>4, <1>7 DEF UnderWay
  <2>2. IsFiniteSet(Openers(th)) /\ conversation[th].attached = Cardinality(Openers(th))
    BY <1>9, <2>1 DEF ThreadInv, Counted
  <2>3. Openers(th)' = Openers(th)
    BY <1>1, <1>2, <1>4, <1>7 DEF Openers
  <2>4. QED
    BY <1>3, <2>2, <2>3
<1>10. Ongoing(th, t)' /\ ~Settled(th, t)' /\ AskedLast(th, t)'
  BY <1>2, <1>4, <1>7 DEF Ongoing, Settled
<1>11. OthersKept(th) /\ UnderWay(t) /\ turn'[t].thread = th /\ turn[t].thread = th
  BY <1>1, <1>2, <1>3, <1>4, <1>5 DEF OthersKept, UnderWay
<1>12. QED
  BY <1>1, <1>3, <1>4, <1>8, <1>9, <1>10, <1>11, TurnStep

(* The outcome is recorded: alone with the row, the turn writes all of it. *)
LEMMA RecordEndKeepsRecord ==
    ASSUME Parts, Parts', RecordInv, NEW t \in Turn, RecordEnd(t)
    PROVE  RecordInv'
<1>0. PICK th \in Thread : th = turn[t].thread
  BY DEF RecordEnd, At, Parts, TurnsTyped
<1> DEFINE outcome == turn[t].outcome
           copy == turn[t].copy
           new == [copy EXCEPT !.status = outcome, !.prompt = IF outcome = "waiting" THEN t ELSE None]
           m == [role |-> Role(outcome), turn |-> t]
           row == [turn[t] EXCEPT !.pc = "report"]
<1>1. turn[t].pc = "record" /\ th \in Thread /\ turn[t].thread = th /\ copy \in Row
  BY <1>0 DEF RecordEnd, At, Parts, TurnsTyped, TurnRow
<1>2. /\ conversation' = [conversation EXCEPT ![th] = Written(conversation[th], copy, new)]
      /\ messages' = IF outcome = "cancelled" THEN messages ELSE [messages EXCEPT ![th] = Append(@, m)]
      /\ turn' = [turn EXCEPT ![t] = row] /\ latest' = latest /\ overlapped' = overlapped
  BY <1>0 DEF RecordEnd, Goto
<1>3. row.thread = th /\ row.pc = "report" /\ row.outcome = outcome
  BY <1>0 DEF Parts, TurnsTyped, TurnRow
<1>4. m.role # "user" /\ m.turn = t /\ m \in Message
  BY DEF Role, Message
<1>5. /\ new.status = outcome /\ new.prompt = (IF outcome = "waiting" THEN t ELSE None)
      /\ new.attached = copy.attached
  BY <1>1 DEF Row
<1>6. turn'[t] = row /\ \A u \in Turn \ {t} : turn'[u] = turn[u]
  BY <1>2 DEF Parts, TurnsTyped
<1>7. /\ conversation'[th] = Written(conversation[th], copy, new)
      /\ \A x \in Thread \ {th} : conversation'[x] = conversation[x] /\ messages'[x] = messages[x]
  BY <1>1, <1>2 DEF Parts, RowsTyped
<1>8. outcome # "cancelled" => messages'[th] = Append(messages[th], m)
  BY <1>1, <1>2 DEF Parts, RowsTyped
<1> HIDE DEF new, row
<1>9. \A u : (Asked(th, u)' <=> Asked(th, u)) /\ (AskedLast(th, u)' <=> AskedLast(th, u))
  <2>1. CASE outcome = "cancelled"
    BY <1>2, <2>1, Silent
  <2>2. CASE outcome # "cancelled"
    <3> HIDE DEF m
    <3>1. th \in Thread /\ m \in Message /\ m.role # "user" /\ messages'[th] = Append(messages[th], m)
      BY <1>1, <1>4, <1>8, <2>2
    <3>2. QED
      BY <3>1, Said
  <2>3. QED
    BY <2>1, <2>2
<1>10. outcome # "cancelled" => messages'[th][Len(messages'[th])] = m
  <2> HIDE DEF m
  <2>1. ASSUME outcome # "cancelled" PROVE messages'[th][Len(messages'[th])] = m
    <3>1. th \in Thread /\ m \in Message /\ messages'[th] = Append(messages[th], m)
      BY <1>1, <1>4, <1>8, <2>1
    <3>2. QED
      BY <3>1, Said
  <2>2. QED
    BY <2>1
<1>11. \A x \in Thread \ {th} : \A u : Asked(x, u)' <=> Asked(x, u)
  BY <1>7 DEF Asked, Questions
<1>12. QuestionsInv'
  <2>1. \A u \in Turn : turn'[u].pc = "unsent" => turn'[u].thread = None
    BY <1>3, <1>6 DEF RecordInv, QuestionsInv
  <2>2. ASSUME NEW x \in Thread, NEW u \in Turn, Asked(x, u)'
        PROVE  /\ turn'[u].thread = x
               /\ turn'[u].pc \notin {"unsent", "find", "create", "reopen", "say"}
    <3>1. Asked(x, u)
      BY <1>9, <1>11, <2>2
    <3>2. QED
      BY <1>0, <1>3, <1>6, <3>1 DEF RecordInv, QuestionsInv
  <2>3. QED
    BY <2>1, <2>2 DEF QuestionsInv
<1>13. ASSUME th \notin overlapped, ThreadInv(th)
       PROVE  /\ Ongoing(th, t)' /\ Counted(th)'
              /\ Asked(th, t)' => AskedLast(th, t)'
              /\ Settled(th, t)' => Told(th, t)'
  <2>1. Ongoing(th, t) /\ Counted(th)
    BY <1>13 DEF ThreadInv
  <2>2. AskedLast(th, t) /\ copy = conversation[th]
    BY <1>1, <2>1 DEF Ongoing
  <2>3. conversation'[th] = [status |-> new.status, prompt |-> new.prompt, attached |-> new.attached]
    BY <1>7, <2>2 DEF Written, Left
  <2>4. /\ conversation'[th].status = outcome
        /\ conversation'[th].prompt = (IF outcome = "waiting" THEN t ELSE None)
        /\ conversation'[th].attached = conversation[th].attached
    BY <1>5, <2>2, <2>3
  <2>5. Ends(th, t)'
    BY <1>3, <1>6, <1>10, <2>4 DEF Ends
  <2>6. AskedLast(th, t)' /\ Asked(th, t)
    BY <1>9, <2>2 DEF Asked, AskedLast
  <2>7. Ongoing(th, t)' /\ ~Settled(th, t)'
    BY <1>3, <1>6, <2>5, <2>6 DEF Ongoing, Settled
  <2>8. Counted(th)'
    <3>1. turn[t].thread = th /\ turn'[t].thread = th /\ UnderWay(t)
      BY <1>1, <1>3, <1>6 DEF UnderWay
    <3>2. QED
      BY <1>1, <1>6, <1>9, <2>1, <2>4, <2>6, <3>1, CountStays
  <2>9. QED
    BY <2>6, <2>7, <2>8
<1>14. OthersKept(th) /\ UnderWay(t) /\ turn'[t].thread = th /\ turn[t].thread = th
  BY <1>1, <1>2, <1>3, <1>6, <1>7 DEF OthersKept, UnderWay
<1>15. QED
  BY <1>1, <1>2, <1>6, <1>12, <1>13, <1>14, TurnStep

(* The end is reported, and the turn is over.                              *)
LEMMA ReportKeepsRecord ==
    ASSUME Parts, Parts', RecordInv, NEW t \in Turn, ReportEnd(t)
    PROVE  RecordInv'
<1>0. PICK th \in Thread : th = turn[t].thread
  BY DEF ReportEnd, At, Parts, TurnsTyped
<1> DEFINE row == [turn[t] EXCEPT !.pc = "ended"]
<1>1. turn[t].pc = "report" /\ th \in Thread /\ turn[t].thread = th
  BY <1>0 DEF ReportEnd, At, Parts, TurnsTyped
<1>2. /\ latest' = [latest EXCEPT ![th] = turn[t].outcome] /\ turn' = [turn EXCEPT ![t] = row]
      /\ conversation' = conversation /\ messages' = messages /\ overlapped' = overlapped
  BY <1>0 DEF ReportEnd, Goto
<1>3. row.thread = th /\ row.pc = "ended" /\ row.outcome = turn[t].outcome
  BY <1>0 DEF Parts, TurnsTyped, TurnRow
<1> HIDE DEF row
<1>4. turn'[t] = row /\ \A u \in Turn \ {t} : turn'[u] = turn[u]
  BY <1>2 DEF Parts, TurnsTyped
<1>5. latest'[th] = turn[t].outcome /\ \A x \in Thread \ {th} : latest'[x] = latest[x]
  BY <1>1, <1>2 DEF Parts, RowsTyped
<1>6. \A x, u : (Asked(x, u)' <=> Asked(x, u)) /\ (AskedLast(x, u)' <=> AskedLast(x, u))
  BY <1>2, Silent
<1>7. QuestionsInv'
  BY <1>0, <1>3, <1>4, <1>6 DEF RecordInv, QuestionsInv
<1>8. ASSUME th \notin overlapped, ThreadInv(th)
      PROVE  /\ Ongoing(th, t)' /\ Counted(th)'
             /\ Asked(th, t)' => AskedLast(th, t)'
             /\ Settled(th, t)' => Told(th, t)'
  <2>1. Ongoing(th, t) /\ Counted(th)
    BY <1>8 DEF ThreadInv
  <2>2. AskedLast(th, t) /\ Ends(th, t)
    BY <1>1, <2>1 DEF Ongoing
  <2>3. Ongoing(th, t)' /\ AskedLast(th, t)' /\ Asked(th, t)
    BY <1>3, <1>4, <1>6, <2>2 DEF Ongoing, Asked, AskedLast
  <2>4. Counted(th)'
    <3>1. turn[t].thread = th /\ turn'[t].thread = th /\ UnderWay(t)
      BY <1>1, <1>3, <1>4 DEF UnderWay
    <3>2. QED
      BY <1>1, <1>2, <1>4, <1>6, <2>1, <2>3, <3>1, CountStays
  <2>5. Ends(th, t)'
    BY <1>2, <1>3, <1>4, <2>2 DEF Ends
  <2>6. ASSUME Settled(th, t)'
        PROVE  conversation'[th].attached = Cardinality({u \in Turn : turn'[u].thread = th})
    <3>1. \A u \in Turn : turn'[u].thread = th => Asked(th, u)'
      BY <2>6, SettledMeans
    <3>2. conversation'[th].attached = Cardinality(Openers(th)')
      BY <2>4, <3>1 DEF Counted
    <3>3. Openers(th)' = {u \in Turn : turn'[u].thread = th}
      BY <3>1 DEF Openers
    <3>4. QED
      BY <3>2, <3>3
  <2>7. Settled(th, t)' => Told(th, t)'
    BY <1>3, <1>4, <1>5, <2>5, <2>6 DEF Told
  <2>8. QED
    BY <2>3, <2>4, <2>7
<1>9. OthersKept(th) /\ UnderWay(t) /\ turn'[t].thread = th /\ turn[t].thread = th
  BY <1>1, <1>2, <1>3, <1>4, <1>5 DEF OthersKept, UnderWay
<1>10. QED
  BY <1>1, <1>2, <1>4, <1>7, <1>8, <1>9, TurnStep

(* A request that arrives while another is under way gives the thread up.  *)
LEMMA ReceiveKeepsRecord ==
    ASSUME Parts, Parts', RecordInv, NEW t \in Turn, NEW th \in Thread, Receive(t, th)
    PROVE  RecordInv'
<1> DEFINE row == [turn[t] EXCEPT !.pc = "find", !.thread = th]
<1>1. /\ turn' = [turn EXCEPT ![t] = row] /\ turn[t].pc = "unsent"
      /\ conversation' = conversation /\ messages' = messages /\ latest' = latest
  BY DEF Receive, At, rows
<1>2. row.thread = th /\ row.pc = "find"
  BY DEF Parts, TurnsTyped, TurnRow
<1> HIDE DEF row
<1>3. turn'[t] = row /\ \A u \in Turn \ {t} : turn'[u] = turn[u]
  BY <1>1 DEF Parts, TurnsTyped
<1>4. \A x, u : (Asked(x, u)' <=> Asked(x, u)) /\ (AskedLast(x, u)' <=> AskedLast(x, u))
  BY <1>1, Silent
<1>5. \A x \in Thread : ~Asked(x, t)
  BY <1>1, NotYetAsked
<1>6. turn[t].thread \notin Thread
  BY <1>1, ChatAssumption DEF RecordInv, QuestionsInv
<1>7. QuestionsInv'
  <2>1. \A u \in Turn : turn'[u].pc = "unsent" => turn'[u].thread = None
    BY <1>2, <1>3 DEF RecordInv, QuestionsInv
  <2>2. ASSUME NEW x \in Thread, NEW u \in Turn, Asked(x, u)
        PROVE  /\ turn'[u].thread = x
               /\ turn'[u].pc \notin {"unsent", "find", "create", "reopen", "say"}
    BY <1>3, <1>5, <2>2 DEF RecordInv, QuestionsInv
  <2>3. QED
    BY <1>4, <2>1, <2>2 DEF QuestionsInv
<1>8. overlapped \subseteq overlapped'
  BY DEF Receive
<1>9. ASSUME NEW x \in Thread, x # th PROVE ThreadInv(x)'
  <2>1. \A u \in Turn : turn'[u] = turn[u] \/ (turn[u].thread # x /\ turn'[u].thread # x)
    BY <1>2, <1>3, <1>6, <1>9
  <2>2. QED
    BY <1>1, <1>8, <2>1, ThreadUntouched DEF RecordInv
<1>10. ASSUME th \notin overlapped' PROVE ThreadInv(th)'
  <2>1. \A u \in Turn : ~(UnderWay(u) /\ turn[u].thread = th)
    BY <1>10 DEF Receive
  <2>2. Counted(th)
    BY <1>8, <1>10 DEF RecordInv, ThreadInv
  <2>3. Openers(th)' = Openers(th)
    BY <1>2, <1>3, <1>4, <1>5, <1>6 DEF Openers
  <2>4. (\A u \in Turn : turn'[u].thread = th => Asked(th, u)' \/ UnderWay(u)') =>
            \A u \in Turn : turn[u].thread = th => Asked(th, u) \/ UnderWay(u)
    BY <1>3, <1>4, <1>6 DEF UnderWay
  <2>5. Counted(th)'
    BY <1>1, <2>2, <2>3, <2>4 DEF Counted
  <2>6. Ongoing(th, t)' /\ ~Settled(th, t)' /\ ~Asked(th, t)'
    BY <1>2, <1>3, <1>4, <1>5 DEF Ongoing, Settled
  <2>7. turn'[t].thread = th /\ \A u \in Turn \ {t} : turn'[u] = turn[u] /\ (turn[u].thread = th => ~UnderWay(u))
    BY <1>2, <1>3, <2>1
  <2>8. QED
    BY <1>7, <2>5, <2>6, <2>7, OwnKeeps
<1>11. th \in overlapped' => ThreadInv(th)'
  BY DEF ThreadInv
<1>12. QED
  BY <1>7, <1>9, <1>10, <1>11 DEF RecordInv

(* Of a thread that is not given up one turn dies at most.                 *)
LEMMA CrashKeepsRecord ==
    ASSUME Parts, Parts', RecordInv, ProcessCrash
    PROVE  RecordInv'
<1>1. PICK dying \in SUBSET {t \in Turn : UnderWay(t)} :
        turn' = [t \in Turn |-> IF t \in dying THEN [turn[t] EXCEPT !.pc = "dead"] ELSE turn[t]]
  BY DEF ProcessCrash
<1>2. /\ conversation' = conversation /\ messages' = messages /\ latest' = latest
      /\ overlapped' = overlapped
  BY DEF ProcessCrash, rows
<1>3. \A u \in Turn \ dying : turn'[u] = turn[u]
  BY <1>1
<1>4. ASSUME NEW u \in dying
      PROVE  u \in Turn /\ UnderWay(u) /\ turn'[u].thread = turn[u].thread /\ turn'[u].pc = "dead"
  <2>1. turn[u] \in TurnRow /\ turn'[u] = [turn[u] EXCEPT !.pc = "dead"]
    BY <1>1 DEF Parts, TurnsTyped
  <2>2. QED
    BY <1>1, <2>1 DEF TurnRow
<1>5. \A x, u : (Asked(x, u)' <=> Asked(x, u)) /\ (AskedLast(x, u)' <=> AskedLast(x, u))
  BY <1>2, Silent
<1>6. QuestionsInv'
  <2>1. \A u \in Turn : turn'[u].pc = "unsent" => turn'[u].thread = None
    BY <1>3, <1>4 DEF RecordInv, QuestionsInv
  <2>2. ASSUME NEW x \in Thread, NEW u \in Turn, Asked(x, u)
        PROVE  /\ turn'[u].thread = x
               /\ turn'[u].pc \notin {"unsent", "find", "create", "reopen", "say"}
    BY <1>3, <1>4, <2>2 DEF RecordInv, QuestionsInv
  <2>3. QED
    BY <1>5, <2>1, <2>2 DEF QuestionsInv
<1>7. ASSUME NEW th \in Thread, th \notin overlapped, NEW t \in dying, turn[t].thread = th
      PROVE  ThreadInv(th)'
  <2>1. Alone(th) /\ Counted(th) /\ Ongoing(th, t)
    BY <1>4, <1>7 DEF RecordInv, ThreadInv
  <2>2. \A u \in Turn \ {t} : \/ turn'[u] = turn[u] /\ (turn[u].thread = th => ~UnderWay(u))
                              \/ turn'[u].thread # th
    <3>1. \A u \in Turn : UnderWay(u) /\ turn[u].thread = th => u = t
      BY <1>4, <1>7, <2>1 DEF Alone
    <3>2. QED
      BY <1>3, <1>4, <3>1
  <2>3. t \in Turn /\ UnderWay(t) /\ turn'[t].thread = th /\ turn'[t].pc = "dead"
    BY <1>4, <1>7
  <2>4. Ongoing(th, t)' /\ ~Settled(th, t)'
    BY <2>3 DEF Ongoing, Settled
  <2>5. Asked(th, t) => AskedLast(th, t)
    BY <1>7, <2>1, <2>3
    DEF RecordInv, QuestionsInv, Ongoing, UnderWay, Parts, TurnsTyped, TurnRow, Step
  <2>6. Counted(th)'
    <3> SUFFICES ASSUME \A u \in Turn : turn'[u].thread = th => Asked(th, u)' \/ UnderWay(u)'
                 PROVE  /\ IsFiniteSet(Openers(th)')
                        /\ conversation'[th].attached = Cardinality(Openers(th)')
      BY DEF Counted
    <3>1. ASSUME NEW u \in Turn, turn[u].thread = th PROVE Asked(th, u) \/ UnderWay(u)
      BY <1>3, <1>4, <1>5, <3>1 DEF UnderWay
    <3>2. ASSUME NEW u \in dying, turn[u].thread = th PROVE Asked(th, u)
      BY <1>4, <1>5, <3>2 DEF UnderWay
    <3>3. ASSUME NEW u \in Turn
          PROVE  (turn'[u].thread = th /\ (Asked(th, u)' \/ turn'[u].pc = "say")) <=>
                    (turn[u].thread = th /\ (Asked(th, u) \/ turn[u].pc = "say"))
      BY <1>3, <1>4, <1>5, <3>2
    <3>4. Openers(th)' = Openers(th)
      BY <3>3 DEF Openers
    <3>5. QED
      BY <1>2, <2>1, <3>1, <3>4 DEF Counted
  <2>7. QED
    BY <1>5, <1>6, <2>2, <2>3, <2>4, <2>5, <2>6, OwnKeeps
<1>8. ASSUME NEW th \in Thread, \A t \in dying : turn[t].thread # th
      PROVE  ThreadInv(th)'
  <2>1. \A u \in Turn : turn'[u] = turn[u] \/ (turn[u].thread # th /\ turn'[u].thread # th)
    BY <1>3, <1>4, <1>8
  <2>2. QED
    BY <1>2, <2>1, ThreadUntouched DEF RecordInv
<1>9. ASSUME NEW th \in Thread, th \in overlapped PROVE ThreadInv(th)'
  BY <1>2, <1>9 DEF ThreadInv
<1>10. QED
  BY <1>6, <1>7, <1>8, <1>9 DEF RecordInv

LEMMA RecordStays ==
    ASSUME RecordInv, UNCHANGED <<rows, turn, overlapped>>
    PROVE  RecordInv'
<1>1. conversation' = conversation /\ messages' = messages /\ latest' = latest /\ turn' = turn
  BY DEF rows
<1>2. overlapped \subseteq overlapped' /\ overlapped' = overlapped
  OBVIOUS
<1>3. \A x, u : (Asked(x, u)' <=> Asked(x, u)) /\ (AskedLast(x, u)' <=> AskedLast(x, u))
  BY <1>1, Silent
<1>4. QuestionsInv'
  BY <1>1, <1>3 DEF RecordInv, QuestionsInv
<1>5. ASSUME NEW th \in Thread PROVE ThreadInv(th)'
  BY <1>1, <1>2, ThreadUntouched DEF RecordInv
<1>6. QED
  BY <1>4, <1>5 DEF RecordInv

LEMMA RecordInit == Init => RecordInv
<1> SUFFICES ASSUME Init PROVE RecordInv
  OBVIOUS
<1>1. /\ \A t \in Turn : turn[t].pc = "unsent" /\ turn[t].thread = None
      /\ \A th \in Thread : messages[th] = <<>> /\ conversation[th].attached = 0
  BY DEF Init, Absent
<1>2. \A th \in Thread : \A u : ~Asked(th, u)
  BY <1>1 DEF Asked, Questions
<1>3. QuestionsInv
  BY <1>1, <1>2 DEF QuestionsInv
<1>4. ASSUME NEW th \in Thread PROVE ThreadInv(th)
  <2>1. Openers(th) = {}
    BY <1>1, <1>2 DEF Openers
  <2>2. Counted(th)
    BY <1>1, <2>1, FS_EmptySet DEF Counted
  <2>3. \A t \in Turn : ~UnderWay(t) /\ Ongoing(th, t) /\ ~Settled(th, t)
    BY <1>1 DEF UnderWay, Ongoing, Settled
  <2>4. QED
    BY <2>2, <2>3 DEF ThreadInv, Alone
<1>5. QED
  BY <1>3, <1>4 DEF RecordInv

LEMMA RecordStep == Parts /\ Parts' /\ RecordInv /\ [Next]_vars => RecordInv'
<1> SUFFICES ASSUME Parts, Parts', RecordInv, [Next]_vars PROVE RecordInv'
  OBVIOUS
<1>1. CASE UNCHANGED vars
  BY <1>1, RecordStays DEF vars
<1>2. ASSUME NEW t \in Turn, NEW th \in Thread, Receive(t, th) PROVE RecordInv'
  BY <1>2, ReceiveKeepsRecord
<1>3. ASSUME NEW t \in Turn, Chat(t) \/ Disconnect(t) PROVE RecordInv'
  BY <1>3, RequestKeepsRecord, OpenKeepsRecord, QuestionKeepsRecord, RunKeepsRecord,
     RecordEndKeepsRecord, ReportKeepsRecord DEF Chat
<1>4. CASE ProcessCrash
  BY <1>4, CrashKeepsRecord
<1>5. ASSUME NEW c \in Click, SetFeedback(c) PROVE RecordInv'
  <2>1. UNCHANGED <<rows, turn, overlapped>>
    BY <1>5 DEF SetFeedback, Rate, FindAnswer, LookRating, StoreRating
  <2>2. QED
    BY <2>1, RecordStays
<1>6. QED
  BY <1>1, <1>2, <1>3, <1>4, <1>5 DEF Next

LEMMA RecordAlways == Spec => [](Parts /\ RecordInv)
<1>1. Init => Parts /\ RecordInv
  BY TypeInit, RecordInit
<1>2. Parts /\ RecordInv /\ [Next]_vars => (Parts /\ RecordInv)'
  BY TypeStep, RecordStep
<1>3. QED
  BY <1>1, <1>2, PTL DEF Spec

(* Whatever was cancelled, failed or lost before it, once the last turn of *)
(* a thread has ended, with no two turns of it side by side, the row tells *)
(* its outcome and counts every attachment, and the last message is its    *)
(* answer (finish_conversation_turn, ensure_conversation).                 *)
THEOREM TurnsRecorded == Spec => []TurnsAreRecorded
<1>1. RecordInv => TurnsAreRecorded
  <2>1. RecordInv => \A th \in Thread, t \in Turn : Settled(th, t) => Told(th, t)
    BY DEF RecordInv, ThreadInv, Settled
  <2>2. QED
    BY <2>1 DEF TurnsAreRecorded, Told, Ends
<1>2. QED
  BY <1>1, RecordAlways, PTL

(* The dashboards, which read the audit trail, and the task list, which    *)
(* reads the row, then tell the same end.                                  *)
THEOREM EventsAgree == Spec => []EventsAgreeWithRow
<1>1. RecordInv => EventsAgreeWithRow
  <2>1. RecordInv => \A th \in Thread, t \in Turn : Settled(th, t) => Told(th, t)
    BY DEF RecordInv, ThreadInv, Settled
  <2>2. QED
    BY <2>1 DEF EventsAgreeWithRow, Told, Ends
<1>2. QED
  BY <1>1, RecordAlways, PTL

-----------------------------------------------------------------------------
(* ViewIsOfThread.  As long as the user did not act during a load, a       *)
(* stream that is read is that of the turn stop would abort, its thread is *)
(* shown and no load is pending; a pending load is for the thread that is  *)
(* shown; and of what the tab keeps only the view may be of another        *)
(* thread, while a load is pending.                                        *)

LoadRow == [thread : Thread \cup {None}, pc : {"unsent", "asked", "found", "missing", "done"},
            found : Seq(Message)]
Entry == [role: {"user", "assistant", "error", "status"}, turn : Turn \cup {None},
          thread : Thread \cup {None}]
PageTyped ==
    /\ shown \in Thread /\ busy \in BOOLEAN
    /\ view \in Seq(Entry)
    /\ saved \in [Thread -> Seq(Entry) \cup {None}]
    /\ stream \in [Turn -> {"none", "open", "closed", "gone"}]
    /\ stopper \in Turn \cup {None}
    /\ load \in [Load -> LoadRow]
    /\ \A l \in Load : load[l].pc # "unsent" => load[l].thread \in Thread

\* s has entries of x only.
Of(x, s) == \A i \in DOMAIN s : s[i].thread = x

StreamsInv == \A t \in Turn : stream[t] = "open" =>
    stopper = t /\ busy /\ turn[t].thread = shown /\ Pending = {}
LoadsInv == \A l \in Pending : load[l].thread = shown
KeptInv ==
    /\ \A x \in Thread \ {shown} : saved[x] # None => Of(x, saved[x])
    /\ Pending = {} => Of(shown, view) /\ saved[shown] = view
ViewInv == PageTyped /\ (~raced => StreamsInv /\ LoadsInv /\ KeptInv)

(* What the server does after a request arrived leaves threads alone.      *)
LEMMA ThreadsStay ==
    ASSUME Parts, NEW t \in Turn, Chat(t) \/ Disconnect(t), NEW u \in Turn
    PROVE  turn'[u].thread = turn[u].thread
<1>1. turn \in [Turn -> TurnRow]
  BY DEF Parts, TurnsTyped
<1>2. ASSUME NEW pc, Goto(t, pc) PROVE turn'[u].thread = turn[u].thread
  BY <1>1, <1>2 DEF Goto, TurnRow
<1>3. ASSUME NEW pc, NEW copy, turn' = [turn EXCEPT ![t] = [@ EXCEPT !.pc = pc, !.copy = copy]]
      PROVE  turn'[u].thread = turn[u].thread
  BY <1>1, <1>3 DEF TurnRow
<1>4. ASSUME NEW outcome, NEW serving, Finishing(t, outcome, serving)
      PROVE  turn'[u].thread = turn[u].thread
  BY <1>1, <1>4 DEF Finishing, TurnRow
<1>5. CASE FindConversation(t) \/ FetchConversation(t)
  BY <1>3, <1>5 DEF FindConversation, FetchConversation
<1>6. CASE CreateConversation(t)
  BY <1>2, <1>3, <1>6 DEF CreateConversation
<1>7. CASE ReopenConversation(t) \/ AppendQuestion(t) \/ LogRequest(t) \/ RequestRaises(t) \/ BeginRun(t)
  BY <1>2, <1>7 DEF ReopenConversation, AppendQuestion, LogRequest, RequestRaises, BeginRun
<1>8. CASE RecordEnd(t) \/ ReportEnd(t) \/ Drop(t)
  BY <1>2, <1>8 DEF RecordEnd, ReportEnd, Drop
<1>9. CASE RefuseRun(t) \/ EndRun(t) \/ RunRaises(t) \/ Cancel(t)
  BY <1>4, <1>9 DEF RefuseRun, EndRun, RunRaises, Cancel
<1>10. CASE FinishRaises(t)
  BY <1>2, <1>4, <1>10 DEF FinishRaises
<1>11. QED
  BY <1>5, <1>6, <1>7, <1>8, <1>9, <1>10 DEF Chat, Disconnect

LEMMA ServerKeepsThreads ==
    ASSUME Parts, Server
    PROVE  UNCHANGED page /\ \A u \in Turn : turn'[u].thread = turn[u].thread
<1>1. CASE ProcessCrash
  <2>1. ASSUME NEW u \in Turn PROVE turn'[u].thread = turn[u].thread
    <3>1. turn[u] \in TurnRow
      BY DEF Parts, TurnsTyped
    <3>2. turn'[u] = turn[u] \/ turn'[u] = [turn[u] EXCEPT !.pc = "dead"]
      BY <1>1 DEF ProcessCrash
    <3>3. QED
      BY <3>1, <3>2 DEF TurnRow
  <2>2. QED
    BY <2>1 DEF Server
<1>2. ASSUME NEW t \in Turn, Chat(t) \/ Disconnect(t) PROVE \A u \in Turn : turn'[u].thread = turn[u].thread
  BY <1>2, ThreadsStay
<1>3. ASSUME NEW c \in Click, FindAnswer(c) \/ LookRating(c) \/ StoreRating(c)
      PROVE  \A u \in Turn : turn'[u].thread = turn[u].thread
  BY <1>3 DEF FindAnswer, LookRating, StoreRating
<1>4. Server => UNCHANGED page
  BY DEF Server
<1>5. QED
  BY <1>1, <1>2, <1>3, <1>4 DEF Server

LEMMA ViewStays ==
    ASSUME ViewInv, UNCHANGED <<shell, load>>, raced => raced',
           \A u \in Turn : turn'[u].thread = turn[u].thread
    PROVE  ViewInv'
<1>1. /\ shown' = shown /\ busy' = busy /\ view' = view /\ stream' = stream /\ stopper' = stopper
      /\ saved' = saved /\ load' = load
  BY DEF shell
<1>2. PageTyped'
  BY <1>1 DEF ViewInv, PageTyped
<1>3. Pending' = Pending
  BY <1>1 DEF Pending
<1>4. ASSUME ~raced' PROVE StreamsInv' /\ LoadsInv' /\ KeptInv'
  <2>1. StreamsInv /\ LoadsInv /\ KeptInv
    BY <1>4 DEF ViewInv
  <2>2. StreamsInv'
    BY <1>1, <1>3, <2>1 DEF StreamsInv
  <2>3. LoadsInv'
    BY <1>1, <1>3, <2>1 DEF LoadsInv
  <2>4. KeptInv'
    BY <1>1, <1>3, <2>1 DEF KeptInv, Of
  <2>5. QED
    BY <2>2, <2>3, <2>4
<1>5. QED
  BY <1>2, <1>4 DEF ViewInv

(* Showing a message more, of the thread that is shown.                    *)
LEMMA ViewGrows ==
    ASSUME PageTyped, NEW e \in Entry, view' = Append(view, e),
           shown' = shown, saved' = [saved EXCEPT ![shown] = view']
    PROVE  /\ view' \in Seq(Entry) /\ saved' \in [Thread -> Seq(Entry) \cup {None}]
           /\ KeptInv /\ Pending' = Pending /\ (Pending = {} => e.thread = shown) => KeptInv'
<1>1. view' \in Seq(Entry)
  BY DEF PageTyped
<1>2. saved' \in [Thread -> Seq(Entry) \cup {None}]
  BY <1>1 DEF PageTyped
<1>3. \A x \in Thread \ {shown} : saved'[x] = saved[x]
  BY DEF PageTyped
<1>4. saved'[shown] = view'
  BY DEF PageTyped
<1>5. Of(shown, view) /\ e.thread = shown => Of(shown, view')
  BY DEF Of, PageTyped
<1>6. ASSUME KeptInv, Pending' = Pending, Pending = {} => e.thread = shown PROVE KeptInv'
  <2>1. \A x \in Thread \ {shown'} : saved'[x] # None => Of(x, saved'[x])
    BY <1>3, <1>6 DEF KeptInv
  <2>2. Pending' = {} => Of(shown', view') /\ saved'[shown'] = view'
    BY <1>4, <1>5, <1>6 DEF KeptInv
  <2>3. \A x \in Thread \ {shown'} : saved'[x] # None => Of(x, saved[x])'
    BY <2>1 DEF Of
  <2>4. QED
    BY <2>2, <2>3 DEF KeptInv, Of
<1>7. QED
  BY <1>1, <1>2, <1>6

LEMMA SendKeepsView ==
    ASSUME Parts, ViewInv, NEW t \in Turn, Send(t)
    PROVE  ViewInv'
<1> DEFINE e == [role |-> "user", turn |-> t, thread |-> shown]
<1>1. /\ ~busy /\ view' = Append(view, e) /\ shown' = shown /\ saved' = [saved EXCEPT ![shown] = view']
      /\ busy' = TRUE /\ stream' = [stream EXCEPT ![t] = "open"] /\ stopper' = t /\ load' = load
  BY DEF Send, Show
<1>2. e \in Entry /\ e.thread = shown
  BY DEF Entry, ViewInv, PageTyped
<1> HIDE DEF e
<1>3. Pending' = Pending
  BY <1>1 DEF Pending
<1>4. PageTyped
  BY DEF ViewInv
<1>5. PageTyped'
  BY <1>1, <1>2, <1>4, ViewGrows DEF PageTyped
<1>6. turn'[t].thread = shown
  BY DEF Send, Receive, Parts, TurnsTyped, TurnRow
<1>7. ASSUME ~raced' PROVE StreamsInv' /\ LoadsInv' /\ KeptInv'
  <2>1. ~raced /\ Pending = {}
    BY <1>7 DEF Send
  <2>2. StreamsInv /\ LoadsInv /\ KeptInv
    BY <2>1 DEF ViewInv
  <2>3. \A u \in Turn \ {t} : stream'[u] # "open"
    BY <1>1, <1>4, <2>2 DEF StreamsInv, PageTyped
  <2>4. StreamsInv'
    BY <1>1, <1>3, <1>6, <2>1, <2>3 DEF StreamsInv
  <2>5. LoadsInv'
    BY <1>3, <2>1 DEF LoadsInv
  <2>6. KeptInv'
    BY <1>1, <1>2, <1>3, <1>4, <2>2, ViewGrows
  <2>7. QED
    BY <2>4, <2>5, <2>6
<1>8. QED
  BY <1>5, <1>7 DEF ViewInv

LEMMA StreamEndKeepsView ==
    ASSUME Parts, ViewInv, NEW t \in Turn, Deliver(t) \/ LoseStream(t)
    PROVE  ViewInv'
<1>1. PICK role \in {"assistant", "status", "error"} : view' = Say(role, t)
  BY DEF Deliver, LoseStream, Show, ShownAs
<1> DEFINE e == [role |-> role, turn |-> t, thread |-> turn[t].thread]
<1>2. PICK end \in {"closed", "gone"} : stream' = [stream EXCEPT ![t] = end]
  BY DEF Deliver, LoseStream, Settle
<1>3. /\ view' = Append(view, e) /\ shown' = shown /\ saved' = [saved EXCEPT ![shown] = view']
      /\ busy' = FALSE /\ stopper' = (IF stopper = t THEN None ELSE stopper)
      /\ load' = load /\ turn' = turn /\ raced' = raced /\ stream[t] = "open"
  BY <1>1 DEF Deliver, LoseStream, Show, Settle, Say, vars
<1>4. e \in Entry /\ e.thread = turn[t].thread
  BY DEF Entry, Parts, TurnsTyped, TurnRow
<1> HIDE DEF e
<1>5. Pending' = Pending
  BY <1>3 DEF Pending
<1>6. PageTyped
  BY DEF ViewInv
<1>7. PageTyped'
  BY <1>2, <1>3, <1>4, <1>6, ViewGrows DEF PageTyped
<1>8. ASSUME ~raced' PROVE StreamsInv' /\ LoadsInv' /\ KeptInv'
  <2>1. StreamsInv /\ LoadsInv /\ KeptInv
    BY <1>3, <1>8 DEF ViewInv
  <2>2. turn[t].thread = shown /\ stopper = t /\ Pending = {}
    BY <1>3, <2>1 DEF StreamsInv
  <2>3. \A u \in Turn : stream'[u] # "open"
    BY <1>2, <1>6, <2>1, <2>2 DEF StreamsInv, PageTyped
  <2>4. StreamsInv' /\ LoadsInv'
    BY <1>5, <2>2, <2>3 DEF StreamsInv, LoadsInv
  <2>5. KeptInv'
    BY <1>3, <1>4, <1>5, <1>6, <2>1, <2>2, ViewGrows
  <2>6. QED
    BY <2>4, <2>5
<1>9. QED
  BY <1>7, <1>8 DEF ViewInv

(* After abort no stream is read.                                          *)
LEMMA Aborted ==
    ASSUME PageTyped, Abort
    PROVE  /\ stopper' = None /\ stream' \in [Turn -> {"none", "open", "closed", "gone"}]
           /\ StreamsInv => \A u \in Turn : stream'[u] # "open"
<1>1. stream' \in [Turn -> {"none", "open", "closed", "gone"}]
  BY DEF Abort, PageTyped
<1>2. StreamsInv => \A u \in Turn : stream'[u] # "open"
  BY ChatAssumption DEF StreamsInv, Abort, PageTyped
<1>3. QED
  BY <1>1, <1>2 DEF Abort

LEMMA StopKeepsView ==
    ASSUME ViewInv, Stop
    PROVE  ViewInv'
<1>1. /\ Abort /\ busy' = FALSE /\ shown' = shown /\ view' = view /\ saved' = saved /\ load' = load
      /\ turn' = turn
  BY DEF Stop, vars
<1>2. PageTyped
  BY DEF ViewInv
<1>3. PageTyped'
  BY <1>1, <1>2, Aborted DEF PageTyped
<1>4. Pending' = Pending
  BY <1>1 DEF Pending
<1>5. ASSUME ~raced' PROVE StreamsInv' /\ LoadsInv' /\ KeptInv'
  <2>1. ~raced /\ Pending = {}
    BY <1>5 DEF Stop
  <2>2. StreamsInv /\ LoadsInv /\ KeptInv
    BY <2>1 DEF ViewInv
  <2>3. StreamsInv' /\ LoadsInv'
    BY <1>1, <1>2, <1>4, <2>1, <2>2, Aborted DEF StreamsInv, LoadsInv
  <2>4. KeptInv'
    BY <1>1, <1>4, <2>2 DEF KeptInv, Of
  <2>5. QED
    BY <2>3, <2>4
<1>6. QED
  BY <1>3, <1>5 DEF ViewInv

LEMMA ReloadKeepsView ==
    ASSUME ViewInv, NEW th \in Thread, Reload(th)
    PROVE  ViewInv'
<1>1. PageTyped
  BY DEF ViewInv
<1>2. /\ shown' = th /\ view' = <<>> /\ saved' = [x \in Thread |-> IF x = th THEN <<>> ELSE None]
      /\ busy' = FALSE /\ stopper' = None
      /\ stream' = [t \in Turn |-> IF stream[t] = "open" THEN "gone" ELSE stream[t]]
      /\ load' = [l \in Load |-> IF l \in Pending
                              THEN [load[l] EXCEPT !.pc = "done", !.found = <<>>] ELSE load[l]]
  BY DEF Reload, Streaming
<1>3. stream' \in [Turn -> {"none", "open", "closed", "gone"}] /\ \A u \in Turn : stream'[u] # "open"
  BY <1>1, <1>2 DEF PageTyped
<1>4. ASSUME NEW l \in Load
      PROVE  /\ load'[l] \in LoadRow /\ load'[l].pc \notin {"asked", "found", "missing"}
             /\ load'[l].pc # "unsent" => load'[l].thread \in Thread
  <2>1. load[l] \in LoadRow
    BY <1>1 DEF PageTyped
  <2>2. CASE l \in Pending
    <3>1. load'[l] = [load[l] EXCEPT !.pc = "done", !.found = <<>>] /\ load[l].pc # "unsent"
      BY <1>2, <2>2 DEF Pending
    <3>2. <<>> \in Seq(Message)
      OBVIOUS
    <3>3. load'[l].pc = "done" /\ load'[l].thread = load[l].thread
      BY <2>1, <3>1 DEF LoadRow
    <3>4. load'[l] \in LoadRow
      BY <2>1, <3>1, <3>2 DEF LoadRow
    <3>5. QED
      BY <1>1, <3>1, <3>3, <3>4 DEF PageTyped
  <2>3. CASE l \notin Pending
    BY <1>1, <1>2, <2>1, <2>3 DEF Pending, PageTyped
  <2>4. QED
    BY <2>2, <2>3
<1>5. load' \in [Load -> LoadRow]
  BY <1>2, <1>4
<1>6. PageTyped'
  <2>1. <<>> \in Seq(Entry)
    OBVIOUS
  <2>2. saved' \in [Thread -> Seq(Entry) \cup {None}]
    BY <1>2, <2>1
  <2>3. QED
    BY <1>2, <1>3, <1>4, <1>5, <2>1, <2>2 DEF PageTyped
<1>7. StreamsInv' /\ LoadsInv'
  BY <1>3, <1>4 DEF StreamsInv, LoadsInv, Pending
<1>8. KeptInv'
  <2>1. \A x \in Thread \ {th} : saved'[x] = None
    BY <1>2
  <2>2. saved'[th] = view' /\ Of(th, view')
    <3>1. view' = <<>> /\ saved'[th] = <<>>
      BY <1>2
    <3>2. DOMAIN <<>> = {}
      OBVIOUS
    <3>3. QED
      BY <3>1, <3>2 DEF Of
  <2>3. Of(th, view)'
    BY <2>2 DEF Of
  <2>4. QED
    BY <1>2, <2>1, <2>2, <2>3 DEF KeptInv, Of
<1>9. QED
  BY <1>6, <1>7, <1>8 DEF ViewInv

LEMMA ResumeKeepsView ==
    ASSUME ViewInv, NEW th \in Thread, ResumeSession(th)
    PROVE  ViewInv'
<1>1. PageTyped
  BY DEF ViewInv
<1>2. /\ saved[th] # None /\ Abort /\ busy' = FALSE /\ shown' = th /\ view' = saved[th]
      /\ saved' = [saved EXCEPT ![th] = saved[th]] /\ load' = load
  BY DEF ResumeSession, Show
<1>3. saved' = saved
  BY <1>1, <1>2 DEF PageTyped
<1>4. PageTyped'
  BY <1>1, <1>2, <1>3, Aborted DEF PageTyped
<1>5. Pending' = Pending
  BY <1>2 DEF Pending
<1>6. ASSUME ~raced' PROVE StreamsInv' /\ LoadsInv' /\ KeptInv'
  <2>1. ~raced /\ Pending = {}
    BY <1>6 DEF ResumeSession
  <2>2. StreamsInv /\ LoadsInv /\ KeptInv
    BY <2>1 DEF ViewInv
  <2>3. StreamsInv' /\ LoadsInv'
    BY <1>1, <1>2, <1>5, <2>1, <2>2, Aborted DEF StreamsInv, LoadsInv
  <2>4. \A x \in Thread : saved[x] # None => Of(x, saved[x])
    BY <2>1, <2>2 DEF KeptInv
  <2>5. KeptInv'
    BY <1>2, <1>3, <2>4 DEF KeptInv, Of
  <2>6. QED
    BY <2>3, <2>5
<1>7. QED
  BY <1>4, <1>6 DEF ViewInv

LEMMA LoadSessionKeepsView ==
    ASSUME ViewInv, NEW l \in Load, NEW th \in Thread, LoadSession(l, th)
    PROVE  ViewInv'
<1>1. PageTyped
  BY DEF ViewInv
<1>2. /\ th # shown /\ Abort /\ busy' = TRUE /\ shown' = th /\ view' = view
      /\ saved' = [saved EXCEPT ![th] = view]
      /\ load' = [load EXCEPT ![l].pc = "asked", ![l].thread = th]
  BY DEF LoadSession, Show
<1>3. /\ load' = [load EXCEPT ![l] = [load[l] EXCEPT !.pc = "asked", !.thread = th]]
      /\ load[l] \in LoadRow
  BY <1>1, <1>2 DEF PageTyped, LoadRow
<1>4. load'[l] \in LoadRow /\ load'[l].pc = "asked" /\ load'[l].thread = th
  BY <1>1, <1>3 DEF PageTyped, LoadRow
<1>5. /\ \A k \in Load \ {l} : load'[k] = load[k]
      /\ load' \in [Load -> LoadRow]
  BY <1>1, <1>3, <1>4 DEF PageTyped
<1>6. PageTyped'
  BY <1>1, <1>2, <1>5, Aborted DEF PageTyped
<1>7. ASSUME ~raced' PROVE StreamsInv' /\ LoadsInv' /\ KeptInv'
  <2>1. ~raced /\ Pending = {}
    BY <1>7 DEF LoadSession
  <2>2. StreamsInv /\ LoadsInv /\ KeptInv
    BY <2>1 DEF ViewInv
  <2>3. Pending' = {l}
    BY <1>4, <1>5, <2>1 DEF Pending
  <2>4. StreamsInv' /\ LoadsInv'
    BY <1>1, <1>2, <1>4, <2>2, <2>3, Aborted DEF StreamsInv, LoadsInv
  <2>5. \A x \in Thread : saved[x] # None => Of(x, saved[x])
    BY <2>1, <2>2 DEF KeptInv
  <2>6. \A x \in Thread \ {th} : saved'[x] = saved[x]
    BY <1>1, <1>2 DEF PageTyped
  <2>7. KeptInv'
    BY <1>2, <2>3, <2>5, <2>6 DEF KeptInv, Of
  <2>8. QED
    BY <2>4, <2>7
<1>8. QED
  BY <1>6, <1>7 DEF ViewInv

LEMMA GetTaskKeepsView ==
    ASSUME Parts, ViewInv, NEW l \in Load, GetTask(l)
    PROVE  ViewInv'
<1>1. PageTyped
  BY DEF ViewInv
<1>2. PICK pc \in {"missing", "found"} :
        load' = [load EXCEPT ![l].pc = pc, ![l].found = messages[load[l].thread]]
  BY DEF GetTask
<1>3. /\ shown' = shown /\ busy' = busy /\ view' = view /\ stream' = stream /\ stopper' = stopper
      /\ saved' = saved /\ raced' = raced /\ turn' = turn /\ load[l].pc = "asked"
  BY DEF GetTask, shell, vars
<1>4. messages[load[l].thread] \in Seq(Message)
  BY <1>1, <1>3, ChatAssumption DEF Parts, RowsTyped, PageTyped, LoadRow
<1>5. /\ load' = [load EXCEPT ![l] = [load[l] EXCEPT !.pc = pc, !.found = messages[load[l].thread]]]
      /\ load[l] \in LoadRow
  BY <1>1, <1>2 DEF PageTyped, LoadRow
<1>6. load'[l] \in LoadRow /\ load'[l].pc = pc /\ load'[l].thread = load[l].thread
  BY <1>1, <1>4, <1>5 DEF PageTyped, LoadRow
<1>7. /\ \A k \in Load \ {l} : load'[k] = load[k]
      /\ load' \in [Load -> LoadRow]
  BY <1>1, <1>5, <1>6 DEF PageTyped
<1>8. PageTyped'
  <2>1. \A k \in Load : load'[k].pc # "unsent" => load'[k].thread \in Thread
    BY <1>1, <1>3, <1>6, <1>7 DEF PageTyped
  <2>2. QED
    BY <1>1, <1>3, <1>7, <2>1 DEF PageTyped
<1>9. Pending' = Pending /\ \A k \in Load : load'[k].thread = load[k].thread
  BY <1>3, <1>6, <1>7 DEF Pending
<1>10. ASSUME ~raced' PROVE StreamsInv' /\ LoadsInv' /\ KeptInv'
  <2>1. StreamsInv /\ LoadsInv /\ KeptInv
    BY <1>3, <1>10 DEF ViewInv
  <2>2. StreamsInv'
    BY <1>3, <1>9, <2>1 DEF StreamsInv
  <2>3. LoadsInv'
    BY <1>3, <1>9, <2>1 DEF LoadsInv, Pending
  <2>4. KeptInv'
    BY <1>3, <1>9, <2>1 DEF KeptInv, Of
  <2>5. QED
    BY <2>2, <2>3, <2>4
<1>11. QED
  BY <1>8, <1>10 DEF ViewInv

(* What a load shows is of its thread.                                     *)
LEMMA LoadEndKeepsView ==
    ASSUME ViewInv, NEW l \in Pending, NEW s \in Seq(Entry), Show(shown, s), Of(load[l].thread, s),
           busy' = FALSE, load' = [load EXCEPT ![l].pc = "done", ![l].found = <<>>],
           UNCHANGED <<vars, stream, stopper, raced>>
    PROVE  ViewInv'
<1>1. PageTyped /\ l \in Load
  BY DEF ViewInv, Pending
<1>2. /\ shown' = shown /\ view' = s /\ saved' = [saved EXCEPT ![shown] = s]
      /\ stream' = stream /\ stopper' = stopper /\ raced' = raced /\ turn' = turn
  BY DEF Show, vars
<1>3. /\ load' = [load EXCEPT ![l] = [load[l] EXCEPT !.pc = "done", !.found = <<>>]]
      /\ load[l] \in LoadRow
  BY <1>1 DEF PageTyped, LoadRow
<1>4. load'[l] \in LoadRow /\ load'[l].pc = "done" /\ load'[l].thread = load[l].thread
  <2>1. load'[l] = [load[l] EXCEPT !.pc = "done", !.found = <<>>] /\ <<>> \in Seq(Message)
    BY <1>1, <1>3 DEF PageTyped
  <2>2. QED
    BY <1>3, <2>1 DEF LoadRow
<1>5. /\ \A k \in Load \ {l} : load'[k] = load[k]
      /\ load' \in [Load -> LoadRow]
  BY <1>1, <1>3, <1>4 DEF PageTyped
<1>6. PageTyped'
  <2>1. \A k \in Load : load'[k].pc # "unsent" => load'[k].thread \in Thread
    BY <1>1, <1>4, <1>5 DEF PageTyped, Pending
  <2>2. saved' \in [Thread -> Seq(Entry) \cup {None}]
    BY <1>1, <1>2 DEF PageTyped
  <2>3. QED
    BY <1>1, <1>2, <1>5, <2>1, <2>2 DEF PageTyped
<1>7. Pending' = Pending \ {l}
  BY <1>4, <1>5 DEF Pending
<1>8. ASSUME ~raced' PROVE StreamsInv' /\ LoadsInv' /\ KeptInv'
  <2>1. StreamsInv /\ LoadsInv /\ KeptInv
    BY <1>2, <1>8 DEF ViewInv
  <2>2. StreamsInv'
    BY <1>2, <2>1 DEF StreamsInv
  <2>3. LoadsInv'
    BY <1>2, <1>5, <1>7, <2>1 DEF LoadsInv, Pending
  <2>4. load[l].thread = shown
    BY <2>1 DEF LoadsInv
  <2>5. /\ \A x \in Thread \ {shown} : saved'[x] = saved[x]
        /\ saved'[shown] = s
    BY <1>1, <1>2 DEF PageTyped
  <2>6. KeptInv'
    BY <1>2, <2>1, <2>4, <2>5 DEF KeptInv, Of
  <2>7. QED
    BY <2>2, <2>3, <2>6
<1>9. QED
  BY <1>6, <1>8 DEF ViewInv

LEMMA LoadAnswerKeepsView ==
    ASSUME ViewInv, NEW l \in Load, LoadArrives(l) \/ LoadFails(l)
    PROVE  ViewInv'
<1>1. load[l] \in LoadRow
  BY DEF ViewInv, PageTyped
<1> DEFINE found == load[l].found
           th == load[l].thread
<1>2. CASE LoadArrives(l)
  <2> DEFINE s == [i \in DOMAIN found |-> [role |-> found[i].role, turn |-> found[i].turn, thread |-> th]]
  <2>1. found \in Seq(Message) /\ th \in Thread \cup {None}
    BY <1>1 DEF LoadRow
  <2>2. ASSUME NEW i \in DOMAIN found PROVE s[i] \in Entry /\ s[i].thread = th
    <3>1. found[i] \in Message
      BY <2>1
    <3>2. found[i].role \in {"user", "assistant", "error"} /\ found[i].turn \in Turn
      BY <3>1 DEF Message
    <3>3. s[i] = [role |-> found[i].role, turn |-> found[i].turn, thread |-> th]
      OBVIOUS
    <3>4. QED
      BY <2>1, <3>2, <3>3 DEF Entry
  <2>3. s \in Seq(Entry)
    <3>1. DOMAIN found = 1..Len(found) /\ Len(found) \in Nat
      BY <2>1
    <3>2. s \in [1..Len(found) -> Entry]
      BY <2>2, <3>1
    <3>3. QED
      BY <3>1, <3>2
  <2>4. Of(th, s)
    BY <2>2 DEF Of
  <2>5. /\ Show(shown, s) /\ l \in Pending /\ busy' = FALSE
        /\ load' = [load EXCEPT ![l].pc = "done", ![l].found = <<>>]
        /\ UNCHANGED <<vars, stream, stopper, raced>>
    BY <1>2 DEF LoadArrives, Pending
  <2> HIDE DEF s
  <2>6. QED
    BY <2>3, <2>4, <2>5, LoadEndKeepsView
<1>3. CASE LoadFails(l)
  <2> DEFINE e == [role |-> "error", turn |-> None, thread |-> th]
             s == <<e>>
  <2>1. e \in Entry /\ e.thread = th
    BY <1>1 DEF LoadRow, Entry
  <2>2. Show(shown, s)
    BY <1>3 DEF LoadFails
  <2>3. /\ l \in Pending /\ busy' = FALSE
        /\ load' = [load EXCEPT ![l].pc = "done", ![l].found = <<>>]
        /\ UNCHANGED <<vars, stream, stopper, raced>>
    BY <1>3 DEF LoadFails, Pending
  <2> HIDE DEF e
  <2>4. s \in Seq(Entry) /\ Of(th, s)
    BY <2>1 DEF Of
  <2> HIDE DEF s
  <2>5. QED
    BY <2>2, <2>3, <2>4, LoadEndKeepsView
<1>4. QED
  BY <1>2, <1>3

LEMMA ViewStep == Parts /\ ViewInv /\ [SessionNext]_all => ViewInv'
<1> SUFFICES ASSUME Parts, ViewInv, [SessionNext]_all PROVE ViewInv'
  OBVIOUS
<1>1. CASE UNCHANGED all
  <2>1. UNCHANGED <<shell, load>> /\ raced' = raced /\ turn' = turn
    BY <1>1 DEF all, page, vars
  <2>2. QED
    BY <2>1, ViewStays
<1>2. CASE Server
  <2>1. UNCHANGED <<shell, load>> /\ raced' = raced
    BY <1>2, ServerKeepsThreads DEF page
  <2>2. QED
    BY <1>2, <2>1, ServerKeepsThreads, ViewStays
<1>3. ASSUME NEW t \in Turn, Send(t) \/ Deliver(t) \/ LoseStream(t) PROVE ViewInv'
  BY <1>3, SendKeepsView, StreamEndKeepsView
<1>4. CASE Stop
  BY <1>4, StopKeepsView
<1>5. ASSUME NEW th \in Thread, ResumeSession(th) \/ Reload(th) PROVE ViewInv'
  BY <1>5, ResumeKeepsView, ReloadKeepsView
<1>6. ASSUME NEW l \in Load,
             (\E th \in Thread : LoadSession(l, th)) \/ GetTask(l) \/ LoadArrives(l) \/ LoadFails(l)
      PROVE  ViewInv'
  BY <1>6, LoadSessionKeepsView, GetTaskKeepsView, LoadAnswerKeepsView
<1>7. ASSUME NEW c \in Click, RateAnswer(c) PROVE ViewInv'
  <2>1. UNCHANGED <<shell, load>> /\ (raced => raced') /\ turn' = turn
    BY <1>7 DEF RateAnswer, Rate
  <2>2. QED
    BY <2>1, ViewStays
<1>8. QED
  BY <1>1, <1>2, <1>3, <1>4, <1>5, <1>6, <1>7 DEF SessionNext, Tab

LEMMA ViewInit == SessionInit => ViewInv
<1> SUFFICES ASSUME SessionInit PROVE ViewInv
  OBVIOUS
<1>1. \A l \in Load : load[l] \in LoadRow /\ load[l].pc = "unsent"
  BY DEF SessionInit, LoadRow
<1>2. PageTyped
  <2>1. <<>> \in Seq(Entry) /\ view = <<>> /\ shown \in Thread
    BY DEF SessionInit
  <2>2. saved \in [Thread -> Seq(Entry) \cup {None}]
    BY <2>1 DEF SessionInit
  <2>3. load \in [Load -> LoadRow] /\ \A l \in Load : load[l].pc = "unsent"
    BY <1>1 DEF SessionInit
  <2>4. /\ stream \in [Turn -> {"none", "open", "closed", "gone"}]
        /\ busy \in BOOLEAN /\ stopper \in Turn \cup {None}
    BY DEF SessionInit
  <2>5. QED
    BY <2>1, <2>2, <2>3, <2>4 DEF PageTyped
<1>3. StreamsInv /\ LoadsInv
  BY <1>1 DEF StreamsInv, LoadsInv, Pending, SessionInit
<1>4. KeptInv
  BY DEF KeptInv, Of, SessionInit
<1>5. QED
  BY <1>2, <1>3, <1>4 DEF ViewInv

LEMMA ViewAlways == SessionSpec => []ViewInv
<1>1. SessionInit => ViewInv
  BY ViewInit
<1>2. Parts /\ ViewInv /\ [SessionNext]_all => ViewInv'
  BY ViewStep
<1>3. QED
  BY <1>1, <1>2, SessionIsAChat, RecordAlways, PTL DEF SessionSpec

(* The tab shows under a thread only messages of that thread and keeps     *)
(* none of another for it, unless the user acted during a load: a stream   *)
(* that was left behind writes into no view (useChatSession's abortRef).   *)
THEOREM ViewShowsItsThread == SessionSpec => []ViewIsOfThread
<1>1. ViewInv => ViewIsOfThread
  BY DEF ViewInv, KeptInv, ViewIsOfThread, Of
<1>2. QED
  BY <1>1, ViewAlways, PTL

-----------------------------------------------------------------------------
(* RatingIsOfShownAnswer.  The tables first: a message is of a turn of its *)
(* thread, and the reply of a turn that is about to end is stored.         *)

Closing(t) == turn[t].pc \in {"report", "ended"}
Reply(t) == [role |-> Role(turn[t].outcome), turn |-> t]
\* The answer of t may be stored; it is not stored again.
Past(t) == \/ turn[t].pc \in {"report", "ended", "refused", "dropped", "dead"}
           \/ turn[t].pc \in {"fetch", "record"} /\ turn[t].outcome \in {"failed", "cancelled"}
MessagesInv ==
    /\ \A x \in Thread : \A i \in DOMAIN messages[x] :
         /\ turn[messages[x][i].turn].thread = x
         /\ messages[x][i].role = "assistant" => Past(messages[x][i].turn)
    /\ \A t \in Turn : Closing(t) /\ turn[t].outcome # "cancelled" =>
         \E i \in DOMAIN messages[turn[t].thread] : messages[turn[t].thread][i] = Reply(t)

\* A step adds to a thread one message at most, of a turn that goes on.
Grows(x) ==
    \/ messages'[x] = messages[x]
    \/ \E m \in Message : /\ messages'[x] = Append(messages[x], m)
                          /\ turn[m.turn].thread = x /\ turn[m.turn].pc # "ended"
                          /\ m.role = "assistant" => ~Past(m.turn) /\ Past(m.turn)'

\* A turn gets to its report, for which it stores its reply, with an outcome.
Replies(t) == Closing(t)' =>
    /\ turn'[t].outcome = turn[t].outcome /\ turn'[t].thread = turn[t].thread
    /\ \/ Closing(t)
       \/ turn[t].outcome = "cancelled"
       \/ messages'[turn[t].thread] = Append(messages[turn[t].thread], Reply(t))

LEMMA OneTurnMoves ==
    ASSUME Parts, NEW t \in Turn, Chat(t) \/ Disconnect(t)
    PROVE  /\ \A u \in Turn \ {t} : turn'[u] = turn[u]
           /\ turn[t].pc \notin {"unsent", "ended"}
           /\ turn' \in [Turn -> TurnRow] => \/ RecordEnd(t) \/ ReportEnd(t)
                                             \/ turn'[t].pc \notin {"report", "ended"}
<1>1. turn \in [Turn -> TurnRow]
  BY DEF Parts, TurnsTyped
<1> DEFINE Goal == /\ \A u \in Turn \ {t} : turn'[u] = turn[u]
                   /\ turn[t].pc \notin {"unsent", "ended"}
                   /\ \/ RecordEnd(t) \/ ReportEnd(t)
                      \/ turn'[t].pc \notin {"report", "ended"}
<1>2. ASSUME NEW pc, Goto(t, pc)
      PROVE  (\A u \in Turn \ {t} : turn'[u] = turn[u]) /\ turn'[t].pc = pc
  BY <1>1, <1>2 DEF Goto, TurnRow
<1>3. ASSUME NEW pc, NEW copy, turn' = [turn EXCEPT ![t] = [@ EXCEPT !.pc = pc, !.copy = copy]]
      PROVE  (\A u \in Turn \ {t} : turn'[u] = turn[u]) /\ turn'[t].pc = pc
  BY <1>1, <1>3 DEF TurnRow
<1>4. ASSUME NEW outcome, NEW serving, Finishing(t, outcome, serving)
      PROVE  (\A u \in Turn \ {t} : turn'[u] = turn[u]) /\ turn'[t].pc = "fetch"
  BY <1>1, <1>4 DEF Finishing, TurnRow
<1>5. CASE FindConversation(t) \/ FetchConversation(t)
  <2>1. PICK pc \in {"create", "reopen", "record"} :
          turn' = [turn EXCEPT ![t] = [@ EXCEPT !.pc = pc, !.copy = conversation[turn[t].thread]]]
    BY <1>5 DEF FindConversation, FetchConversation
  <2>2. QED
    BY <1>3, <1>5, <2>1 DEF FindConversation, FetchConversation, At
<1>6. CASE CreateConversation(t)
  <2>1. \/ Goto(t, "say")
        \/ turn' = [turn EXCEPT ![t] = [@ EXCEPT !.pc = "reopen", !.copy = conversation[turn[t].thread]]]
    BY <1>6 DEF CreateConversation
  <2>2. turn[t].pc = "create"
    BY <1>6 DEF CreateConversation, At
  <2>3. CASE Goto(t, "say")
    BY <1>2, <2>2, <2>3
  <2>4. CASE turn' = [turn EXCEPT ![t] = [@ EXCEPT !.pc = "reopen", !.copy = conversation[turn[t].thread]]]
    <3>1. (\A u \in Turn \ {t} : turn'[u] = turn[u]) /\ turn'[t].pc = "reopen"
      BY <1>1, <2>4 DEF TurnRow
    <3>2. QED
      BY <2>2, <3>1
  <2>5. QED
    BY <2>1, <2>3, <2>4
<1>7. CASE ReopenConversation(t) \/ AppendQuestion(t) \/ LogRequest(t) \/ RequestRaises(t) \/ BeginRun(t)
  BY <1>2, <1>7 DEF ReopenConversation, AppendQuestion, LogRequest, RequestRaises, BeginRun, At
<1>8. CASE RecordEnd(t) \/ ReportEnd(t)
  BY <1>2, <1>8 DEF RecordEnd, ReportEnd, At
<1>9. CASE Drop(t)
  BY <1>2, <1>9 DEF Drop
<1>10. CASE RefuseRun(t) \/ EndRun(t) \/ RunRaises(t) \/ Cancel(t)
  BY <1>4, <1>10 DEF RefuseRun, EndRun, RunRaises, Cancel, At
<1>11. CASE FinishRaises(t)
  <2>1. Finishing(t, "failed", FALSE) \/ Goto(t, "dropped")
    BY <1>11 DEF FinishRaises
  <2>2. turn[t].pc \in {"fetch", "record", "report"}
    BY <1>11 DEF FinishRaises
  <2>3. CASE Finishing(t, "failed", FALSE)
    BY <1>4, <2>2, <2>3
  <2>4. CASE Goto(t, "dropped")
    BY <1>2, <2>2, <2>4
  <2>5. QED
    BY <2>1, <2>3, <2>4
<1>12. QED
  BY <1>5, <1>6, <1>7, <1>8, <1>9, <1>10, <1>11 DEF Chat, Disconnect

LEMMA ChatGrows ==
    ASSUME Parts, Parts', NEW t \in Turn, Chat(t) \/ Disconnect(t)
    PROVE  /\ \A x \in Thread : Grows(x)
           /\ \A u \in Turn : Replies(u)
<1>1. turn \in [Turn -> TurnRow] /\ turn' \in [Turn -> TurnRow] /\ messages \in [Thread -> Seq(Message)]
  BY DEF Parts, TurnsTyped, RowsTyped
<1>2. turn[t].thread \in Thread /\ turn[t].pc # "ended"
  BY OneTurnMoves DEF Parts, TurnsTyped
<1>3. \A u \in Turn \ {t} : Replies(u)
  BY OneTurnMoves DEF Replies, Closing
<1>4. CASE RecordEnd(t)
  <2>1. /\ turn[t].pc = "record" /\ Goto(t, "report")
        /\ messages' = IF turn[t].outcome = "cancelled" THEN messages
                       ELSE [messages EXCEPT ![turn[t].thread] = Append(@, Reply(t))]
    BY <1>4 DEF RecordEnd, At, Reply
  <2>2. turn'[t] = [turn[t] EXCEPT !.pc = "report"]
    BY <1>1, <2>1 DEF Goto
  <2>3. turn'[t].outcome = turn[t].outcome /\ turn'[t].thread = turn[t].thread
    BY <1>1, <2>2 DEF TurnRow
  <2>4. Reply(t) \in Message /\ Reply(t).turn = t
    BY DEF Reply, Role, Message
  <2> HIDE DEF Reply
  <2>5. turn[t].outcome # "cancelled" =>
          messages'[turn[t].thread] = Append(messages[turn[t].thread], Reply(t))
    BY <1>1, <1>2, <2>1
  <2>6. \A x \in Thread : 
         \/ messages'[x] = messages[x]
         \/ /\ x = turn[t].thread /\ messages'[x] = Append(messages[x], Reply(t))
            /\ turn[t].outcome # "cancelled"
    BY <1>1, <1>2, <2>1
  <2>10. turn[t].outcome # "cancelled" /\ Reply(t).role = "assistant" => ~Past(t) /\ Past(t)'
    <3>1. Reply(t).role = "assistant" => turn[t].outcome # "failed"
      BY DEF Reply, Role
    <3>2. turn'[t].pc = "report"
      BY <1>1, <2>2 DEF TurnRow
    <3>3. QED
      BY <2>1, <3>1, <3>2 DEF Past
  <2>7. \A x \in Thread : Grows(x)
    BY <1>2, <2>4, <2>6, <2>10 DEF Grows
  <2>8. Replies(t)
    BY <2>3, <2>5 DEF Replies
  <2>9. QED
    BY <1>3, <2>7, <2>8
<1>5. CASE ReportEnd(t)
  <2>1. turn[t].pc = "report" /\ Goto(t, "ended") /\ messages' = messages
    BY <1>5 DEF ReportEnd, At
  <2>2. turn'[t] = [turn[t] EXCEPT !.pc = "ended"]
    BY <1>1, <2>1 DEF Goto
  <2>3. turn'[t].outcome = turn[t].outcome /\ turn'[t].thread = turn[t].thread
    BY <1>1, <2>2 DEF TurnRow
  <2>4. QED
    BY <1>3, <2>1, <2>3 DEF Replies, Closing, Grows
<1>6. CASE AppendQuestion(t)
  <2> DEFINE m == [role |-> "user", turn |-> t]
  <2>1. messages' = [messages EXCEPT ![turn[t].thread] = Append(@, m)]
    BY <1>6 DEF AppendQuestion
  <2>2. m \in Message /\ m.turn = t /\ m.role # "assistant"
    BY DEF Message
  <2> HIDE DEF m
  <2>3. \A x \in Thread : messages'[x] = messages[x] \/ (x = turn[t].thread /\ messages'[x] = Append(messages[x], m))
    BY <1>1, <1>2, <2>1
  <2>4. \A x \in Thread : Grows(x)
    BY <1>2, <2>2, <2>3 DEF Grows
  <2>5. turn'[t].pc = "log"
    BY <1>1, <1>6 DEF AppendQuestion, Goto, TurnRow
  <2>6. QED
    BY <1>3, <2>4, <2>5 DEF Replies, Closing
<1>7. CASE ~RecordEnd(t) /\ ~ReportEnd(t) /\ ~AppendQuestion(t)
  <2>1. messages' = messages
    BY <1>7 DEF Chat, Disconnect, FindConversation, CreateConversation, ReopenConversation, LogRequest,
       RequestRaises, BeginRun, RefuseRun, EndRun, RunRaises, FetchConversation, FinishRaises, Cancel,
       Drop, rows
  <2>2. ~Closing(t)'
    BY <1>1, <1>7, OneTurnMoves DEF Closing
  <2>3. QED
    BY <1>3, <2>1, <2>2 DEF Replies, Grows
<1>8. QED
  BY <1>4, <1>5, <1>6, <1>7

LEMMA PastStays ==
    ASSUME Parts, NEW t \in Turn, Chat(t) \/ Disconnect(t), NEW u \in Turn, Past(u)
    PROVE  Past(u)'
<1>1. turn \in [Turn -> TurnRow]
  BY DEF Parts, TurnsTyped
<1>2. CASE u # t
  BY <1>2, OneTurnMoves DEF Past
<1>3. CASE u = t
  <2>1. ASSUME NEW pc, Goto(t, pc) PROVE turn'[t].pc = pc /\ turn'[t].outcome = turn[t].outcome
    BY <1>1, <2>1 DEF Goto, TurnRow
  <2>2. ASSUME NEW outcome, NEW serving, Finishing(t, outcome, serving)
        PROVE  turn'[t].pc = "fetch" /\ turn'[t].outcome = outcome
    BY <1>1, <2>2 DEF Finishing, TurnRow
  <2>3. turn[t].pc \in {"report", "fetch", "record"}
    <3>1. turn[t].pc \notin {"ended", "refused", "dropped", "dead"}
      BY DEF Chat, Disconnect, FindConversation, CreateConversation, ReopenConversation, AppendQuestion,
         LogRequest, RequestRaises, BeginRun, RefuseRun, EndRun, RunRaises, FetchConversation, RecordEnd,
         ReportEnd, FinishRaises, Cancel, Drop, At
    <3>2. QED
      BY <1>3, <3>1 DEF Past
  <2>4. \/ FetchConversation(t) \/ RecordEnd(t) \/ ReportEnd(t) \/ FinishRaises(t) \/ Cancel(t) \/ Drop(t)
    BY <2>3 DEF Chat, Disconnect, FindConversation, CreateConversation, ReopenConversation, AppendQuestion,
       LogRequest, RequestRaises, BeginRun, RefuseRun, EndRun, RunRaises, At
  <2>5. CASE FetchConversation(t)
    <3>1. turn[t].pc = "fetch" /\ turn' = [turn EXCEPT ![t] =
             [turn[t] EXCEPT !.pc = "record", !.copy = conversation[turn[t].thread]]]
      BY <2>5 DEF FetchConversation, At
    <3>2. turn'[t].pc = "record" /\ turn'[t].outcome = turn[t].outcome
      BY <1>1, <3>1 DEF TurnRow
    <3>3. QED
      BY <1>3, <3>1, <3>2 DEF Past
  <2>6. CASE RecordEnd(t) \/ ReportEnd(t) \/ Drop(t)
    <3>1. Goto(t, "report") \/ Goto(t, "ended") \/ Goto(t, "dropped")
      BY <2>6 DEF RecordEnd, ReportEnd, Drop
    <3>2. turn'[t].pc \in {"report", "ended", "dropped"}
      BY <2>1, <3>1
    <3>3. QED
      BY <1>3, <3>2 DEF Past
  <2>7. CASE FinishRaises(t) \/ Cancel(t)
    <3>1. Goto(t, "dropped") \/ Finishing(t, "failed", FALSE) \/ Finishing(t, "cancelled", FALSE)
      BY <2>7 DEF FinishRaises, Cancel
    <3>2. \/ turn'[t].pc = "dropped"
          \/ turn'[t].pc = "fetch" /\ turn'[t].outcome \in {"failed", "cancelled"}
      BY <2>1, <2>2, <3>1
    <3>3. QED
      BY <1>3, <3>2 DEF Past
  <2>8. QED
    BY <2>4, <2>5, <2>6, <2>7
<1>4. QED
  BY <1>2, <1>3

(* The same of every step, and an ended turn stays as it is.               *)
LEMMA StepGrows ==
    ASSUME Parts, Parts', [Next]_vars
    PROVE  /\ \A x \in Thread : Grows(x)
           /\ \A u \in Turn : Replies(u) /\ (turn[u].pc = "ended" => turn'[u] = turn[u])
                          /\ (Past(u) => Past(u)')
<1>1. CASE UNCHANGED vars
  BY <1>1 DEF vars, rows, Grows, Replies, Closing, Past
<1>2. ASSUME NEW t \in Turn, NEW th \in Thread, Receive(t, th)
      PROVE  /\ \A x \in Thread : Grows(x)
             /\ \A u \in Turn : Replies(u) /\ (turn[u].pc = "ended" => turn'[u] = turn[u])
                                /\ (Past(u) => Past(u)')
  <2>1. messages' = messages
    BY <1>2 DEF Receive, rows
  <2>2. turn' = [turn EXCEPT ![t] = [turn[t] EXCEPT !.pc = "find", !.thread = th]] /\ turn[t].pc = "unsent"
    BY <1>2 DEF Receive, At
  <2>3. (\A u \in Turn \ {t} : turn'[u] = turn[u]) /\ turn'[t].pc = "find"
    BY <2>2 DEF Parts, TurnsTyped, TurnRow
  <2>4. QED
    BY <2>1, <2>2, <2>3 DEF Grows, Replies, Closing, Past
<1>3. ASSUME NEW t \in Turn, Chat(t) \/ Disconnect(t)
      PROVE  /\ \A x \in Thread : Grows(x)
             /\ \A u \in Turn : Replies(u) /\ (turn[u].pc = "ended" => turn'[u] = turn[u])
                                /\ (Past(u) => Past(u)')
  BY <1>3, ChatGrows, OneTurnMoves, PastStays
<1>4. CASE ProcessCrash
  <2>1. messages' = messages
    BY <1>4 DEF ProcessCrash, rows
  <2>2. ASSUME NEW u \in Turn
        PROVE  turn'[u] = turn[u] \/ (turn'[u].pc = "dead" /\ UnderWay(u))
    <3>1. turn'[u] = turn[u] \/ (turn'[u] = [turn[u] EXCEPT !.pc = "dead"] /\ UnderWay(u))
      BY <1>4 DEF ProcessCrash
    <3>2. turn[u] \in TurnRow
      BY DEF Parts, TurnsTyped
    <3>3. QED
      BY <3>1, <3>2 DEF TurnRow
  <2>3. QED
    BY <2>1, <2>2 DEF Grows, Replies, Closing, UnderWay, Past
<1>5. ASSUME NEW c \in Click, SetFeedback(c)
      PROVE  /\ \A x \in Thread : Grows(x)
             /\ \A u \in Turn : Replies(u) /\ (turn[u].pc = "ended" => turn'[u] = turn[u])
                                /\ (Past(u) => Past(u)')
  <2>1. messages' = messages /\ turn' = turn
    BY <1>5 DEF SetFeedback, Rate, FindAnswer, LookRating, StoreRating, rows
  <2>2. QED
    BY <2>1 DEF Grows, Replies, Closing, Past
<1>6. QED
  BY <1>1, <1>2, <1>3, <1>4, <1>5 DEF Next

(* What a thread has it keeps; a message more is of a turn that goes on.   *)
LEMMA Prefix ==
    ASSUME Parts, NEW x \in Thread, Grows(x)
    PROVE  /\ DOMAIN messages[x] \subseteq DOMAIN messages'[x]
           /\ DOMAIN messages'[x] \subseteq Nat
           /\ \A i \in DOMAIN messages[x] : messages'[x][i] = messages[x][i]
           /\ \A i \in DOMAIN messages'[x] \ DOMAIN messages[x] :
                /\ messages'[x][i].turn \in Turn /\ turn[messages'[x][i].turn].thread = x
                /\ turn[messages'[x][i].turn].pc # "ended"
                /\ messages'[x][i].role = "assistant" =>
                     ~Past(messages'[x][i].turn) /\ \A t : t = messages'[x][i].turn => Past(t)'
<1>1. messages[x] \in Seq(Message)
  BY DEF Parts, RowsTyped
<1>2. CASE messages'[x] = messages[x]
  BY <1>1, <1>2
<1>3. ASSUME NEW m \in Message, messages'[x] = Append(messages[x], m),
             turn[m.turn].thread = x, turn[m.turn].pc # "ended",
             m.role = "assistant" => ~Past(m.turn) /\ Past(m.turn)'
      PROVE  /\ DOMAIN messages[x] \subseteq DOMAIN messages'[x]
             /\ DOMAIN messages'[x] \subseteq Nat
             /\ \A i \in DOMAIN messages[x] : messages'[x][i] = messages[x][i]
             /\ \A i \in DOMAIN messages'[x] \ DOMAIN messages[x] : messages'[x][i] = m
  BY <1>1, <1>3
<1>4. \A m \in Message : m.turn \in Turn
  BY DEF Message
<1>5. QED
  BY <1>2, <1>3, <1>4 DEF Grows

LEMMA MessagesStep == Parts /\ Parts' /\ QuestionsInv /\ MessagesInv /\ [Next]_vars => MessagesInv'
<1> SUFFICES ASSUME Parts, Parts', QuestionsInv, MessagesInv, [Next]_vars PROVE MessagesInv'
  OBVIOUS
<1>1. ASSUME NEW u \in Turn, turn[u].thread \in Thread PROVE turn'[u].thread = turn[u].thread
  <2>1. CASE UNCHANGED vars
    BY <2>1 DEF vars
  <2>2. ASSUME NEW t \in Turn, NEW th \in Thread, Receive(t, th) PROVE turn'[u].thread = turn[u].thread
    BY <1>1, <2>2, ChatAssumption DEF Receive, At, QuestionsInv, Parts, TurnsTyped
  <2>3. ASSUME NEW t \in Turn, Chat(t) \/ Disconnect(t) PROVE turn'[u].thread = turn[u].thread
    BY <2>3, ThreadsStay
  <2>4. CASE ProcessCrash
    <3>1. turn[u] \in TurnRow
      BY DEF Parts, TurnsTyped
    <3>2. turn'[u] = turn[u] \/ turn'[u] = [turn[u] EXCEPT !.pc = "dead"]
      BY <2>4 DEF ProcessCrash
    <3>3. QED
      BY <3>1, <3>2 DEF TurnRow
  <2>5. ASSUME NEW c \in Click, SetFeedback(c) PROVE turn'[u].thread = turn[u].thread
    BY <2>5 DEF SetFeedback, Rate, FindAnswer, LookRating, StoreRating
  <2>6. QED
    BY <2>1, <2>2, <2>3, <2>4, <2>5 DEF Next
<1>2. ASSUME NEW x \in Thread, NEW i \in DOMAIN messages'[x]
      PROVE  /\ turn'[messages'[x][i].turn].thread = x
             /\ messages'[x][i].role = "assistant" => \A t : t = messages'[x][i].turn => Past(t)'
  <2>1. messages[x] \in Seq(Message) /\ \A m \in Message : m.turn \in Turn
    BY DEF Parts, RowsTyped, Message
  <2>2. CASE i \in DOMAIN messages[x]
    <3>1. messages'[x][i] = messages[x][i] /\ messages[x][i].turn \in Turn
      BY <2>1, <2>2, Prefix, StepGrows
    <3>2. messages[x][i].role = "assistant" => Past(messages[x][i].turn)'
      BY <2>2, <3>1, StepGrows DEF MessagesInv
    <3>3. QED
      BY <1>1, <2>2, <3>1, <3>2 DEF MessagesInv
  <2>3. CASE i \notin DOMAIN messages[x]
    BY <1>1, <1>2, <2>3, Prefix, StepGrows
  <2>4. QED
    BY <2>2, <2>3
<1>3. ASSUME NEW t \in Turn, Closing(t)', turn'[t].outcome # "cancelled"
      PROVE  \E i \in DOMAIN messages'[turn'[t].thread] : messages'[turn'[t].thread][i] = Reply(t)'
  <2> DEFINE th == turn[t].thread
  <2>1. /\ turn'[t].outcome = turn[t].outcome /\ turn'[t].thread = th
        /\ Closing(t) \/ messages'[th] = Append(messages[th], Reply(t))
    BY <1>3, StepGrows DEF Replies
  <2>2. Reply(t)' = Reply(t)
    BY <2>1 DEF Reply
  <2>3. th \in Thread
    BY <1>3, <2>1 DEF Parts, TurnsTyped, Closing
  <2>4. CASE Closing(t)
    <3>1. \E i \in DOMAIN messages[th] : messages[th][i] = Reply(t)
      BY <1>3, <2>1, <2>4 DEF MessagesInv
    <3>2. QED
      BY <2>1, <2>2, <2>3, <3>1, Prefix, StepGrows
  <2>5. CASE messages'[th] = Append(messages[th], Reply(t))
    <3>1. messages[th] \in Seq(Message)
      BY <2>3 DEF Parts, RowsTyped
    <3>2. Len(messages[th]) + 1 \in DOMAIN messages'[th] /\ messages'[th][Len(messages[th]) + 1] = Reply(t)
      BY <2>5, <3>1
    <3>3. QED
      BY <2>1, <2>2, <3>2
  <2>6. QED
    BY <2>1, <2>4, <2>5
<1>4. QED
  BY <1>2, <1>3 DEF MessagesInv

LEMMA MessagesInit == Init => MessagesInv
BY DEF Init, MessagesInv, Closing

LEMMA MessagesAlways == Spec => []MessagesInv
<1>1. Init => MessagesInv
  BY MessagesInit
<1>2. Parts /\ Parts' /\ RecordInv /\ MessagesInv /\ [Next]_vars => MessagesInv'
  BY MessagesStep DEF RecordInv
<1>3. QED
  BY <1>1, <1>2, RecordAlways, PTL DEF Spec

LEMMA NoneUnsent ==
    ASSUME Parts, NEW t \in Turn, Chat(t) \/ Disconnect(t)
    PROVE  turn'[t].pc # "unsent"
<1>1. turn \in [Turn -> TurnRow]
  BY DEF Parts, TurnsTyped
<1>2. ASSUME NEW pc, Goto(t, pc) PROVE turn'[t].pc = pc
  BY <1>1, <1>2 DEF Goto, TurnRow
<1>3. ASSUME NEW pc, NEW copy, turn' = [turn EXCEPT ![t] = [@ EXCEPT !.pc = pc, !.copy = copy]]
      PROVE  turn'[t].pc = pc
  BY <1>1, <1>3 DEF TurnRow
<1>4. ASSUME NEW outcome, NEW serving, Finishing(t, outcome, serving)
      PROVE  turn'[t].pc = "fetch"
  BY <1>1, <1>4 DEF Finishing, TurnRow
<1>5. CASE FindConversation(t) \/ FetchConversation(t)
  BY <1>3, <1>5 DEF FindConversation, FetchConversation
<1>6. CASE CreateConversation(t)
  BY <1>2, <1>3, <1>6 DEF CreateConversation
<1>7. CASE ReopenConversation(t) \/ AppendQuestion(t) \/ LogRequest(t) \/ RequestRaises(t) \/ BeginRun(t)
  BY <1>2, <1>7 DEF ReopenConversation, AppendQuestion, LogRequest, RequestRaises, BeginRun
<1>8. CASE RecordEnd(t) \/ ReportEnd(t) \/ Drop(t)
  BY <1>2, <1>8 DEF RecordEnd, ReportEnd, Drop
<1>9. CASE RefuseRun(t) \/ EndRun(t) \/ RunRaises(t) \/ Cancel(t)
  BY <1>4, <1>9 DEF RefuseRun, EndRun, RunRaises, Cancel
<1>10. CASE FinishRaises(t)
  BY <1>2, <1>4, <1>10 DEF FinishRaises
<1>11. QED
  BY <1>5, <1>6, <1>7, <1>8, <1>9, <1>10 DEF Chat, Disconnect

(* The streams: one that was read to its end is of a turn that ended, and  *)
(* nobody cancels a turn whose stream is read.                             *)
ReadInv ==
    \A t \in Turn : /\ stream[t] = "none" <=> turn[t].pc = "unsent"
                    /\ stopper = t => stream[t] # "none"
                    /\ stream[t] = "closed" => turn[t].pc = "ended"
                    /\ stream[t] # "gone" => turn[t].outcome # "cancelled"

LEMMA ReadStep == Parts /\ Parts' /\ PageTyped /\ PageTyped' /\ ReadInv /\ [SessionNext]_all => ReadInv'
<1> SUFFICES ASSUME Parts, Parts', PageTyped, PageTyped', ReadInv, [SessionNext]_all PROVE ReadInv'
  OBVIOUS
<1>1. CASE UNCHANGED all
  BY <1>1 DEF all, vars, page, shell, ReadInv
<1>2. ASSUME Server PROVE ReadInv'
  <2>1. stream' = stream /\ stopper' = stopper
    BY <1>2 DEF Server, page, shell
  <2>2. ASSUME NEW t \in Turn, Chat(t) \/ (stream[t] # "open" /\ Disconnect(t)) PROVE ReadInv'
    <3>1. /\ \A u \in Turn \ {t} : turn'[u] = turn[u]
          /\ turn[t].pc \notin {"unsent", "ended"}
      BY <2>2, OneTurnMoves
    <3>2. stream[t] \notin {"none", "closed"}
      BY <3>1 DEF ReadInv
    <3>11. turn'[t].pc # "unsent"
      BY <2>2, NoneUnsent
    <3>3. CASE Chat(t) /\ stream[t] = "open"
      <4>1. turn[t] \in TurnRow /\ turn[t].outcome # "cancelled" /\ turn \in [Turn -> TurnRow]
        BY <3>3 DEF ReadInv, Parts, TurnsTyped
      <4>11. turn'[t].outcome # "cancelled"
        <5>1. ASSUME NEW pc, Goto(t, pc) PROVE turn'[t].outcome # "cancelled"
          BY <4>1, <5>1 DEF Goto, TurnRow
        <5>2. ASSUME NEW pc, NEW copy, turn' = [turn EXCEPT ![t] = [@ EXCEPT !.pc = pc, !.copy = copy]]
              PROVE  turn'[t].outcome # "cancelled"
          BY <4>1, <5>2 DEF TurnRow
        <5>3. ASSUME NEW outcome, NEW serving, Finishing(t, outcome, serving), outcome # "cancelled"
              PROVE  turn'[t].outcome # "cancelled"
          BY <4>1, <5>3 DEF Finishing, TurnRow
        <5>4. CASE FindConversation(t) \/ FetchConversation(t)
          BY <5>2, <5>4 DEF FindConversation, FetchConversation
        <5>5. CASE CreateConversation(t)
          BY <5>1, <5>2, <5>5 DEF CreateConversation
        <5>6. CASE \/ ReopenConversation(t) \/ AppendQuestion(t) \/ LogRequest(t) \/ RequestRaises(t)
                   \/ BeginRun(t) \/ RecordEnd(t) \/ ReportEnd(t)
          BY <5>1, <5>6 DEF ReopenConversation, AppendQuestion, LogRequest, RequestRaises, BeginRun,
                            RecordEnd, ReportEnd
        <5>7. CASE RefuseRun(t) \/ EndRun(t) \/ RunRaises(t)
          <6>1. PICK outcome \in {"completed", "waiting", "failed"}, serving \in BOOLEAN :
                  Finishing(t, outcome, serving)
            BY <5>7 DEF RefuseRun, EndRun, RunRaises
          <6>2. QED
            BY <5>3, <6>1
        <5>8. CASE FinishRaises(t)
          <6>1. Finishing(t, "failed", FALSE) \/ Goto(t, "dropped")
            BY <5>8 DEF FinishRaises
          <6>2. QED
            BY <5>1, <5>3, <6>1
        <5>9. QED
          BY <3>3, <5>4, <5>5, <5>6, <5>7, <5>8 DEF Chat
      <4>12. QED
        BY <2>1, <3>1, <3>2, <3>11, <4>11 DEF ReadInv
    <3>4. CASE stream[t] # "open"
      <4>1. stream[t] = "gone"
        BY <3>2, <3>4 DEF PageTyped
      <4>2. QED
        BY <2>1, <3>1, <3>11, <4>1 DEF ReadInv
    <3>5. QED
      BY <2>2, <3>3, <3>4
  <2>3. CASE ProcessCrash
    <3>1. ASSUME NEW u \in Turn
          PROVE  /\ turn'[u].outcome = turn[u].outcome
                 /\ turn[u].pc \in {"unsent", "ended"} => turn'[u].pc = turn[u].pc
                 /\ turn'[u].pc = "unsent" => turn[u].pc = "unsent"
      <4>1. turn'[u] = turn[u] \/ (turn'[u] = [turn[u] EXCEPT !.pc = "dead"] /\ UnderWay(u))
        BY <2>3 DEF ProcessCrash
      <4>2. turn[u] \in TurnRow
        BY DEF Parts, TurnsTyped
      <4>3. QED
        BY <4>1, <4>2 DEF TurnRow, UnderWay
    <3>2. QED
      BY <2>1, <3>1 DEF ReadInv
  <2>4. ASSUME NEW c \in Click, FindAnswer(c) \/ LookRating(c) \/ StoreRating(c) PROVE ReadInv'
    BY <2>1, <2>4 DEF FindAnswer, LookRating, StoreRating, ReadInv
  <2>5. QED
    BY <1>2, <2>2, <2>3, <2>4 DEF Server
<1>3. ASSUME NEW t \in Turn, Send(t) PROVE ReadInv'
  <2>1. turn' = [turn EXCEPT ![t] = [turn[t] EXCEPT !.pc = "find", !.thread = shown]] /\ turn[t].pc = "unsent"
    BY <1>3 DEF Send, Receive, At
  <2>2. (\A u \in Turn \ {t} : turn'[u] = turn[u]) /\ turn'[t].outcome = turn[t].outcome
    BY <2>1 DEF Parts, TurnsTyped, TurnRow
  <2>3. stream' = [stream EXCEPT ![t] = "open"]
    BY <1>3 DEF Send
  <2>4. stream'[t] = "open" /\ \A u \in Turn \ {t} : stream'[u] = stream[u]
    BY <2>3 DEF PageTyped
  <2>5. turn[t].outcome # "cancelled" /\ turn'[t].pc = "find"
    BY <2>1 DEF ReadInv, Parts, TurnsTyped, TurnRow
  <2>6. stopper' = t
    BY <1>3 DEF Send
  <2>7. QED
    BY <2>2, <2>4, <2>5, <2>6 DEF ReadInv
<1>4. ASSUME Tab, turn' = turn PROVE ReadInv'
  <2>1. ASSUME NEW t \in Turn, Deliver(t) \/ LoseStream(t) PROVE ReadInv'
    <3>1. PICK end \in {"closed", "gone"} :
            /\ stream' = [stream EXCEPT ![t] = end]
            /\ end = "closed" => turn[t].pc = "ended"
      BY <2>1 DEF Deliver, LoseStream, Settle, At
    <3>2. stream[t] = "open" /\ (stopper' = stopper \/ stopper' = None)
      BY <2>1 DEF Deliver, LoseStream, Settle
    <3>3. stream'[t] = end /\ \A u \in Turn \ {t} : stream'[u] = stream[u]
      BY <3>1 DEF PageTyped
    <3>4. QED
      BY <1>4, <3>1, <3>2, <3>3, ChatAssumption DEF ReadInv
  <2>2. ASSUME Abort PROVE ReadInv'
    <3>1. stopper' = None /\ \A u \in Turn : \/ stream'[u] = stream[u]
                                             \/ u = stopper /\ stream'[u] = "gone"
      BY <2>2, ChatAssumption DEF Abort, PageTyped
    <3>2. QED
      BY <1>4, <3>1, ChatAssumption DEF ReadInv
  <2>3. ASSUME NEW th \in Thread, Reload(th) PROVE ReadInv'
    <3>1. stopper' = None /\ \A u \in Turn : stream'[u] = IF stream[u] = "open" THEN "gone" ELSE stream[u]
      BY <2>3 DEF Reload, Streaming
    <3>2. QED
      BY <1>4, <3>1, ChatAssumption DEF ReadInv
  <2>4. ASSUME stream' = stream, stopper' = stopper PROVE ReadInv'
    BY <1>4, <2>4 DEF ReadInv
  <2>5. ASSUME NEW l \in Load, GetTask(l) \/ LoadArrives(l) \/ LoadFails(l) PROVE ReadInv'
    BY <2>4, <2>5 DEF GetTask, LoadArrives, LoadFails, shell
  <2>6. ASSUME NEW c \in Click, RateAnswer(c) PROVE ReadInv'
    BY <2>4, <2>6 DEF RateAnswer, shell
  <2>7. ASSUME NEW t \in Turn, Send(t) PROVE ReadInv'
    BY <1>3, <2>7
  <2>8. QED
    BY <1>4, <2>1, <2>2, <2>3, <2>5, <2>6, <2>7 DEF Tab, Stop, ResumeSession, LoadSession
<1>5. ASSUME Tab PROVE (\E t \in Turn : Send(t)) \/ turn' = turn
  BY <1>5 DEF Tab, Deliver, LoseStream, Stop, ResumeSession, Reload, LoadSession, GetTask,
     LoadArrives, LoadFails, RateAnswer, Rate, vars
<1>6. QED
  BY <1>1, <1>2, <1>3, <1>4, <1>5 DEF SessionNext

LEMMA ReadAlways == SessionSpec => []ReadInv
<1>1. SessionInit => ReadInv
  BY ChatAssumption DEF SessionInit, Init, ReadInv
<1>2. Parts /\ Parts' /\ ViewInv /\ ViewInv' /\ ReadInv /\ [SessionNext]_all => ReadInv'
  BY ReadStep DEF ViewInv
<1>3. QED
  BY <1>1, <1>2, SessionIsAChat, RecordAlways, ViewAlways, PTL DEF SessionSpec

(* v is the turn of the newest answer of x among those the tab read.       *)
Done(t) == stream[t] = "closed" /\ turn[t].outcome = "completed"
NewestAt(x, v, p) ==
    /\ messages[x][p] = [role |-> "assistant", turn |-> v]
    /\ \A j \in DOMAIN messages[x] :
         (messages[x][j].role = "assistant" /\ (Done(messages[x][j].turn) \/ messages[x][j].turn = v))
            => j <= p
Newest(x, v) == \E p \in DOMAIN messages[x] : NewestAt(x, v, p)

\* The last answer of the entries s is the newest of x.
LastAnswer(s, i) ==
    i \in DOMAIN s /\ s[i].role = "assistant" /\ \A j \in DOMAIN s : s[j].role = "assistant" => j <= i
Fits(x, s) == \A i \in DOMAIN s : LastAnswer(s, i) => Newest(x, s[i].turn)

\* The answer of a turn whose stream is read is the newest.
OpenInv == \A t \in Turn : stream[t] = "open" /\ Closing(t) /\ turn[t].outcome = "completed" =>
    Newest(turn[t].thread, t)

AnswersInv ==
    /\ Pending = {} => Fits(shown, view)
    /\ \A x \in Thread \ {shown} : saved[x] # None => Fits(x, saved[x])
    /\ \A l \in Load : load[l].pc = "found" => Fits(load[l].thread, load[l].found)
    /\ OpenInv

(* What is newest stays so until another answer is read.                   *)
LEMMA NewestStays ==
    ASSUME Parts, MessagesInv, NEW x \in Thread, Grows(x), ReadInv,
           \A u \in Turn : turn[u].thread = x /\ Done(u)' => Done(u), NEW v, Newest(x, v)
    PROVE  Newest(x, v)'
<1>1. PICK p \in DOMAIN messages[x] : NewestAt(x, v, p)
  BY DEF Newest
<1>2. p \in DOMAIN messages'[x] /\ messages'[x][p] = messages[x][p]
  BY Prefix
<1>3. messages[x] \in Seq(Message) /\ \A m \in Message : m.turn \in Turn
  BY DEF Parts, RowsTyped, Message
<1>4. v \in Turn /\ Past(v)
  <2>1. messages[x][p] = [role |-> "assistant", turn |-> v] /\ messages[x][p] \in Message
    BY <1>1, <1>3 DEF NewestAt
  <2>2. QED
    BY <1>3, <2>1 DEF MessagesInv
<1>5. ASSUME NEW j \in DOMAIN messages'[x], messages'[x][j].role = "assistant",
             NEW u, u = messages'[x][j].turn, Done(u)' \/ u = v
      PROVE  j <= p
  <2>1. CASE j \in DOMAIN messages[x]
    <3>1. messages'[x][j] = messages[x][j]
      BY <2>1, Prefix
    <3>2. u \in Turn /\ turn[u].thread = x
      BY <1>3, <1>5, <2>1, <3>1 DEF MessagesInv
    <3>3. messages[x][j].role = "assistant" /\ messages[x][j].turn = u /\ (Done(u) \/ u = v)
      BY <1>5, <3>1, <3>2
    <3>4. QED
      BY <1>1, <2>1, <3>3 DEF NewestAt
  <2>2. CASE j \notin DOMAIN messages[x]
    <3>1. /\ u \in Turn /\ turn[u].thread = x /\ turn[u].pc # "ended" /\ ~Past(u)
      BY <1>5, <2>2, Prefix
    <3>2. ~Done(u)
      BY <3>1 DEF Done, ReadInv
    <3>3. QED
      BY <1>4, <1>5, <3>1, <3>2
  <2>3. QED
    BY <2>1, <2>2
<1>6. NewestAt(x, v, p)'
  <2>1. messages'[x][p] = [role |-> "assistant", turn |-> v]
    BY <1>1, <1>2 DEF NewestAt
  <2>2. \A j \in DOMAIN messages'[x] :
          (messages'[x][j].role = "assistant" /\ (Done(messages[x][j].turn)' \/ messages'[x][j].turn = v))
            => j <= p
    BY <1>5
  <2>3. QED
    BY <2>1, <2>2 DEF NewestAt
<1>7. QED
  BY <1>2, <1>6 DEF Newest

LEMMA FitsStays ==
    ASSUME NEW x, NEW s, Fits(x, s), \A v : Newest(x, v) => Newest(x, v)'
    PROVE  Fits(x, s)'
BY DEF Fits, LastAnswer

(* An entry more.                                                          *)
LEMMA FitsGrows ==
    ASSUME NEW x, NEW S, NEW s \in Seq(S), NEW e, Fits(x, s)',
           e.role = "assistant" => Newest(x, e.turn)'
    PROVE  Fits(x, Append(s, e))'
<1> DEFINE n == Len(s)
           more == Append(s, e)
<1>1. /\ n \in Nat /\ DOMAIN s = 1..n /\ DOMAIN more = 1..(n + 1)
      /\ more[n + 1] = e /\ \A i \in 1..n : more[i] = s[i]
  OBVIOUS
<1> HIDE DEF n, more
<1>2. ASSUME NEW i \in DOMAIN more, LastAnswer(more, i) PROVE Newest(x, more[i].turn)'
  <2>1. CASE i = n + 1
    BY <1>1, <1>2, <2>1 DEF LastAnswer
  <2>2. CASE i # n + 1
    <3>1. i \in 1..n
      BY <1>1, <2>2
    <3>2. LastAnswer(s, i)
      BY <1>1, <1>2, <3>1 DEF LastAnswer
    <3>3. QED
      BY <1>1, <3>1, <3>2 DEF Fits
  <2>3. QED
    BY <2>1, <2>2
<1>3. QED
  BY <1>2 DEF Fits, more, LastAnswer

(* As long as no stream is read to its end, no answer is newer.            *)
LEMMA NoneRead ==
    ASSUME Parts, Parts', MessagesInv, ReadInv, [Next]_vars,
           \A u \in Turn : stream'[u] = "closed" => stream[u] = "closed"
    PROVE  \A x \in Thread : /\ \A v : Newest(x, v) => Newest(x, v)'
                             /\ \A s : Fits(x, s) => Fits(x, s)'
<1> TAKE x \in Thread
<1>1. \A u \in Turn : Done(u)' => Done(u)
  <2>1. ASSUME NEW u \in Turn, Done(u)' PROVE Done(u)
    <3>1. stream'[u] = "closed" /\ turn'[u].outcome = "completed" /\ stream[u] = "closed"
      BY <2>1 DEF Done
    <3>2. turn'[u] = turn[u]
      BY <3>1, StepGrows DEF ReadInv
    <3>3. QED
      BY <3>1, <3>2 DEF Done
  <2>2. QED
    BY <2>1
<1>2. \A v : Newest(x, v) => Newest(x, v)'
  BY <1>1, NewestStays, StepGrows
<1>3. \A s : Fits(x, s) => Fits(x, s)'
  BY <1>2, FitsStays
<1>4. QED
  BY <1>2, <1>3

LEMMA OpenStep ==
    ASSUME Parts, Parts', MessagesInv, ReadInv, [Next]_vars, OpenInv,
           \A u \in Turn : stream'[u] = "closed" => stream[u] = "closed",
           \A u \in Turn : stream'[u] = "open" => stream[u] = "open" \/ ~Closing(u)'
    PROVE  OpenInv'
<1> SUFFICES ASSUME NEW t \in Turn, stream'[t] = "open", Closing(t)', turn'[t].outcome = "completed"
             PROVE  Newest(turn[t].thread, t)'
  BY DEF OpenInv
<1>1. stream[t] = "open" /\ turn'[t].outcome = turn[t].outcome /\ turn'[t].thread = turn[t].thread
  BY StepGrows DEF Replies
<1>2. PICK th \in Thread : th = turn[t].thread /\ th = turn'[t].thread
  BY <1>1 DEF Parts, TurnsTyped, Closing
<1>3. Newest(th, t)'
  <2>1. CASE Closing(t)
    BY <1>1, <1>2, <2>1, NoneRead DEF OpenInv
  <2>2. CASE messages'[th] = Append(messages[th], Reply(t))
    <3>1. messages[th] \in Seq(Message)
      BY DEF Parts, RowsTyped
    <3>2. Reply(t) = [role |-> "assistant", turn |-> t]
      BY <1>1 DEF Reply, Role
    <3>3. PICK p \in Nat : p = Len(messages[th]) + 1
      BY <3>1
    <3>4. DOMAIN messages'[th] = 1..p /\ messages'[th][p] = [role |-> "assistant", turn |-> t]
      BY <2>2, <3>1, <3>2, <3>3
    <3>5. p \in DOMAIN messages'[th] /\ \A j \in DOMAIN messages'[th] : j <= p
      BY <3>3, <3>4
    <3>6. NewestAt(th, t, p)'
      BY <3>4, <3>5 DEF NewestAt
    <3>7. QED
      BY <3>5, <3>6 DEF Newest
  <2>3. QED
    BY <1>1, <1>2, <2>1, <2>2, StepGrows DEF Replies
<1>4. QED
  BY <1>2, <1>3 DEF Newest, NewestAt, Done

(* What the tab shows, keeps and waits for after a step.                   *)
LEMMA AnswersFrom ==
    ASSUME NEW th, NEW s, NEW kept, NEW loads,
           shown' = th, view' = s, saved' = kept, load' = loads, OpenInv',
           Pending' = {} => Fits(th, s)',
           \A x \in Thread \ {th} : kept[x] # None => Fits(x, kept[x])',
           \A l \in Load : loads[l].pc = "found" => Fits(loads[l].thread, loads[l].found)'
    PROVE  AnswersInv'
<1>1. (Pending = {} => Fits(shown, view))'
  BY DEF Fits, Newest, NewestAt, Done
<1>2. (\A x \in Thread \ {shown} : saved[x] # None => Fits(x, saved[x]))'
  BY DEF Fits, Newest, NewestAt, Done
<1>3. (\A l \in Load : load[l].pc = "found" => Fits(load[l].thread, load[l].found))'
  BY DEF Fits, Newest, NewestAt, Done
<1>4. QED
  BY <1>1, <1>2, <1>3 DEF AnswersInv

(* What fits and stays as it is fits after a step without an answer read.  *)
LEMMA AnswersKept ==
    ASSUME PageTyped, AnswersInv, \A x \in Thread : \A s : Fits(x, s) => Fits(x, s)'
    PROVE  /\ Pending = {} => \A th, s : th = shown /\ s = view => Fits(th, s)'
           /\ \A kept : kept = saved =>
                \A x \in Thread \ {shown} : kept[x] # None => Fits(x, kept[x])'
           /\ \A loads : loads = load =>
                \A l \in Load : loads[l].pc = "found" => Fits(loads[l].thread, loads[l].found)'
<1>1. Pending = {} => \A th, s : th = shown /\ s = view => Fits(th, s)'
  BY DEF AnswersInv, PageTyped
<1>2. ASSUME NEW kept, kept = saved, NEW x \in Thread \ {shown}, kept[x] # None
      PROVE  Fits(x, kept[x])'
  BY <1>2 DEF AnswersInv
<1>3. ASSUME NEW loads, loads = load, NEW l \in Load, loads[l].pc = "found"
      PROVE  Fits(loads[l].thread, loads[l].found)'
  BY <1>3 DEF AnswersInv, PageTyped
<1>4. QED
  BY <1>1, <1>2, <1>3

(* The tab shows what it did, or a message more that is no answer.         *)
LEMMA ViewKeepsAnswers ==
    ASSUME PageTyped, PageTyped', AnswersInv, OpenInv',
           \A x \in Thread : \A s : Fits(x, s) => Fits(x, s)',
           shown' = shown, load' = load,
           \/ view' = view /\ saved' = saved
           \/ /\ \E e \in Entry : e.role # "assistant" /\ view' = Append(view, e)
              /\ saved' = [saved EXCEPT ![shown] = view']
    PROVE  AnswersInv'
<1>1. PICK th \in Thread, s \in Seq(Entry), kept \in [Thread -> Seq(Entry) \cup {None}],
           loads \in [Load -> LoadRow] :
        th = shown /\ s = view /\ kept = saved /\ loads = load
  BY DEF PageTyped
<1>2. PICK more \in Seq(Entry), kept2 \in [Thread -> Seq(Entry) \cup {None}] :
        view' = more /\ saved' = kept2
  BY DEF PageTyped
<1>3. Pending' = Pending
  BY DEF Pending
<1>4. Pending = {} => Fits(th, more)'
  <2>1. Pending = {} => Fits(th, s)'
    BY <1>1, AnswersKept
  <2>2. CASE more = s
    BY <2>1, <2>2
  <2>3. ASSUME NEW e \in Entry, e.role # "assistant", more = Append(s, e)
        PROVE  Pending = {} => Fits(th, more)'
    BY <2>1, <2>3, FitsGrows
  <2>4. QED
    BY <1>1, <1>2, <2>2, <2>3
<1>5. \A x \in Thread \ {th} : kept2[x] = kept[x]
  BY <1>1, <1>2
<1>6. \A x \in Thread \ {th} : kept2[x] # None => Fits(x, kept2[x])'
  BY <1>1, <1>5, AnswersKept
<1>7. \A l \in Load : loads[l].pc = "found" => Fits(loads[l].thread, loads[l].found)'
  BY <1>1, AnswersKept
<1>8. QED
  BY <1>1, <1>2, <1>3, <1>4, <1>6, <1>7, AnswersFrom

(* The last chunk of a turn: what was the newest of a stream is shown.     *)
LEMMA DeliverKeepsAnswers ==
    ASSUME Parts, ViewInv, ViewInv', MessagesInv, ReadInv, AnswersInv, ~raced, NEW t \in Turn, Deliver(t)
    PROVE  AnswersInv'
<1>1. /\ stream[t] = "open" /\ turn[t].pc = "ended" /\ stream' = [stream EXCEPT ![t] = "closed"]
      /\ shown' = shown /\ saved' = [saved EXCEPT ![shown] = view'] /\ load' = load
      /\ view' = Say(ShownAs(turn[t].outcome), t) /\ UNCHANGED vars /\ raced' = raced
  BY DEF Deliver, Show, Settle, At
<1>2. PageTyped /\ PageTyped' /\ StreamsInv /\ StreamsInv'
  BY <1>1 DEF ViewInv
<1>3. stopper = t /\ Pending = {} /\ turn[t].thread = shown /\ messages' = messages /\ turn' = turn
  BY <1>1, <1>2 DEF StreamsInv, vars, rows
<1>4. Pending' = Pending
  BY <1>1 DEF Pending
<1>5. stream'[t] = "closed" /\ \A u \in Turn \ {t} : stream'[u] = stream[u] /\ stream[u] # "open"
  BY <1>1, <1>2, <1>3 DEF PageTyped, StreamsInv
<1>6. OpenInv'
  BY <1>5 DEF OpenInv
<1>7. CASE turn[t].outcome # "completed"
  <2>1. ShownAs(turn[t].outcome) \in {"status", "error"}
    BY <1>7 DEF ShownAs
  <2>2. PICK e \in Entry : e.role # "assistant" /\ view' = Append(view, e)
    <3>1. PICK role \in {"status", "error"} : role = ShownAs(turn[t].outcome)
      BY <2>1
    <3>2. [role |-> role, turn |-> t, thread |-> turn[t].thread] \in Entry
      BY DEF Entry, Parts, TurnsTyped, TurnRow
    <3>3. view' = Append(view, [role |-> role, turn |-> t, thread |-> turn[t].thread])
      BY <1>1, <3>1 DEF Say
    <3>4. QED
      BY <3>2, <3>3
  <2>3. \A u \in Turn : Done(u)' => Done(u)
    BY <1>3, <1>5, <1>7 DEF Done
  <2>4. \A x \in Thread : Grows(x)
    BY <1>3 DEF Grows
  <2>5. \A x \in Thread : \A s : Fits(x, s) => Fits(x, s)'
    BY <2>3, <2>4, NewestStays, FitsStays
  <2>6. QED
    BY <1>1, <1>2, <1>6, <2>2, <2>5, ViewKeepsAnswers
<1>8. CASE turn[t].outcome = "completed"
  <2>1. PICK th \in Thread, s \in Seq(Entry), kept \in [Thread -> Seq(Entry) \cup {None}],
             loads \in [Load -> LoadRow] :
          th = shown' /\ s = view' /\ kept = saved' /\ loads = load'
    BY <1>2 DEF PageTyped
  <2>2. Newest(th, t)
    BY <1>1, <1>3, <1>8, <2>1 DEF AnswersInv, OpenInv, Closing
  <2>3. Newest(th, t)'
    <3>1. PICK p \in DOMAIN messages[th] : NewestAt(th, t, p)
      BY <2>2 DEF Newest
    <3>2. \A u : u # t /\ Done(u)' => Done(u) \/ u \notin Turn
      BY <1>3, <1>5 DEF Done
    <3>3. messages[th] \in Seq(Message) /\ \A m \in Message : m.turn \in Turn
      BY DEF Parts, RowsTyped, Message
    <3>4. NewestAt(th, t, p)'
      BY <1>3, <3>1, <3>2, <3>3 DEF NewestAt
    <3>5. QED
      BY <1>3, <3>1, <3>4 DEF Newest
  <2>4. PICK e : s = Append(view, e) /\ e.role = "assistant" /\ e.turn = t
    <3>1. s = Append(view, [role |-> "assistant", turn |-> t, thread |-> turn[t].thread])
      BY <1>1, <1>8, <2>1 DEF Say, ShownAs
    <3>2. PICK e : e = [role |-> "assistant", turn |-> t, thread |-> turn[t].thread]
      OBVIOUS
    <3>3. QED
      BY <3>1, <3>2
  <2>5. Fits(th, s)'
    <3>1. PICK n \in Nat : /\ DOMAIN s = 1..(n + 1) /\ s[n + 1] = e
      BY <1>2, <2>4 DEF PageTyped
    <3>2. \A i : LastAnswer(s, i) => i = n + 1
      BY <2>4, <3>1 DEF LastAnswer
    <3>3. \A i \in DOMAIN s : LastAnswer(s, i) => s[i].turn = t
      BY <2>4, <3>1, <3>2
    <3>4. \A i \in DOMAIN s : LastAnswer(s, i) => Newest(th, s[i].turn)'
      BY <2>3, <3>3 DEF Newest, NewestAt
    <3>5. QED
      BY <3>4 DEF Fits, LastAnswer
  <2>6. ASSUME NEW x \in Thread \ {th}, NEW v, Newest(x, v) PROVE Newest(x, v)'
    <3>1. PICK p \in DOMAIN messages[x] : NewestAt(x, v, p)
      BY <2>6 DEF Newest
    <3>2. \A u : u # t /\ Done(u)' => Done(u) \/ u \notin Turn
      BY <1>3, <1>5 DEF Done
    <3>3. messages[x] \in Seq(Message) /\ \A m \in Message : m.turn \in Turn
      BY DEF Parts, RowsTyped, Message
    <3>4. \A j \in DOMAIN messages[x] : messages[x][j].turn # t
      BY <1>1, <1>3, <2>1, <2>6 DEF MessagesInv
    <3>5. NewestAt(x, v, p)'
      BY <1>3, <3>1, <3>2, <3>3, <3>4 DEF NewestAt
    <3>6. QED
      BY <1>3, <3>1, <3>5 DEF Newest
  <2>7. ASSUME NEW x \in Thread \ {th}, kept[x] # None PROVE Fits(x, kept[x])'
    <3>1. kept[x] = saved[x]
      BY <1>1, <1>2, <2>1, <2>7 DEF PageTyped
    <3>2. Fits(x, kept[x])
      BY <1>1, <2>1, <2>7, <3>1 DEF AnswersInv
    <3>3. QED
      BY <2>6, <3>2, FitsStays
  <2>8. \A l \in Load : loads[l].pc # "found"
    BY <1>1, <1>3, <2>1 DEF Pending
  <2>9. QED
    BY <1>6, <2>1, <2>5, <2>7, <2>8, AnswersFrom
<1>9. QED
  BY <1>7, <1>8

(* The tab turns to another thread of its history or to a new page.        *)
LEMMA ResumeKeepsAnswers ==
    ASSUME ViewInv, ViewInv', AnswersInv, OpenInv', ~raced', NEW x \in Thread, ResumeSession(x),
           \A y \in Thread : \A s : Fits(y, s) => Fits(y, s)'
    PROVE  AnswersInv'
<1>1. /\ saved[x] # None /\ shown' = x /\ view' = saved[x] /\ saved' = [saved EXCEPT ![x] = saved[x]]
      /\ load' = load /\ ~raced /\ Pending = {}
  BY DEF ResumeSession, Show
<1>2. PageTyped /\ PageTyped' /\ saved[shown] = view
  BY <1>1 DEF ViewInv, KeptInv
<1>3. PICK th \in Thread, s \in Seq(Entry), kept \in [Thread -> Seq(Entry) \cup {None}],
           loads \in [Load -> LoadRow] :
        th = shown /\ s = view /\ kept = saved /\ loads = load
  BY <1>2 DEF PageTyped
<1>4. saved' = kept /\ load' = loads
  BY <1>1, <1>2, <1>3 DEF PageTyped
<1>5. Fits(th, s)'
  BY <1>1, <1>2, <1>3, AnswersKept
<1>6. \A y \in Thread \ {th} : kept[y] # None => Fits(y, kept[y])'
  BY <1>2, <1>3, AnswersKept
<1>7. \A y \in Thread : kept[y] # None => Fits(y, kept[y])'
  BY <1>2, <1>3, <1>5, <1>6
<1>8. \A l \in Load : loads[l].pc = "found" => Fits(loads[l].thread, loads[l].found)'
  BY <1>2, <1>3, AnswersKept
<1>9. PICK s2 : s2 = kept[x]
  OBVIOUS
<1>10. view' = s2 /\ shown' = x /\ Fits(x, s2)'
  BY <1>1, <1>3, <1>7, <1>9
<1>11. QED
  BY <1>4, <1>7, <1>8, <1>10, AnswersFrom

LEMMA ReloadKeepsAnswers ==
    ASSUME ViewInv, ViewInv', AnswersInv, OpenInv', NEW th \in Thread, Reload(th)
    PROVE  AnswersInv'
<1>1. /\ shown' = th /\ view' = <<>> /\ saved' = [x \in Thread |-> IF x = th THEN <<>> ELSE None]
      /\ load' = [l \in Load |-> IF l \in Pending
                              THEN [load[l] EXCEPT !.pc = "done", !.found = <<>>] ELSE load[l]]
  BY DEF Reload
<1>2. PICK kept, loads : kept = saved' /\ loads = load'
  OBVIOUS
<1>3. \A x \in Thread \ {th} : kept[x] = None
  BY <1>1, <1>2
<1>4. \A l \in Load : loads[l].pc # "found"
  BY <1>1, <1>2 DEF Pending, ViewInv, PageTyped, LoadRow
<1>5. PICK s : s = view' /\ Fits(th, s)'
  <2>1. Fits(th, <<>>)'
    BY DEF Fits, LastAnswer
  <2>2. QED
    BY <1>1, <2>1
<1>6. shown' = th
  BY <1>1
<1>7. QED
  BY <1>2, <1>3, <1>4, <1>5, <1>6, AnswersFrom

(* The loads: what is shown until the answer arrives, what is found, and   *)
(* what is shown of it.                                                    *)
LEMMA LoadSessionKeepsAnswers ==
    ASSUME ViewInv, ViewInv', AnswersInv, OpenInv', ~raced', NEW l \in Load, NEW x \in Thread,
           LoadSession(l, x), \A y \in Thread : \A s : Fits(y, s) => Fits(y, s)'
    PROVE  AnswersInv'
<1>1. /\ shown' = x /\ view' = view /\ saved' = [saved EXCEPT ![x] = view] /\ ~raced /\ Pending = {}
      /\ load' = [load EXCEPT ![l].pc = "asked", ![l].thread = x]
  BY DEF LoadSession, Show
<1>2. PageTyped /\ PageTyped' /\ saved[shown] = view
  BY <1>1 DEF ViewInv, KeptInv
<1>3. PICK th \in Thread, s \in Seq(Entry), kept \in [Thread -> Seq(Entry) \cup {None}],
           loads \in [Load -> LoadRow] :
        th = shown /\ s = view /\ kept = saved /\ loads = load
  BY <1>2 DEF PageTyped
<1>4. PICK kept2 \in [Thread -> Seq(Entry) \cup {None}], loads2 \in [Load -> LoadRow] :
        kept2 = saved' /\ loads2 = load'
  BY <1>2 DEF PageTyped
<1>5. \A y \in Thread : kept[y] # None => Fits(y, kept[y])'
  <2>1. Fits(th, s)'
    BY <1>1, <1>2, <1>3, AnswersKept
  <2>2. \A y \in Thread \ {th} : kept[y] # None => Fits(y, kept[y])'
    BY <1>2, <1>3, AnswersKept
  <2>3. QED
    BY <1>2, <1>3, <2>1, <2>2
<1>6. \A y \in Thread \ {x} : kept2[y] # None => Fits(y, kept2[y])'
  <2>1. \A y \in Thread \ {x} : kept2[y] = kept[y]
    BY <1>1, <1>3, <1>4
  <2>2. QED
    BY <1>5, <2>1
<1>7. loads2[l].pc = "asked" /\ \A k \in Load \ {l} : loads2[k] = loads[k]
  BY <1>1, <1>3, <1>4 DEF LoadRow
<1>8. \A k \in Load : loads2[k].pc # "found"
  BY <1>1, <1>3, <1>7 DEF Pending
<1>9. Pending' # {}
  BY <1>4, <1>7 DEF Pending
<1>10. shown' = x /\ view' = s
  BY <1>1, <1>3
<1>11. QED
  BY <1>4, <1>6, <1>8, <1>9, <1>10, AnswersFrom

LEMMA GetTaskKeepsAnswers ==
    ASSUME Parts, ViewInv, ViewInv', AnswersInv, OpenInv', NEW l \in Load, GetTask(l),
           \A y \in Thread : \A s : Fits(y, s) => Fits(y, s)'
    PROVE  AnswersInv'
<1>1. PageTyped /\ PageTyped' /\ load[l].pc = "asked"
  BY DEF ViewInv, GetTask
<1>2. PICK th \in Thread, s \in Seq(Entry), kept \in [Thread -> Seq(Entry) \cup {None}],
           loads \in [Load -> LoadRow] :
        th = shown /\ s = view /\ kept = saved /\ loads = load
  BY <1>1 DEF PageTyped
<1>3. PICK pc \in {"missing", "found"} :
        load' = [loads EXCEPT ![l].pc = pc, ![l].found = messages[load[l].thread]]
  BY <1>2 DEF GetTask
<1>4. shown' = th /\ view' = s /\ saved' = kept /\ messages' = messages
  BY <1>2 DEF GetTask, shell, vars, rows
<1>5. PICK x \in Thread, found \in Seq(Message), loads2 \in [Load -> LoadRow] :
        x = load[l].thread /\ found = messages[x] /\ loads2 = load'
  BY <1>1 DEF PageTyped, Parts, RowsTyped
<1>6. /\ loads2[l].pc = pc /\ loads2[l].thread = x /\ loads2[l].found = found
      /\ \A k \in Load \ {l} : loads2[k] = loads[k]
  BY <1>2, <1>3, <1>5 DEF LoadRow
<1>7. Fits(x, found)'
  <2>1. messages'[x] = found
    BY <1>4, <1>5
  <2>2. \A i : LastAnswer(found, i) => Newest(x, found[i].turn)'
    <3>1. ASSUME NEW i, LastAnswer(found, i) PROVE Newest(x, found[i].turn)'
      <4>1. i \in DOMAIN found /\ found[i] \in Message
        BY <3>1 DEF LastAnswer
      <4>2. found[i] = [role |-> "assistant", turn |-> found[i].turn]
        BY <3>1, <4>1 DEF Message, LastAnswer
      <4>3. NewestAt(x, found[i].turn, i)'
        BY <2>1, <3>1, <4>2 DEF NewestAt, LastAnswer
      <4>4. QED
        BY <2>1, <4>1, <4>3 DEF Newest
    <3>2. QED
      BY <3>1
  <2>3. QED
    BY <2>2 DEF Fits, LastAnswer
<1>8. \A k \in Load \ {l} : loads[k].pc = "found" => Fits(loads[k].thread, loads[k].found)'
  BY <1>1, <1>2, AnswersKept
<1>9. \A k \in Load : loads2[k].pc = "found" => Fits(loads2[k].thread, loads2[k].found)'
  BY <1>6, <1>7, <1>8
<1>10. Pending' # {}
  BY <1>5, <1>6 DEF Pending
<1>11. \A y \in Thread \ {th} : kept[y] # None => Fits(y, kept[y])'
  BY <1>1, <1>2, AnswersKept
<1>12. load' = loads2
  BY <1>5
<1>13. QED
  BY <1>4, <1>9, <1>10, <1>11, <1>12, AnswersFrom

LEMMA LoadEndKeepsAnswers ==
    ASSUME Parts, ViewInv, ViewInv', AnswersInv, OpenInv', ~raced, NEW l \in Load,
           LoadArrives(l) \/ LoadFails(l), \A y \in Thread : \A s : Fits(y, s) => Fits(y, s)'
    PROVE  AnswersInv'
<1>1. PageTyped /\ PageTyped' /\ load[l].thread = shown
  BY DEF ViewInv, LoadsInv, LoadArrives, LoadFails, Pending
<1>2. PICK th \in Thread, s \in Seq(Entry), kept \in [Thread -> Seq(Entry) \cup {None}],
           loads \in [Load -> LoadRow] :
        th = shown /\ s = view /\ kept = saved /\ loads = load
  BY <1>1 DEF PageTyped
<1>3. PICK s2 \in Seq(Entry), kept2 \in [Thread -> Seq(Entry) \cup {None}], loads2 \in [Load -> LoadRow] :
        s2 = view' /\ kept2 = saved' /\ loads2 = load'
  BY <1>1 DEF PageTyped
<1>4. /\ shown' = th /\ kept2 = [kept EXCEPT ![th] = s2]
      /\ loads2 = [loads EXCEPT ![l].pc = "done", ![l].found = <<>>]
  BY <1>2, <1>3 DEF LoadArrives, LoadFails, Show
<1>5. loads2[l].pc = "done" /\ \A k \in Load \ {l} : loads2[k] = loads[k]
  BY <1>2, <1>4 DEF LoadRow
<1>6. \A k \in Load : loads[k].pc = "found" => Fits(loads[k].thread, loads[k].found)'
  BY <1>1, <1>2, AnswersKept
<1>7. \A k \in Load : loads2[k].pc = "found" => Fits(loads2[k].thread, loads2[k].found)'
  BY <1>5, <1>6
<1>8. \A y \in Thread \ {th} : kept2[y] # None => Fits(y, kept2[y])'
  <2>1. \A y \in Thread \ {th} : kept2[y] = kept[y]
    BY <1>4
  <2>2. QED
    BY <1>1, <1>2, <2>1, AnswersKept
<1>9. Fits(th, s2)'
  <2>1. CASE LoadArrives(l)
    <3>1. PICK found \in Seq(Message) : found = loads[l].found
      BY DEF LoadRow
    <3>2. s2 = [i \in DOMAIN found |-> [role |-> found[i].role, turn |-> found[i].turn, thread |-> th]]
      BY <1>1, <1>2, <1>3, <2>1, <3>1 DEF LoadArrives, Show
    <3>3. DOMAIN s2 = DOMAIN found /\ \A i \in DOMAIN found : s2[i].role = found[i].role /\ s2[i].turn = found[i].turn
      BY <3>2
    <3>4. Fits(th, found)'
      BY <1>1, <1>2, <1>6, <2>1, <3>1 DEF LoadArrives
    <3>5. \A i : LastAnswer(s2, i) => LastAnswer(found, i)
      BY <3>3 DEF LastAnswer
    <3>6. \A i : LastAnswer(s2, i) => Newest(th, s2[i].turn)'
      <4>1. ASSUME NEW i, LastAnswer(s2, i) PROVE Newest(th, s2[i].turn)'
        <5>1. LastAnswer(found, i) /\ i \in DOMAIN found /\ s2[i].turn = found[i].turn
          BY <3>3, <3>5, <4>1 DEF LastAnswer
        <5>2. Newest(th, found[i].turn)'
          BY <3>4, <5>1 DEF Fits, LastAnswer
        <5>3. QED
          BY <5>1, <5>2
      <4>2. QED
        BY <4>1
    <3>7. QED
      BY <3>6 DEF Fits, LastAnswer
  <2>2. CASE LoadFails(l)
    <3>1. PICK e : s2 = <<e>> /\ e.role = "error"
      <4>1. PICK e : e = [role |-> "error", turn |-> None, thread |-> load[l].thread]
        OBVIOUS
      <4>2. QED
        BY <1>3, <2>2, <4>1 DEF LoadFails, Show
    <3>2. \A i \in DOMAIN s2 : s2[i].role = "error"
      BY <3>1
    <3>3. QED
      BY <3>2 DEF Fits, LastAnswer
  <2>3. QED
    BY <2>1, <2>2
<1>10. view' = s2 /\ saved' = kept2 /\ load' = loads2
  BY <1>3
<1>11. QED
  BY <1>4, <1>7, <1>8, <1>9, <1>10, AnswersFrom

(* Only Deliver ends a stream that is read, only Send opens one.           *)
LEMMA StreamMoves ==
    ASSUME Parts, PageTyped, [SessionNext]_all, \A t \in Turn : ~Deliver(t)
    PROVE  \A u \in Turn : /\ stream'[u] = "closed" => stream[u] = "closed"
                           /\ stream'[u] = "open" => stream[u] = "open" \/ ~Closing(u)'
<1> DEFINE Goal == \A u \in Turn : /\ stream'[u] = "closed" => stream[u] = "closed"
                                   /\ stream'[u] = "open" => stream[u] = "open" \/ ~Closing(u)'
<1>1. CASE stream' = stream
  BY <1>1
<1>2. ASSUME NEW t \in Turn, Send(t) PROVE Goal
  <2>1. stream' = [stream EXCEPT ![t] = "open"]
        /\ turn' = [turn EXCEPT ![t] = [turn[t] EXCEPT !.pc = "find", !.thread = shown]]
    BY <1>2 DEF Send, Receive
  <2>2. turn'[t].pc = "find"
    BY <2>1 DEF Parts, TurnsTyped, TurnRow
  <2>3. QED
    BY <2>1, <2>2 DEF PageTyped, Closing
<1>3. ASSUME NEW t \in Turn, LoseStream(t) PROVE Goal
  BY <1>3 DEF LoseStream, PageTyped
<1>4. CASE Abort
  BY <1>4 DEF Abort, PageTyped
<1>5. ASSUME NEW th \in Thread, Reload(th) PROVE Goal
  BY <1>5 DEF Reload, Streaming, PageTyped
<1>6. CASE Stop \/ (\E th \in Thread : ResumeSession(th)) \/ \E l \in Load, th \in Thread : LoadSession(l, th)
  BY <1>4, <1>6 DEF Stop, ResumeSession, LoadSession
<1>7. CASE Server \/ UNCHANGED all
  BY <1>1, <1>7 DEF Server, all, page, shell
<1>8. CASE \/ \E l \in Load : GetTask(l) \/ LoadArrives(l) \/ LoadFails(l)
           \/ \E c \in Click : RateAnswer(c)
  BY <1>1, <1>8 DEF GetTask, LoadArrives, LoadFails, RateAnswer, shell
<1>9. QED
  BY <1>2, <1>3, <1>5, <1>6, <1>7, <1>8 DEF SessionNext, Tab

LEMMA RacedStays == [SessionNext]_all /\ raced => raced'
<1> SUFFICES ASSUME [SessionNext]_all, raced PROVE raced'
  OBVIOUS
<1>1. CASE Server \/ UNCHANGED all
  BY <1>1 DEF Server, all, page
<1>2. CASE Tab
  BY <1>2 DEF Tab, Send, Deliver, LoseStream, Stop, ResumeSession, Reload, LoadSession, GetTask, LoadArrives,
              LoadFails, RateAnswer
<1>3. QED
  BY <1>1, <1>2 DEF SessionNext

LEMMA AnswersStep ==
    ASSUME Parts, Parts', MessagesInv, ReadInv, ViewInv, ViewInv', AnswersInv, ~raced', [SessionNext]_all
    PROVE  AnswersInv'
<1>1. PageTyped /\ PageTyped' /\ ~raced
  BY RacedStays DEF ViewInv
<1>2. ASSUME NEW t \in Turn, Deliver(t) PROVE AnswersInv'
  BY <1>1, <1>2, DeliverKeepsAnswers
<1>3. ASSUME \A t \in Turn : ~Deliver(t) PROVE AnswersInv'
  <2>1. [Next]_vars
    BY <1>1, TabSteps DEF PageTyped
  <2>2. /\ \A u \in Turn : stream'[u] = "closed" => stream[u] = "closed"
        /\ \A u \in Turn : stream'[u] = "open" => stream[u] = "open" \/ ~Closing(u)'
    BY <1>1, <1>3, StreamMoves
  <2>3. OpenInv'
    BY <2>1, <2>2, OpenStep DEF AnswersInv
  <2>4. \A x \in Thread : \A s : Fits(x, s) => Fits(x, s)'
    BY <2>1, <2>2, NoneRead
  <2>5. CASE UNCHANGED <<shown, view, saved, load>>
    BY <1>1, <2>3, <2>4, <2>5, ViewKeepsAnswers
  <2>6. CASE Server \/ UNCHANGED all \/ Stop \/ \E c \in Click : RateAnswer(c)
    BY <2>5, <2>6 DEF Server, all, page, shell, Stop, RateAnswer
  <2>7. ASSUME NEW t \in Turn, Send(t) \/ LoseStream(t) PROVE AnswersInv'
    <3>1. \E role \in {"user", "error"}, th \in Thread :
             view' = Append(view, [role |-> role, turn |-> t, thread |-> th])
      <4>1. CASE Send(t)
        BY <1>1, <4>1 DEF Send, Show, PageTyped
      <4>2. CASE LoseStream(t)
        <5>1. turn[t].thread \in Thread
          BY <4>2 DEF LoseStream, ReadInv, Parts, TurnsTyped
        <5>2. view' = Append(view, [role |-> "error", turn |-> t, thread |-> turn[t].thread])
          BY <4>2 DEF LoseStream, Say
        <5>3. QED
          BY <5>1, <5>2
      <4>3. QED
        BY <2>7, <4>1, <4>2
    <3>2. PICK role \in {"user", "error"}, th \in Thread :
             view' = Append(view, [role |-> role, turn |-> t, thread |-> th])
      BY <3>1
    <3>3. PICK e : e = [role |-> role, turn |-> t, thread |-> th]
      OBVIOUS
    <3>4. e \in Entry /\ e.role # "assistant" /\ view' = Append(view, e)
      BY <3>2, <3>3 DEF Entry
    <3>5. shown' = shown /\ load' = load /\ saved' = [saved EXCEPT ![shown] = view']
      BY <2>7 DEF Send, LoseStream, Show
    <3>6. QED
      BY <1>1, <2>3, <2>4, <3>4, <3>5, ViewKeepsAnswers
  <2>8. ASSUME NEW th \in Thread, ResumeSession(th) \/ Reload(th) PROVE AnswersInv'
    BY <2>3, <2>4, <2>8, ResumeKeepsAnswers, ReloadKeepsAnswers
  <2>9. ASSUME NEW l \in Load,
               (\E th \in Thread : LoadSession(l, th)) \/ GetTask(l) \/ LoadArrives(l) \/ LoadFails(l)
        PROVE  AnswersInv'
    BY <1>1, <2>3, <2>4, <2>9, LoadSessionKeepsAnswers, GetTaskKeepsAnswers, LoadEndKeepsAnswers
  <2>10. QED
    BY <1>3, <2>6, <2>7, <2>8, <2>9 DEF SessionNext, Tab
<1>4. QED
  BY <1>2, <1>3

LEMMA AnswersAlways == SessionSpec => [](~raced => AnswersInv)
<1>1. SessionInit => AnswersInv
  <2> SUFFICES ASSUME SessionInit PROVE AnswersInv
    OBVIOUS
  <2>1. Fits(shown, view)
    BY DEF SessionInit, Fits, LastAnswer
  <2>2. \A x \in Thread \ {shown} : saved[x] = None
    BY DEF SessionInit
  <2>3. \A l \in Load : load[l].pc = "unsent"
    BY DEF SessionInit
  <2>4. OpenInv
    BY DEF SessionInit, OpenInv
  <2>5. QED
    BY <2>1, <2>2, <2>3, <2>4 DEF AnswersInv
<1>2. Parts /\ Parts' /\ MessagesInv /\ ReadInv /\ ViewInv /\ ViewInv' /\ (~raced => AnswersInv)
        /\ [SessionNext]_all => (~raced => AnswersInv)'
  BY AnswersStep, RacedStays
<1>3. QED
  BY <1>1, <1>2, SessionIsAChat, RecordAlways, MessagesAlways, ReadAlways, ViewAlways, PTL DEF SessionSpec

(* The clicks.  Unless the user acted during a load, a click is answered   *)
(* by the newest answer then: what was read of it, and what was not.       *)
Unread(c, t) == t \in unread[c]
\* The answer the page showed is the newest of those that were read.
AimAt(c, x, p) ==
    /\ messages[x][p] = [role |-> "assistant", turn |-> aim[c]]
    /\ \A j \in DOMAIN messages[x] : \A u : messages[x][j] = [role |-> "assistant", turn |-> u] =>
         Unread(c, u) \/ turn[u].outcome # "completed" \/ j <= p
ClickInv(c) ==
    /\ \A t \in Turn : ~Unread(c, t) => turn[t].pc = "ended" /\ turn[t].outcome # "cancelled"
    /\ \E p \in DOMAIN messages[click[c].thread] : AimAt(c, click[c].thread, p)
\* The reply of a that counts as its answer, and that of its failed end.
Both(x, a) == \A role \in {"assistant", "error"} :
    \E i \in DOMAIN messages[x] : messages[x][i] = [role |-> role, turn |-> a]
Right(c) == LET a == click[c].answer IN
    a \in Turn /\ (a = aim[c] \/ Unread(c, a) \/ turn[a].outcome = "waiting" \/ Both(click[c].thread, a))
RatedInv ==
    /\ aim \in [Click -> Turn \cup {None}] /\ unread \in [Click -> SUBSET Turn]
    /\ \A c \in Click : click[c].pc = "unsent" => click[c].answer = None
    /\ ~raced => \A c \in Click :
         /\ click[c].pc # "unsent" => ClickInv(c)
         /\ click[c].answer # None => Right(c)

(* A set of positions that is not empty has a last one.                    *)
LEMMA LastOfSome ==
    ASSUME NEW n \in Nat, NEW S \in SUBSET (1..n), S # {}
    PROVE  \E i \in S : \A j \in S : j <= i
<1> DEFINE T == {n - i : i \in S}
           less == OpToRel(<, Nat)
<1>1. T \subseteq Nat /\ T # {}
  <2>1. \A i \in S : i \in Nat /\ n - i \in Nat
    OBVIOUS
  <2>2. PICK i \in S : TRUE
    OBVIOUS
  <2>3. n - i \in T
    BY <2>2
  <2>4. QED
    BY <2>1, <2>3
<1>2. IsWellFoundedOn(less, Nat)
  BY NatLessThanWellFounded
<1>3. less = {ss \in Nat \X Nat : ss[1] < ss[2]}
  BY DEF OpToRel
<1> HIDE DEF less, T
<1>4. PICK x \in T : \A y \in T : ~ (<<y, x>> \in less)
  BY <1>1, <1>2, WFMin
<1>5. \A y \in T : x <= y
  <2>1. ASSUME NEW y \in T PROVE x <= y
    <3>1. x \in Nat /\ y \in Nat /\ ~(<<y, x>> \in less)
      BY <1>1, <1>4
    <3>2. <<y, x>> \in less <=> y < x
      BY <1>3, <3>1
    <3>3. QED
      BY <3>1, <3>2
  <2>2. QED
    BY <2>1
<1>6. PICK i \in S : x = n - i
  BY DEF T
<1>7. \A j \in S : n - j \in T
  BY DEF T
<1>8. \A j \in S : j <= i
  BY <1>5, <1>6, <1>7
<1>9. QED
  BY <1>8

(* The page has a latest answer when it shows any.                         *)
LEMMA LatestIsLast ==
    ASSUME PageTyped, Answered # {}
    PROVE  /\ LatestAnswer \in Turn \cup {None}
           /\ \E i : LastAnswer(view, i) /\ LatestAnswer = view[i].turn
<1>1. PICK n \in Nat : n = Len(view)
  BY DEF PageTyped
<1>2. DOMAIN view = 1..n
  BY <1>1 DEF PageTyped
<1>3. Answered \in SUBSET (1..n)
  BY <1>2 DEF Answered
<1>4. \E i \in Answered : \A j \in Answered : j <= i
  BY <1>3, LastOfSome
<1> DEFINE i == CHOOSE i \in Answered : \A j \in Answered : j <= i
<1>5. i \in Answered /\ \A j \in Answered : j <= i
  BY <1>4
<1>6. LatestAnswer = view[i].turn
  BY DEF LatestAnswer
<1> HIDE DEF i
<1>7. LastAnswer(view, i) /\ i \in DOMAIN view
  BY <1>5 DEF Answered, LastAnswer
<1>8. view[i].turn \in Turn \cup {None}
  <2>1. view[i] \in Entry
    BY <1>7 DEF PageTyped
  <2>2. QED
    BY <2>1 DEF Entry
<1>9. QED
  BY <1>6, <1>7, <1>8

(* What a click has seen and found stays so.                               *)
LEMMA ClickStays ==
    ASSUME Parts, Parts', MessagesInv, [Next]_vars, NEW c \in Click,
           aim'[c] = aim[c], unread'[c] = unread[c], click'[c].thread = click[c].thread,
           click'[c].answer = click[c].answer, click[c].pc # "unsent", ClickInv(c)
    PROVE  ClickInv(c)' /\ (Right(c) => Right(c)')
<1>1. PICK x \in Thread : x = click[c].thread
  BY DEF Parts, ClicksTyped
<1>2. messages[x] \in Seq(Message) /\ messages'[x] \in Seq(Message) /\ \A m \in Message : m.turn \in Turn
  BY DEF Parts, RowsTyped, Message
<1>3. \A t \in Turn : ~Unread(c, t) => turn[t].pc = "ended" /\ turn[t].outcome # "cancelled" /\ turn'[t] = turn[t]
  BY StepGrows DEF ClickInv
<1>4. \A t : Unread(c, t)' <=> Unread(c, t)
  BY DEF Unread
<1>5. PICK p \in DOMAIN messages[x] : AimAt(c, x, p)
  BY <1>1 DEF ClickInv
<1>6. p \in DOMAIN messages'[x] /\ messages'[x][p] = messages[x][p]
  BY Prefix, StepGrows
<1>7. ASSUME NEW j \in DOMAIN messages'[x], NEW u, messages'[x][j] = [role |-> "assistant", turn |-> u],
             ~Unread(c, u), turn'[u].outcome = "completed"
      PROVE  j <= p
  <2>1. messages'[x][j].turn = u /\ u \in Turn
    BY <1>2, <1>7
  <2>2. turn[u].pc = "ended" /\ turn[u].outcome = "completed"
    BY <1>3, <1>7, <2>1
  <2>3. j \in DOMAIN messages[x] /\ messages'[x][j] = messages[x][j]
    BY <2>1, <2>2, Prefix, StepGrows
  <2>4. QED
    BY <1>5, <1>7, <2>2, <2>3 DEF AimAt
<1>8. AimAt(c, x, p)'
  <2>1. messages'[x][p] = [role |-> "assistant", turn |-> aim'[c]]
    BY <1>5, <1>6 DEF AimAt
  <2>2. QED
    BY <1>4, <1>7, <2>1 DEF AimAt
<1>9. ClickInv(c)'
  <2>1. \A t \in Turn : ~Unread(c, t)' => turn'[t].pc = "ended" /\ turn'[t].outcome # "cancelled"
    BY <1>3, <1>4
  <2>2. click'[c].thread = x
    BY <1>1
  <2>3. QED
    BY <1>6, <1>8, <2>1, <2>2 DEF ClickInv, AimAt
<1>10. ASSUME Right(c) PROVE Right(c)'
  <2>1. PICK a \in Turn : /\ a = click[c].answer /\ a = click'[c].answer
                          /\ a = aim[c] \/ Unread(c, a) \/ turn[a].outcome = "waiting" \/ Both(x, a)
    BY <1>1, <1>10 DEF Right
  <2>2. Unread(c, a) \/ turn'[a] = turn[a]
    BY <1>3
  <2>3. Both(x, a) => Both(x, a)'
    <3>1. \A i \in DOMAIN messages[x] : i \in DOMAIN messages'[x] /\ messages'[x][i] = messages[x][i]
      BY Prefix, StepGrows
    <3>2. QED
      BY <3>1 DEF Both
  <2>4. a = aim'[c] \/ Unread(c, a)' \/ turn'[a].outcome = "waiting" \/ Both(x, a)'
    BY <1>4, <2>1, <2>2, <2>3
  <2>5. click'[c].thread = x
    BY <1>1
  <2>6. QED
    BY <2>1, <2>4, <2>5 DEF Right, Both, Unread
<1>11. QED
  BY <1>9, <1>10

(* The click: the answer that is shown is the newest that was read.        *)
LEMMA RateAims ==
    ASSUME Parts, Parts', ViewInv, ReadInv, AnswersInv, RatedInv, ~raced', NEW c \in Click, RateAnswer(c)
    PROVE  ClickInv(c)' /\ click'[c].answer = None
<1>1. /\ Answered # {} /\ Pending = {} /\ turn' = turn /\ messages' = messages
      /\ aim' = [aim EXCEPT ![c] = LatestAnswer]
      /\ unread' = [unread EXCEPT ![c] = {t \in Turn : stream[t] # "closed"}]
  BY DEF RateAnswer, Rate, rows
<1>2. PageTyped
  BY DEF ViewInv
<1>3. PICK value \in Rating : click' = [click EXCEPT ![c] =
        [click[c] EXCEPT !.pc = "find", !.thread = shown, !.value = value]]
  BY DEF RateAnswer, Rate
<1>4. click[c].pc = "unsent" /\ click[c].answer = None /\ click \in [Click -> ClickRow]
  BY DEF RateAnswer, Rate, RatedInv, Parts, ClicksTyped
<1>5. click'[c].thread = shown /\ click'[c].answer = None
  BY <1>3, <1>4 DEF ClickRow
<1>6. PICK i : LastAnswer(view, i) /\ LatestAnswer = view[i].turn
  BY <1>1, <1>2, LatestIsLast
<1>7. Newest(shown, LatestAnswer)
  BY <1>1, <1>6 DEF AnswersInv, Fits, LastAnswer
<1>8. PICK x \in Thread : x = shown
  BY <1>2 DEF PageTyped
<1>9. PICK v \in Turn \cup {None} : v = LatestAnswer
  BY <1>1, <1>2, LatestIsLast
<1>10. PICK p \in DOMAIN messages[x] : NewestAt(x, v, p)
  BY <1>7, <1>8, <1>9 DEF Newest
<1>11. aim'[c] = v /\ \A t \in Turn : Unread(c, t)' <=> stream[t] # "closed"
  BY <1>1, <1>9 DEF RatedInv, Unread
<1>12. messages[x] \in Seq(Message) /\ \A m \in Message : m.turn \in Turn
  BY DEF Parts, RowsTyped, Message
<1>13. ASSUME NEW j \in DOMAIN messages[x], NEW u, messages[x][j] = [role |-> "assistant", turn |-> u],
              ~Unread(c, u)', turn[u].outcome = "completed"
       PROVE  j <= p
  <2>1. messages[x][j].turn = u /\ messages[x][j].role = "assistant" /\ u \in Turn
    BY <1>12, <1>13
  <2>2. Done(u)
    BY <1>11, <1>13, <2>1 DEF Done
  <2>3. QED
    BY <1>10, <2>1, <2>2 DEF NewestAt
<1>14. AimAt(c, x, p)'
  <2>1. messages'[x][p] = [role |-> "assistant", turn |-> aim'[c]]
    BY <1>1, <1>10, <1>11 DEF NewestAt
  <2>2. QED
    BY <1>1, <1>13, <2>1 DEF AimAt
<1>15. \A t \in Turn : ~Unread(c, t)' => turn'[t].pc = "ended" /\ turn'[t].outcome # "cancelled"
  BY <1>1, <1>11 DEF ReadInv
<1>16. ClickInv(c)'
  <2>1. click'[c].thread = x /\ p \in DOMAIN messages'[x]
    BY <1>1, <1>5, <1>8, <1>10
  <2>2. QED
    BY <1>14, <1>15, <2>1 DEF ClickInv, AimAt
<1>17. QED
  BY <1>5, <1>16

(* The query: the newest answer is the one the page showed, unless it is   *)
(* of another turn that was not read, that asks back or that failed.       *)
LEMMA FoundIsRight ==
    ASSUME Parts, Parts', MessagesInv, NEW c \in Click, FindAnswer(c), ClickInv(c),
           aim'[c] = aim[c], unread'[c] = unread[c]
    PROVE  click'[c].answer # None => Right(c)'
<1>1. PICK x \in Thread : x = click[c].thread
  BY DEF Parts, ClicksTyped, FindAnswer
<1>2. messages[x] \in Seq(Message) /\ messages' = messages /\ turn' = turn
  BY DEF Parts, RowsTyped, FindAnswer, rows
<1>3. PICK p \in DOMAIN messages[x] : AimAt(c, x, p)
  BY <1>1 DEF ClickInv
<1>4. Answers(x) # {} /\ p \in Answers(x)
  BY <1>3 DEF Answers, AimAt
<1>5. PICK i \in Answers(x) : /\ \A j \in Answers(x) : j <= i
                              /\ click' = [click EXCEPT ![c] =
                                   [click[c] EXCEPT !.pc = "look", !.answer = messages[x][i].turn]]
  BY <1>1, <1>4 DEF FindAnswer
<1>6. PICK a \in Turn : messages[x][i] = [role |-> "assistant", turn |-> a]
  <2>1. i \in DOMAIN messages[x] /\ messages[x][i] \in Message /\ messages[x][i].role = "assistant"
    BY <1>2 DEF Answers
  <2>2. QED
    BY <2>1 DEF Message
<1>7. click'[c].answer = a /\ click'[c].thread = x
  BY <1>1, <1>5, <1>6 DEF Parts, ClicksTyped, ClickRow
<1>8. turn[a].thread = x
  BY <1>6 DEF MessagesInv, Answers
<1>9. Unread(c, a) \/ a = aim[c] \/ turn[a].outcome = "waiting" \/ Both(x, a)
  <2>1. SUFFICES ASSUME ~Unread(c, a) PROVE a = aim[c] \/ turn[a].outcome = "waiting" \/ Both(x, a)
    OBVIOUS
  <2>2. turn[a].pc = "ended" /\ turn[a].outcome \in {"completed", "waiting", "failed"}
    BY <2>1 DEF ClickInv, Parts, TurnsTyped, TurnRow, Outcome
  <2>3. CASE turn[a].outcome = "completed"
    <3>1. i <= p /\ p <= i /\ i \in Nat /\ p \in Nat
      BY <1>2, <1>3, <1>4, <1>5, <1>6, <2>1, <2>3 DEF AimAt, Answers
    <3>2. messages[x][p] = [role |-> "assistant", turn |-> a]
      BY <1>6, <3>1
    <3>3. messages[x][p] = [role |-> "assistant", turn |-> aim[c]]
      BY <1>3 DEF AimAt
    <3>4. QED
      BY <3>2, <3>3
  <2>4. CASE turn[a].outcome = "failed"
    <3>1. PICK k \in DOMAIN messages[x] : messages[x][k] = Reply(a)
      BY <1>8, <2>2, <2>4 DEF MessagesInv, Closing
    <3>2. messages[x][k] = [role |-> "error", turn |-> a]
      BY <2>4, <3>1 DEF Reply, Role
    <3>3. i \in DOMAIN messages[x]
      BY DEF Answers
    <3>4. QED
      BY <1>6, <3>2, <3>3 DEF Both
  <2>5. QED
    BY <2>2, <2>3, <2>4
<1>10. Unread(c, a)' \/ a = aim'[c] \/ turn'[a].outcome = "waiting" \/ Both(x, a)'
  BY <1>2, <1>9 DEF Unread, Both
<1>11. QED
  BY <1>7, <1>10 DEF Right, Both, Unread

(* What a step does to a click.                                            *)
LEMMA ClickMoves ==
    ASSUME Parts, RatedInv, [SessionNext]_all, NEW c \in Click
    PROVE  \/ RateAnswer(c)
           \/ /\ aim'[c] = aim[c] /\ unread'[c] = unread[c]
              /\ click'[c].thread = click[c].thread
              /\ click'[c].pc = "unsent" <=> click[c].pc = "unsent"
              /\ click'[c].answer = click[c].answer \/ FindAnswer(c)
<1> DEFINE Stays == /\ aim'[c] = aim[c] /\ unread'[c] = unread[c]
                    /\ click'[c].thread = click[c].thread
                    /\ click'[c].pc = "unsent" <=> click[c].pc = "unsent"
                    /\ click'[c].answer = click[c].answer \/ FindAnswer(c)
<1>1. click \in [Click -> ClickRow]
  BY DEF Parts, ClicksTyped
<1>2. CASE aim' = aim /\ unread' = unread /\ click' = click
  BY <1>2
<1>3. ASSUME NEW d \in Click, RateAnswer(d), d # c PROVE Stays
  BY <1>1, <1>3 DEF RateAnswer, Rate, RatedInv
<1>4. ASSUME NEW d \in Click, FindAnswer(d) \/ LookRating(d) \/ StoreRating(d), UNCHANGED page PROVE Stays
  <2>1. aim' = aim /\ unread' = unread
    BY <1>4 DEF page
  <2>2. CASE d # c
    <3>1. click'[c] = click[c]
      BY <1>1, <1>4, <2>2 DEF FindAnswer, LookRating, StoreRating
    <3>2. QED
      BY <2>1, <3>1
  <2>3. CASE d = c
    <3>1. CASE FindAnswer(c)
      <4>1. \/ click' = [click EXCEPT ![c].pc = "refused"]
            \/ \E a : click' = [click EXCEPT ![c] = [@ EXCEPT !.pc = "look", !.answer = a]]
        BY <3>1 DEF FindAnswer
      <4>2. click[c].pc = "find"
        BY <3>1 DEF FindAnswer
      <4>3. click'[c].thread = click[c].thread /\ click'[c].pc \in {"refused", "look"}
        <5>1. CASE click' = [click EXCEPT ![c].pc = "refused"]
          BY <1>1, <5>1 DEF ClickRow
        <5>2. ASSUME NEW a, click' = [click EXCEPT ![c] = [@ EXCEPT !.pc = "look", !.answer = a]]
              PROVE  click'[c].thread = click[c].thread /\ click'[c].pc = "look"
          <6>1. click'[c] = [click[c] EXCEPT !.pc = "look", !.answer = a] /\ click[c] \in ClickRow
            BY <1>1, <5>2
          <6>2. QED
            BY <6>1 DEF ClickRow
        <5>3. QED
          BY <4>1, <5>1, <5>2
      <4>4. QED
        BY <2>1, <3>1, <4>2, <4>3
    <3>2. CASE LookRating(c)
      <4>1. /\ click[c].pc = "look"
            /\ click' = [click EXCEPT ![c] = [@ EXCEPT !.pc = "store", !.copy = rating[click[c].answer]]]
        BY <3>2 DEF LookRating
      <4>2. QED
        BY <1>1, <2>1, <4>1 DEF ClickRow
    <3>3. CASE StoreRating(c)
      <4>1. /\ click[c].pc = "store"
            /\ \E pc \in {"error", "saved"} : click' = [click EXCEPT ![c].pc = pc]
        BY <3>3 DEF StoreRating
      <4>2. QED
        BY <1>1, <2>1, <4>1 DEF ClickRow
    <3>4. QED
      BY <1>4, <2>3, <3>1, <3>2, <3>3
  <2>4. QED
    BY <2>2, <2>3
<1>5. CASE Server
  <2>1. CASE \/ \E t \in Turn : Chat(t) \/ Disconnect(t)
             \/ ProcessCrash
    <3>1. click' = click
      BY <2>1 DEF Chat, Disconnect, FindConversation, CreateConversation, ReopenConversation, AppendQuestion,
         LogRequest, RequestRaises, BeginRun, RefuseRun, EndRun, RunRaises, FetchConversation, RecordEnd,
         ReportEnd, FinishRaises, Cancel, Drop, ProcessCrash, clicks
    <3>2. QED
      BY <1>2, <1>5, <3>1 DEF Server, page
  <2>2. QED
    BY <1>4, <1>5, <2>1 DEF Server
<1>6. CASE Tab /\ \A d \in Click : ~RateAnswer(d)
  <2>1. aim' = aim /\ unread' = unread /\ click' = click
    BY <1>6 DEF Tab, Send, Receive, Deliver, LoseStream, Stop, ResumeSession, Reload, LoadSession, GetTask,
       LoadArrives, LoadFails, vars, clicks
  <2>2. QED
    BY <1>2, <2>1
<1>7. CASE UNCHANGED all
  BY <1>2, <1>7 DEF all, vars, clicks, page
<1>8. QED
  BY <1>3, <1>5, <1>6, <1>7 DEF SessionNext

LEMMA AimsTyped ==
    ASSUME PageTyped, RatedInv, [SessionNext]_all
    PROVE  aim' \in [Click -> Turn \cup {None}] /\ unread' \in [Click -> SUBSET Turn]
<1>1. ASSUME NEW c \in Click, RateAnswer(c)
      PROVE  aim' \in [Click -> Turn \cup {None}] /\ unread' \in [Click -> SUBSET Turn]
  <2>1. LatestAnswer \in Turn \cup {None}
    BY <1>1, LatestIsLast DEF RateAnswer
  <2>2. aim' = [aim EXCEPT ![c] = LatestAnswer]
        /\ unread' = [unread EXCEPT ![c] = {t \in Turn : stream[t] # "closed"}]
    BY <1>1 DEF RateAnswer
  <2>3. {t \in Turn : stream[t] # "closed"} \in SUBSET Turn
    OBVIOUS
  <2> HIDE DEF LatestAnswer
  <2>4. QED
    BY <2>1, <2>2, <2>3 DEF RatedInv
<1>2. CASE aim' = aim /\ unread' = unread
  BY <1>2 DEF RatedInv
<1>3. CASE Tab /\ \A c \in Click : ~RateAnswer(c)
  BY <1>2, <1>3 DEF Tab, Send, Deliver, LoseStream, Stop, ResumeSession, Reload, LoadSession, GetTask,
     LoadArrives, LoadFails
<1>4. CASE Server \/ UNCHANGED all
  BY <1>2, <1>4 DEF Server, all, page
<1>5. QED
  BY <1>1, <1>3, <1>4 DEF SessionNext

LEMMA RatedStep ==
    ASSUME Parts, Parts', MessagesInv, ReadInv, ViewInv, ~raced => AnswersInv, RatedInv, [SessionNext]_all
    PROVE  RatedInv'
<1>1. PageTyped /\ [Next]_vars
  BY TabSteps DEF ViewInv, PageTyped
<1>2. ASSUME NEW c \in Click, click'[c].pc = "unsent" PROVE click'[c].answer = None
  <2>1. ~RateAnswer(c)
    <3>1. ASSUME NEW value, click' = [click EXCEPT ![c] =
                    [click[c] EXCEPT !.pc = "find", !.thread = shown, !.value = value]]
          PROVE  FALSE
      <4>1. click'[c] = [click[c] EXCEPT !.pc = "find", !.thread = shown, !.value = value]
            /\ click[c] \in ClickRow
        BY <3>1 DEF Parts, ClicksTyped
      <4>2. click'[c].pc = "find"
        BY <4>1 DEF ClickRow
      <4>3. QED
        BY <1>2, <4>2
    <3>2. QED
      BY <3>1 DEF RateAnswer, Rate
  <2>2. click[c].pc = "unsent" /\ click'[c].answer = click[c].answer
    BY <1>2, <2>1, ClickMoves DEF FindAnswer
  <2>3. QED
    BY <2>2 DEF RatedInv
<1>3. ASSUME ~raced', NEW c \in Click
      PROVE  /\ click'[c].pc # "unsent" => ClickInv(c)'
             /\ click'[c].answer # None => Right(c)'
  <2>1. ~raced /\ AnswersInv
    BY <1>3, RacedStays
  <2>2. CASE RateAnswer(c)
    BY <1>3, <2>1, <2>2, RateAims
  <2>3. CASE ~RateAnswer(c)
    <3>1. /\ aim'[c] = aim[c] /\ unread'[c] = unread[c] /\ click'[c].thread = click[c].thread
          /\ click'[c].pc = "unsent" <=> click[c].pc = "unsent"
          /\ click'[c].answer = click[c].answer \/ FindAnswer(c)
      BY <2>3, ClickMoves
    <3>2. CASE click[c].pc = "unsent"
      BY <1>2, <3>1, <3>2
    <3>3. CASE click[c].pc # "unsent" /\ click'[c].answer = click[c].answer
      <4>1. ClickInv(c) /\ (click[c].answer # None => Right(c))
        BY <2>1, <3>3 DEF RatedInv
      <4>2. ClickInv(c)' /\ (Right(c) => Right(c)')
        BY <1>1, <3>1, <3>3, <4>1, ClickStays
      <4>3. QED
        BY <3>3, <4>1, <4>2
    <3>4. CASE FindAnswer(c)
      <4>1. ClickInv(c)
        BY <2>1, <3>4 DEF RatedInv, FindAnswer
      <4>2. ClickInv(c)'
        <5>1. messages' = messages /\ turn' = turn
          BY <3>4 DEF FindAnswer, rows
        <5>2. QED
          BY <3>1, <4>1, <5>1 DEF ClickInv, AimAt, Unread
      <4>3. QED
        BY <3>1, <3>4, <4>1, <4>2, FoundIsRight
    <3>5. QED
      BY <3>1, <3>2, <3>3, <3>4
  <2>4. QED
    BY <2>2, <2>3
<1>4. QED
  BY <1>1, <1>2, <1>3, AimsTyped DEF RatedInv

LEMMA RatedAlways == SessionSpec => []RatedInv
<1>1. SessionInit => RatedInv
  <2> SUFFICES ASSUME SessionInit PROVE RatedInv
    OBVIOUS
  <2>1. \A c \in Click : click[c].pc = "unsent" /\ click[c].answer = None
    BY DEF SessionInit, Init
  <2>2. aim \in [Click -> Turn \cup {None}] /\ unread \in [Click -> SUBSET Turn]
    BY DEF SessionInit
  <2>3. QED
    BY <2>1, <2>2 DEF RatedInv
<1>2. Parts /\ Parts' /\ MessagesInv /\ ReadInv /\ ViewInv /\ (~raced => AnswersInv) /\ RatedInv
        /\ [SessionNext]_all => RatedInv'
  BY RatedStep
<1>3. QED
  BY <1>1, <1>2, SessionIsAChat, RecordAlways, MessagesAlways, ReadAlways, ViewAlways, AnswersAlways,
     PTL DEF SessionSpec

(* A rating goes to the answer the page showed when the user clicked, or   *)
(* to one the tab had not read, that asks back or whose end failed after   *)
(* it was stored (set_task_feedback takes the newest assistant message),   *)
(* unless the user acted during a load.                                    *)
THEOREM RatingsAreOfShownAnswers == SessionSpec => []RatingIsOfShownAnswer
<1>1. RatedInv => RatingIsOfShownAnswer
  BY DEF RatedInv, Right, Unread, Both, RatingIsOfShownAnswer
<1>2. QED
  BY <1>1, RatedAlways, PTL
-----------------------------------------------------------------------------
(* PageShowsWhatIsKept.  As long as no round trip failed and every stream  *)
(* of a thread is read, what the tab has of the thread is what the table   *)
(* has, up to the turn whose stream is read: its question is shown before  *)
(* it is stored, its answer after.                                         *)

\* The tab reads, or read to its end, the stream of every turn of x.
Watched(x) == \A t \in Turn : turn[t].thread = x => stream[t] \in {"open", "closed"}
Whole(s) == \A i \in DOMAIN s : s[i].turn # None

\* The entry e shows the stored message m.
ShownBy(m, e) ==
    /\ e.turn = m.turn
    /\ \/ e.role = m.role
       \/ m.role = "assistant" /\ turn[m.turn].outcome = "waiting" /\ e.role = "status"
Agree(x, s) == \A i \in DOMAIN s \cap DOMAIN messages[x] : ShownBy(messages[x][i], s[i])
Even(x, s) == Len(s) = Len(messages[x])

\* How far t, whose stream is read, is in what the tab has and in the table.
Follows(x, s, t) ==
    /\ turn[t].pc \in {"find", "create", "reopen", "say"} =>
         Len(s) = Len(messages[x]) + 1 /\ s[Len(s)].role = "user" /\ s[Len(s)].turn = t
    /\ turn[t].pc \in {"log", "accepted", "stream", "fetch", "record"} => Even(x, s)
    /\ Closing(t) => Len(messages[x]) = Len(s) + 1 /\ messages[x][Len(s) + 1] = Reply(t)

\* The entries s tell what the table has of x.
Tells(x, s) == Watched(x) /\ Whole(s) =>
    /\ Agree(x, s)
    /\ (\A t \in Turn : turn[t].thread = x => stream[t] = "closed") => Even(x, s)
    /\ \A t \in Turn : turn[t].thread = x /\ stream[t] = "open" => Follows(x, s, t)

FoundAll(x, s) == Watched(x) => s = messages[x]

PageInv ==
    /\ Pending = {} => Tells(shown, view)
    /\ \A x \in Thread \ {shown} : saved[x] # None => Tells(x, saved[x])
    /\ \A l \in Load : load[l].pc = "found" => FoundAll(load[l].thread, load[l].found)

\* A step that does nothing to a thread whose streams are read.
Quiet(x) == Watched(x)' =>
    /\ messages'[x] = messages[x]
    /\ \A t \in Turn : turn[t].thread = x \/ turn'[t].thread = x =>
         turn'[t] = turn[t] /\ stream'[t] = stream[t]

LEMMA QuietTells ==
    ASSUME Parts, MessagesInv, NEW x \in Thread, Quiet(x), NEW s
    PROVE  /\ Tells(x, s) => Tells(x, s)'
           /\ FoundAll(x, s) => FoundAll(x, s)'
<1>1. SUFFICES ASSUME Watched(x)'
               PROVE  /\ Tells(x, s) => Tells(x, s)'
                      /\ FoundAll(x, s) => FoundAll(x, s)'
  BY DEF Tells, FoundAll
<1>2. /\ messages'[x] = messages[x]
      /\ \A t \in Turn : turn[t].thread = x \/ turn'[t].thread = x =>
           turn'[t] = turn[t] /\ stream'[t] = stream[t]
  BY <1>1 DEF Quiet
<1>3. Watched(x)
  BY <1>1, <1>2 DEF Watched
<1>4. FoundAll(x, s) => FoundAll(x, s)'
  BY <1>2, <1>3 DEF FoundAll
<1>5. ASSUME Tells(x, s), Whole(s)
      PROVE  /\ Agree(x, s)'
             /\ (\A t \in Turn : turn'[t].thread = x => stream'[t] = "closed") => Even(x, s)'
             /\ \A t \in Turn : turn'[t].thread = x /\ stream'[t] = "open" => Follows(x, s, t)'
  <2>1. /\ Agree(x, s)
        /\ (\A t \in Turn : turn[t].thread = x => stream[t] = "closed") => Even(x, s)
        /\ \A t \in Turn : turn[t].thread = x /\ stream[t] = "open" => Follows(x, s, t)
    BY <1>3, <1>5 DEF Tells
  <2>2. ASSUME NEW i \in DOMAIN s \cap DOMAIN messages'[x]
        PROVE  ShownBy(messages[x][i], s[i])'
    <3>1. messages[x] \in Seq(Message) /\ i \in DOMAIN messages[x]
      BY <1>2, <2>2 DEF Parts, RowsTyped
    <3>2. PICK m \in Message : m = messages[x][i] /\ m = messages'[x][i]
      BY <1>2, <3>1
    <3>3. m.turn \in Turn /\ turn[m.turn].thread = x
      BY <3>1, <3>2 DEF MessagesInv, Message
    <3>4. turn'[m.turn] = turn[m.turn]
      BY <1>2, <3>3
    <3>5. ShownBy(m, s[i])
      BY <2>1, <3>1, <3>2, <2>2 DEF Agree
    <3>6. QED
      BY <3>2, <3>4, <3>5 DEF ShownBy
  <2>3. Agree(x, s)'
    BY <2>2 DEF Agree
  <2>4. (\A t \in Turn : turn'[t].thread = x => stream'[t] = "closed") => Even(x, s)'
    BY <1>2, <2>1 DEF Even
  <2>5. ASSUME NEW t \in Turn, turn'[t].thread = x, stream'[t] = "open" PROVE Follows(x, s, t)'
    BY <1>2, <2>1, <2>5 DEF Follows, Even, Closing, Reply
  <2>6. QED
    BY <2>3, <2>4, <2>5
<1>6. Tells(x, s) => Tells(x, s)'
  BY <1>5 DEF Tells, Whole
<1>7. QED
  BY <1>4, <1>6

(* The steps of a turn whose stream is read, when nothing fails.           *)
LEMMA OpenMoves ==
    ASSUME Parts, NEW u \in Turn, Chat(u), faults' = faults
    PROVE  \/ /\ turn[u].pc \in {"find", "create", "reopen"} /\ turn'[u].pc \in {"create", "reopen", "say"}
              /\ messages' = messages /\ turn'[u].outcome = turn[u].outcome
           \/ /\ turn[u].pc = "say" /\ turn'[u].pc = "log" /\ turn'[u].outcome = turn[u].outcome
              /\ messages' = [messages EXCEPT ![turn[u].thread] = Append(@, [role |-> "user", turn |-> u])]
           \/ /\ turn[u].pc \in {"log", "accepted", "stream", "fetch"}
              /\ turn'[u].pc \in {"accepted", "stream", "fetch", "record"}
              /\ messages' = messages
              /\ Past(u) => turn'[u].outcome = turn[u].outcome
           \/ /\ turn[u].pc = "record" /\ turn'[u].pc = "report" /\ turn'[u].outcome = turn[u].outcome
              /\ messages' = IF turn[u].outcome = "cancelled" THEN messages
                             ELSE [messages EXCEPT ![turn[u].thread] = Append(@, Reply(u))]
           \/ /\ turn[u].pc = "report" /\ turn'[u].pc = "ended"
              /\ messages' = messages /\ turn'[u].outcome = turn[u].outcome
<1>1. turn \in [Turn -> TurnRow] /\ faults \in Nat
  BY DEF Parts, TurnsTyped, GhostsTyped
<1>2. ASSUME NEW pc, Goto(u, pc) PROVE turn'[u].pc = pc /\ turn'[u].outcome = turn[u].outcome
  BY <1>1, <1>2 DEF Goto, TurnRow
<1>3. ASSUME NEW pc, NEW copy, turn' = [turn EXCEPT ![u] = [@ EXCEPT !.pc = pc, !.copy = copy]]
      PROVE  turn'[u].pc = pc /\ turn'[u].outcome = turn[u].outcome
  BY <1>1, <1>3 DEF TurnRow
<1>4. ASSUME NEW outcome, NEW serving, Finishing(u, outcome, serving)
      PROVE  turn'[u].pc = "fetch"
  BY <1>1, <1>4 DEF Finishing, TurnRow
<1>5. ~Fault
  BY <1>1 DEF Fault
<1>6. CASE FindConversation(u)
  <2>1. /\ turn' = [turn EXCEPT ![u] =
             [@ EXCEPT !.pc = IF conversation[turn[u].thread] = Absent THEN "create" ELSE "reopen",
                       !.copy = conversation[turn[u].thread]]]
        /\ turn[u].pc = "find" /\ messages' = messages
    BY <1>6 DEF FindConversation, At, rows
  <2>2. PICK pc \in {"create", "reopen"} :
          turn' = [turn EXCEPT ![u] = [@ EXCEPT !.pc = pc, !.copy = conversation[turn[u].thread]]]
    BY <2>1
  <2>3. turn'[u].pc = pc /\ turn'[u].outcome = turn[u].outcome
    BY <1>3, <2>2
  <2>4. QED
    BY <2>1, <2>2, <2>3
<1>7. CASE CreateConversation(u)
  <2>1. /\ \/ Goto(u, "say")
           \/ turn' = [turn EXCEPT ![u] = [@ EXCEPT !.pc = "reopen", !.copy = conversation[turn[u].thread]]]
        /\ turn[u].pc = "create" /\ messages' = messages
    BY <1>7 DEF CreateConversation, At
  <2>2. turn'[u].pc \in {"say", "reopen"} /\ turn'[u].outcome = turn[u].outcome
    BY <1>1, <2>1 DEF Goto, TurnRow
  <2>3. QED
    BY <2>1, <2>2
<1>8. CASE ReopenConversation(u)
  BY <1>2, <1>8 DEF ReopenConversation, At
<1>9. CASE AppendQuestion(u)
  BY <1>2, <1>9 DEF AppendQuestion, At
<1>10. CASE LogRequest(u)
  BY <1>2, <1>10 DEF LogRequest, At
<1>11. CASE BeginRun(u)
  BY <1>2, <1>11 DEF BeginRun, At, rows
<1>12. CASE RefuseRun(u) \/ EndRun(u) \/ RunRaises(u)
  <2>1. turn[u].pc \in {"accepted", "stream"} /\ messages' = messages /\ turn'[u].pc = "fetch"
    BY <1>4, <1>12 DEF RefuseRun, EndRun, RunRaises, At, rows
  <2>2. QED
    BY <2>1 DEF Past
<1>13. CASE FetchConversation(u)
  <2>1. /\ turn' = [turn EXCEPT ![u] = [@ EXCEPT !.pc = "record", !.copy = conversation[turn[u].thread]]]
        /\ turn[u].pc = "fetch" /\ messages' = messages
    BY <1>13 DEF FetchConversation, At, rows
  <2>2. turn'[u].pc = "record" /\ turn'[u].outcome = turn[u].outcome
    BY <1>3, <2>1
  <2>3. QED
    BY <2>1, <2>2
<1>14. CASE RecordEnd(u)
  BY <1>2, <1>14 DEF RecordEnd, At, Reply
<1>15. CASE ReportEnd(u)
  BY <1>2, <1>15 DEF ReportEnd, At
<1>16. CASE RequestRaises(u) \/ FinishRaises(u)
  BY <1>5, <1>16 DEF RequestRaises, FinishRaises
<1>17. QED
  BY <1>6, <1>7, <1>8, <1>9, <1>10, <1>11, <1>12, <1>13, <1>14, <1>15, <1>16 DEF Chat

LEMMA OpenKeepsPage ==
    ASSUME Parts, Parts', MessagesInv, ReadInv, PageTyped, StreamsInv, NEW u \in Turn, Chat(u), stream[u] = "open",
           stream' = stream, faults' = faults, NEW x \in Thread, turn[u].thread = x,
           NEW s \in Seq(Entry), Tells(x, s)
    PROVE  Tells(x, s)'
<1>1. /\ \A t \in Turn \ {u} : turn'[t] = turn[t] /\ stream[t] # "open"
      /\ \A t \in Turn : turn'[t].thread = turn[t].thread
  BY OneTurnMoves, ThreadsStay, ChatAssumption DEF StreamsInv
<1>2. SUFFICES ASSUME Watched(x)', Whole(s)
               PROVE  /\ Agree(x, s)'
                      /\ Follows(x, s, u)'
  BY <1>1 DEF Tells, Whole
<1>3. Agree(x, s) /\ Follows(x, s, u)
  BY <1>1, <1>2 DEF Tells, Watched
<1>4. Grows(x) /\ messages[x] \in Seq(Message) /\ messages \in [Thread -> Seq(Message)]
  BY ChatGrows DEF Parts, RowsTyped
<1>5. PICK n \in Nat, k \in Nat : n = Len(messages[x]) /\ k = Len(s)
  BY <1>4
<1>6. DOMAIN messages[x] = 1..n /\ DOMAIN s = 1..k
  BY <1>4, <1>5
<1>7. turn[u].outcome # "cancelled"
  BY DEF ReadInv
<1>8. Past(u) => turn'[u].outcome = turn[u].outcome
  BY OpenMoves
<1>9. ASSUME NEW i \in 1..n, i <= k PROVE ShownBy(messages[x][i], s[i])'
  <2>1. i \in DOMAIN s \cap DOMAIN messages[x] /\ messages[x][i] \in Message
    BY <1>4, <1>6, <1>9
  <2>2. PICK m \in Message : m = messages[x][i]
    BY <2>1
  <2>3. messages'[x][i] = m
    BY <1>4, <2>1, <2>2, Prefix
  <2>4. ShownBy(m, s[i])
    BY <1>3, <2>1, <2>2 DEF Agree
  <2>5. m.turn \in Turn /\ (m.role = "assistant" => Past(m.turn))
    BY <2>1, <2>2 DEF MessagesInv, Message
  <2>6. m.role = "assistant" => turn'[m.turn].outcome = turn[m.turn].outcome
    BY <1>1, <1>8, <2>5
  <2>7. QED
    BY <2>3, <2>4, <2>6 DEF ShownBy
<1>10. ASSUME messages' = messages PROVE Agree(x, s)'
  BY <1>6, <1>9, <1>10 DEF Agree
<1>11. CASE /\ turn[u].pc \in {"find", "create", "reopen"} /\ turn'[u].pc \in {"create", "reopen", "say"}
            /\ messages' = messages
  BY <1>3, <1>10, <1>11 DEF Follows, Closing
<1>12. CASE /\ turn[u].pc \in {"log", "accepted", "stream", "fetch"}
            /\ turn'[u].pc \in {"accepted", "stream", "fetch", "record"} /\ messages' = messages
  BY <1>3, <1>10, <1>12 DEF Follows, Closing, Even
<1>13. CASE /\ turn[u].pc = "report" /\ turn'[u].pc = "ended"
            /\ messages' = messages /\ turn'[u].outcome = turn[u].outcome
  BY <1>3, <1>10, <1>13 DEF Follows, Closing, Reply
<1>14. CASE /\ turn[u].pc = "say" /\ turn'[u].pc = "log"
            /\ messages' = [messages EXCEPT ![turn[u].thread] = Append(@, [role |-> "user", turn |-> u])]
  <2>1. PICK m : m = [role |-> "user", turn |-> u]
    OBVIOUS
  <2>2. messages'[x] = Append(messages[x], m) /\ m.role = "user" /\ m.turn = u
    BY <1>4, <1>14, <2>1
  <2>3. k = n + 1 /\ s[n + 1].role = "user" /\ s[n + 1].turn = u
    BY <1>3, <1>5, <1>14 DEF Follows
  <2>4. DOMAIN messages'[x] = 1..(n + 1) /\ Len(messages'[x]) = n + 1 /\ messages'[x][n + 1] = m
    BY <1>4, <1>5, <1>6, <2>2
  <2>5. ShownBy(messages[x][n + 1], s[n + 1])'
    BY <2>2, <2>3, <2>4 DEF ShownBy
  <2>6. \A i \in 1..(n + 1) : i = n + 1 \/ (i \in 1..n /\ i <= k)
    BY <2>3
  <2>7. \A i \in DOMAIN s \cap DOMAIN messages'[x] : ShownBy(messages[x][i], s[i])'
    BY <1>6, <1>9, <2>4, <2>5, <2>6
  <2>8. Agree(x, s)'
    BY <2>7 DEF Agree
  <2>9. QED
    BY <1>5, <1>14, <2>3, <2>4, <2>8 DEF Follows, Closing, Even
<1>15. CASE /\ turn[u].pc = "record" /\ turn'[u].pc = "report" /\ turn'[u].outcome = turn[u].outcome
            /\ messages' = [messages EXCEPT ![turn[u].thread] = Append(@, Reply(u))]
  <2>1. PICK m : m = Reply(u)
    OBVIOUS
  <2>2. messages'[x] = Append(messages[x], m) /\ Reply(u)' = m
    BY <1>4, <1>15, <2>1 DEF Reply
  <2>3. k = n
    BY <1>3, <1>5, <1>15 DEF Follows, Even
  <2>4. DOMAIN messages'[x] = 1..(n + 1) /\ Len(messages'[x]) = n + 1 /\ messages'[x][n + 1] = m
    BY <1>4, <1>5, <1>6, <2>2
  <2>5. \A i \in DOMAIN s \cap DOMAIN messages'[x] : i \in 1..n /\ i <= k
    BY <1>6, <2>3, <2>4
  <2>6. Agree(x, s)'
    BY <1>9, <2>5 DEF Agree
  <2>7. QED
    BY <1>5, <1>15, <2>2, <2>3, <2>4, <2>6 DEF Follows, Closing
<1>16. QED
  BY <1>7, <1>11, <1>12, <1>13, <1>14, <1>15, OpenMoves

(* The server's other steps.                                               *)
LEMMA ServerIsQuiet ==
    ASSUME Parts, ReadInv, NEW u \in Turn, Chat(u) \/ (stream[u] # "open" /\ Disconnect(u)),
           NEW x \in Thread, turn[u].thread # x \/ stream[u] # "open", stream' = stream, Parts'
    PROVE  Quiet(x)
<1>1. /\ \A t \in Turn \ {u} : turn'[t] = turn[t]
      /\ turn[u].pc \notin {"unsent", "ended"}
      /\ \A t \in Turn : turn'[t].thread = turn[t].thread
  BY OneTurnMoves, ThreadsStay
<1>2. stream[u] \notin {"none", "closed"}
  BY <1>1 DEF ReadInv
<1>3. CASE turn[u].thread = x
  BY <1>1, <1>2, <1>3 DEF Quiet, Watched
<1>4. CASE turn[u].thread # x
  <2>1. messages'[x] = messages[x]
    <3>1. messages \in [Thread -> Seq(Message)]
      BY DEF Parts, RowsTyped
    <3>2. messages' = messages \/ \E m : messages' = [messages EXCEPT ![turn[u].thread] = Append(@, m)]
      BY DEF Chat, Disconnect, FindConversation, CreateConversation, ReopenConversation, AppendQuestion,
         LogRequest, RequestRaises, BeginRun, RefuseRun, EndRun, RunRaises, FetchConversation, RecordEnd,
         ReportEnd, FinishRaises, Cancel, Drop, rows
    <3>3. QED
      BY <1>4, <3>1, <3>2
  <2>2. QED
    BY <1>1, <1>4, <2>1 DEF Quiet
<1>5. QED
  BY <1>3, <1>4

(* Where nothing but streams changes, and those only by being dropped.     *)
LEMMA DroppedIsQuiet ==
    ASSUME messages' = messages, turn' = turn, \A t \in Turn : stream'[t] \in {stream[t], "gone"}
    PROVE  \A x \in Thread : Quiet(x)
BY DEF Quiet, Watched

(* What the tab shows, keeps and waits for after a step.                   *)
LEMMA PageFrom ==
    ASSUME NEW th, NEW s, NEW kept, NEW loads,
           shown' = th, view' = s, saved' = kept, load' = loads,
           Pending' = {} => Tells(th, s)',
           \A x \in Thread \ {th} : kept[x] # None => Tells(x, kept[x])',
           \A l \in Load : loads[l].pc = "found" => FoundAll(loads[l].thread, loads[l].found)'
    PROVE  PageInv'
<1>1. (Pending = {} => Tells(shown, view))'
  BY DEF Tells, Watched, Whole, Agree, ShownBy, Even, Follows, Closing, Reply
<1>2. (\A x \in Thread \ {shown} : saved[x] # None => Tells(x, saved[x]))'
  BY DEF Tells, Watched, Whole, Agree, ShownBy, Even, Follows, Closing, Reply
<1>3. (\A l \in Load : load[l].pc = "found" => FoundAll(load[l].thread, load[l].found))'
  BY DEF FoundAll, Watched
<1>4. QED
  BY <1>1, <1>2, <1>3 DEF PageInv

\* What told, tells, and what was found is still all.
Steady ==
    /\ \A x \in Thread, s \in Seq(Entry) : Tells(x, s) => Tells(x, s)'
    /\ Pending # {} => \A x \in Thread : \A s : FoundAll(x, s) => FoundAll(x, s)'

LEMMA PageKept ==
    ASSUME PageTyped, PageInv, Steady
    PROVE  /\ Pending = {} => \A th, s : th = shown /\ s = view => Tells(th, s)'
           /\ \A kept : kept = saved =>
                \A x \in Thread \ {shown} : kept[x] # None => Tells(x, kept[x])'
           /\ \A loads : loads = load =>
                \A l \in Load : loads[l].pc = "found" => FoundAll(loads[l].thread, loads[l].found)'
<1>1. Pending = {} => \A th, s : th = shown /\ s = view => Tells(th, s)'
  BY DEF PageInv, PageTyped, Steady
<1>2. ASSUME NEW kept, kept = saved, NEW x \in Thread \ {shown}, kept[x] # None
      PROVE  Tells(x, kept[x])'
  <2>1. kept[x] \in Seq(Entry) /\ Tells(x, kept[x])
    BY <1>2 DEF PageInv, PageTyped
  <2>2. QED
    BY <2>1 DEF Steady
<1>3. ASSUME NEW loads, loads = load, NEW l \in Load, loads[l].pc = "found"
      PROVE  FoundAll(loads[l].thread, loads[l].found)'
  <2>1. l \in Pending /\ loads[l].thread \in Thread /\ FoundAll(loads[l].thread, loads[l].found)
    BY <1>3 DEF PageInv, PageTyped, Pending
  <2>2. QED
    BY <2>1 DEF Steady
<1>4. QED
  BY <1>1, <1>2, <1>3

LEMMA QuietIsSteady ==
    ASSUME Parts, MessagesInv, \A x \in Thread : Quiet(x)
    PROVE  Steady
BY QuietTells DEF Steady

(* The tab shows what it did.                                              *)
LEMMA ViewKeepsPage ==
    ASSUME PageTyped, PageInv, Steady, UNCHANGED <<shown, view, saved, load>>
    PROVE  PageInv'
<1>1. PICK th, s, kept, loads : th = shown /\ s = view /\ kept = saved /\ loads = load
  OBVIOUS
<1>2. Pending' = Pending
  BY DEF Pending
<1>3. shown' = th /\ view' = s /\ saved' = kept /\ load' = loads
  BY <1>1
<1>4. Pending' = {} => Tells(th, s)'
  BY <1>1, <1>2, PageKept
<1>5. \A x \in Thread \ {th} : kept[x] # None => Tells(x, kept[x])'
  BY <1>1, PageKept
<1>6. \A l \in Load : loads[l].pc = "found" => FoundAll(loads[l].thread, loads[l].found)'
  BY <1>1, PageKept
<1>7. QED
  BY <1>3, <1>4, <1>5, <1>6, PageFrom

(* A message more is shown, while nothing is loaded.                       *)
LEMMA MoreKeepsPage ==
    ASSUME PageTyped, PageTyped', PageInv, Pending = {}, \A x \in Thread \ {shown} : Quiet(x), Parts, MessagesInv,
           shown' = shown, load' = load, saved' = [saved EXCEPT ![shown] = view'],
           \A th, s : th = shown /\ s = view' => Tells(th, s)'
    PROVE  PageInv'
<1>1. PICK th \in Thread, s \in Seq(Entry), kept \in [Thread -> Seq(Entry) \cup {None}],
           loads \in [Load -> LoadRow] :
        th = shown /\ s = view' /\ kept = saved' /\ loads = load
  BY DEF PageTyped
<1>2. Pending' = {}
  BY DEF Pending
<1>3. Tells(th, s)'
  BY <1>1
<1>4. ASSUME NEW x \in Thread \ {th}, kept[x] # None PROVE Tells(x, kept[x])'
  <2>1. kept[x] = saved[x]
    BY <1>1, <1>4 DEF PageTyped
  <2>2. PICK old : old = saved[x]
    OBVIOUS
  <2>3. Tells(x, old)
    BY <1>1, <1>4, <2>1, <2>2 DEF PageInv
  <2>4. Tells(x, old)'
    BY <1>1, <1>4, <2>3, QuietTells
  <2>5. QED
    BY <2>1, <2>2, <2>4
<1>5. \A l \in Load : loads[l].pc # "found"
  BY <1>1 DEF Pending
<1>6. shown' = th /\ view' = s /\ saved' = kept /\ load' = loads
  BY <1>1
<1>7. QED
  BY <1>2, <1>3, <1>4, <1>5, <1>6, PageFrom

LEMMA SendKeepsPage ==
    ASSUME Parts, Parts', MessagesInv, QuestionsInv, ReadInv, ViewInv, ViewInv', PageInv, ~raced', NEW t \in Turn, Send(t)
    PROVE  PageInv'
<1> DEFINE e == [role |-> "user", turn |-> t, thread |-> shown]
<1>1. /\ ~busy /\ view' = Append(view, e) /\ shown' = shown /\ saved' = [saved EXCEPT ![shown] = view']
      /\ stream' = [stream EXCEPT ![t] = "open"] /\ load' = load /\ ~raced /\ Pending = {}
      /\ turn' = [turn EXCEPT ![t] = [turn[t] EXCEPT !.pc = "find", !.thread = shown]]
      /\ messages' = messages /\ turn[t].pc = "unsent"
  BY DEF Send, Show, Receive, At, rows
<1>2. PageTyped /\ PageTyped' /\ StreamsInv
  BY <1>1 DEF ViewInv
<1>3. /\ turn'[t].pc = "find" /\ turn'[t].thread = shown /\ turn[t].thread = None
      /\ \A u \in Turn \ {t} : turn'[u] = turn[u] /\ stream'[u] = stream[u] /\ stream[u] # "open"
      /\ stream'[t] = "open"
  BY <1>1, <1>2 DEF Parts, TurnsTyped, TurnRow, QuestionsInv, PageTyped, StreamsInv
<1>4. \A x \in Thread \ {shown} : Quiet(x)
  BY <1>1, <1>3, ChatAssumption DEF Quiet
<1>5. PICK th \in Thread, old \in Seq(Entry) : th = shown /\ old = view
  BY <1>2 DEF PageTyped
<1>6. ASSUME NEW s, s = view', Watched(th)', Whole(s) PROVE Agree(th, s)' /\ Follows(th, s, t)'
  <2>1. PICK m : m = e
    OBVIOUS
  <2>2. s = Append(old, m) /\ m.role = "user" /\ m.turn = t
    BY <1>1, <1>5, <1>6, <2>1
  <2>3. PICK k \in Nat : k = Len(old) /\ DOMAIN old = 1..k
    BY <1>5
  <2>4. /\ DOMAIN s = 1..(k + 1) /\ s[k + 1] = m /\ Len(s) = k + 1 /\ \A i \in 1..k : s[i] = old[i]
    BY <1>5, <2>2, <2>3
  <2>5. Whole(old)
    BY <1>6, <2>3, <2>4 DEF Whole
  <2>6. Watched(th)
    BY <1>3, <1>5, <1>6, ChatAssumption DEF Watched
  <2>7. \A u \in Turn : turn[u].thread = th => stream[u] = "closed"
    BY <1>3, <1>5, <2>6, ChatAssumption DEF Watched
  <2>8. Tells(th, old)
    BY <1>1, <1>5 DEF PageInv
  <2>9. Agree(th, old) /\ Even(th, old)
    BY <2>5, <2>6, <2>7, <2>8 DEF Tells
  <2>10. messages[th] \in Seq(Message) /\ Len(messages[th]) = k
    BY <1>5, <2>3, <2>9 DEF Parts, RowsTyped, Even
  <2>11. ASSUME NEW i \in DOMAIN s \cap DOMAIN messages'[th] PROVE ShownBy(messages[th][i], s[i])'
    <3>1. i \in 1..k /\ s[i] = old[i] /\ messages'[th][i] = messages[th][i] /\ i \in DOMAIN messages[th]
      BY <1>1, <2>4, <2>10, <2>11
    <3>2. ShownBy(messages[th][i], old[i])
      BY <2>3, <2>9, <3>1 DEF Agree
    <3>3. messages[th][i] \in Message /\ turn[messages[th][i].turn].thread = th
      BY <2>10, <3>1 DEF MessagesInv
    <3>4. messages[th][i].turn \in Turn /\ messages[th][i].turn # t
      BY <1>3, <1>5, <3>3, ChatAssumption DEF Message
    <3>5. turn'[messages[th][i].turn] = turn[messages[th][i].turn]
      BY <1>3, <3>4
    <3>6. PICK a, b : a = messages[th][i] /\ b = old[i]
      OBVIOUS
    <3>7. ShownBy(a, b)'
      BY <3>2, <3>5, <3>6 DEF ShownBy
    <3>8. QED
      BY <3>1, <3>6, <3>7 DEF ShownBy
  <2>12. Agree(th, s)'
    BY <2>11 DEF Agree
  <2>13. Follows(th, s, t)'
    BY <1>1, <1>3, <2>2, <2>4, <2>10 DEF Follows, Closing
  <2>14. QED
    BY <2>12, <2>13
<1>7. \A s : s = view' => Tells(th, s)'
  <2> SUFFICES ASSUME NEW s, s = view', Watched(th)', Whole(s)
               PROVE  /\ Agree(th, s)'
                      /\ (\A u \in Turn : turn'[u].thread = th => stream'[u] = "closed") => Even(th, s)'
                      /\ \A u \in Turn : turn'[u].thread = th /\ stream'[u] = "open" => Follows(th, s, u)'
    BY DEF Tells, Whole
  <2>1. Agree(th, s)' /\ Follows(th, s, t)'
    BY <1>6
  <2>2. QED
    BY <1>3, <1>5, <2>1
<1>8. QED
  BY <1>1, <1>2, <1>4, <1>5, <1>7, MoreKeepsPage

(* The last chunk of a turn shows the reply the table has.                 *)
LEMMA DeliverKeepsPage ==
    ASSUME Parts, MessagesInv, ReadInv, ViewInv, ViewInv', PageInv, ~raced, NEW t \in Turn, Deliver(t)
    PROVE  PageInv'
<1>1. /\ stream[t] = "open" /\ turn[t].pc = "ended" /\ stream' = [stream EXCEPT ![t] = "closed"]
      /\ shown' = shown /\ saved' = [saved EXCEPT ![shown] = view'] /\ load' = load
      /\ view' = Say(ShownAs(turn[t].outcome), t) /\ UNCHANGED vars /\ raced' = raced
  BY DEF Deliver, Show, Settle, At
<1>2. PageTyped /\ PageTyped' /\ StreamsInv
  BY <1>1 DEF ViewInv
<1>3. Pending = {} /\ turn[t].thread = shown /\ messages' = messages /\ turn' = turn
  BY <1>1, <1>2 DEF StreamsInv, vars, rows
<1>4. stream'[t] = "closed" /\ \A u \in Turn \ {t} : stream'[u] = stream[u] /\ stream[u] # "open"
  BY <1>1, <1>2, ChatAssumption DEF PageTyped, StreamsInv
<1>5. \A x \in Thread \ {shown} : Quiet(x)
  BY <1>3, <1>4 DEF Quiet
<1>6. PICK th \in Thread, old \in Seq(Entry) : th = shown /\ old = view
  BY <1>2 DEF PageTyped
<1>7. turn[t].outcome \in {"completed", "waiting", "failed"}
  BY <1>1 DEF ReadInv, Parts, TurnsTyped, TurnRow, Outcome
<1>8. ASSUME NEW s, s = view', Watched(th)', Whole(s) PROVE Agree(th, s)' /\ Even(th, s)'
  <2>1. PICK role : role = ShownAs(turn[t].outcome)
    OBVIOUS
  <2>2. PICK e : e = [role |-> role, turn |-> t, thread |-> turn[t].thread]
    OBVIOUS
  <2>3. s = Append(old, e) /\ e.role = role /\ e.turn = t
    BY <1>1, <1>6, <1>8, <2>1, <2>2 DEF Say
  <2>4. PICK k \in Nat : k = Len(old) /\ DOMAIN old = 1..k
    BY <1>6
  <2>5. /\ DOMAIN s = 1..(k + 1) /\ s[k + 1] = e /\ Len(s) = k + 1 /\ \A i \in 1..k : s[i] = old[i]
    BY <1>6, <2>3, <2>4
  <2>6. Whole(old)
    BY <1>8, <2>4, <2>5 DEF Whole
  <2>7. Watched(th)
    BY <1>1, <1>3, <1>4, <1>8 DEF Watched
  <2>8. Tells(th, old)
    BY <1>3, <1>6 DEF PageInv
  <2>9. Agree(th, old) /\ Follows(th, old, t)
    BY <1>1, <1>3, <1>6, <2>6, <2>7, <2>8 DEF Tells
  <2>10. Len(messages[th]) = k + 1 /\ messages[th][k + 1] = Reply(t)
    BY <1>1, <2>4, <2>9 DEF Follows, Closing
  <2>11. messages[th] \in Seq(Message) /\ DOMAIN messages[th] = 1..(k + 1)
    <3>1. messages[th] \in Seq(Message)
      BY DEF Parts, RowsTyped
    <3>2. QED
      BY <2>10, <3>1
  <2>12. PICK m : m = Reply(t)
    OBVIOUS
  <2>13. /\ m.turn = t
         /\ turn[t].outcome = "completed" => m.role = "assistant" /\ role = "assistant"
         /\ turn[t].outcome = "waiting" => m.role = "assistant" /\ role = "status"
         /\ turn[t].outcome = "failed" => m.role = "error" /\ role = "error"
    <3>1. m = [role |-> Role(turn[t].outcome), turn |-> t]
      BY <2>12 DEF Reply
    <3>2. m.turn = t /\ m.role = Role(turn[t].outcome)
      BY <3>1
    <3>3. /\ turn[t].outcome = "completed" => role = "assistant"
          /\ turn[t].outcome = "waiting" => role = "status"
      BY <2>1 DEF ShownAs
    <3>4. turn[t].outcome = "failed" => role = "error"
      BY <2>1 DEF ShownAs
    <3>5. QED
      BY <3>2, <3>3, <3>4 DEF Role
  <2>14. ShownBy(m, e)'
    BY <1>3, <1>7, <2>3, <2>13 DEF ShownBy
  <2>15. ASSUME NEW i \in DOMAIN s \cap DOMAIN messages'[th] PROVE ShownBy(messages[th][i], s[i])'
    <3>1. CASE i = k + 1
      BY <1>3, <2>5, <2>10, <2>12, <2>14, <3>1 DEF ShownBy
    <3>2. CASE i # k + 1
      <4>1. i \in 1..k /\ s[i] = old[i] /\ messages'[th][i] = messages[th][i] /\ i \in DOMAIN messages[th]
        BY <1>3, <2>5, <2>11, <2>15, <3>2
      <4>2. ShownBy(messages[th][i], old[i])
        BY <2>4, <2>9, <4>1 DEF Agree
      <4>3. QED
        BY <1>3, <4>1, <4>2 DEF ShownBy
    <3>3. QED
      BY <3>1, <3>2
  <2>16. Agree(th, s)'
    BY <2>15 DEF Agree
  <2>17. Even(th, s)'
    BY <1>3, <2>5, <2>10 DEF Even
  <2>18. QED
    BY <2>16, <2>17
<1>9. \A s : s = view' => Tells(th, s)'
  <2> SUFFICES ASSUME NEW s, s = view', Watched(th)', Whole(s)
               PROVE  /\ Agree(th, s)'
                      /\ (\A u \in Turn : turn'[u].thread = th => stream'[u] = "closed") => Even(th, s)'
                      /\ \A u \in Turn : turn'[u].thread = th /\ stream'[u] = "open" => Follows(th, s, u)'
    BY DEF Tells, Whole
  <2>1. Agree(th, s)' /\ Even(th, s)'
    BY <1>8
  <2>2. \A u \in Turn : stream'[u] # "open"
    BY <1>4
  <2>3. QED
    BY <2>1, <2>2
<1>10. QED
  BY <1>1, <1>2, <1>3, <1>5, <1>6, <1>9, MoreKeepsPage

LEMMA LoseKeepsPage ==
    ASSUME Parts, MessagesInv, ViewInv, ViewInv', PageInv, ~raced, NEW t \in Turn, LoseStream(t)
    PROVE  PageInv'
<1>1. /\ stream[t] = "open" /\ stream' = [stream EXCEPT ![t] = "gone"] /\ UNCHANGED vars
      /\ shown' = shown /\ saved' = [saved EXCEPT ![shown] = view'] /\ load' = load
  BY DEF LoseStream
<1>2. PageTyped /\ PageTyped' /\ StreamsInv
  BY DEF ViewInv
<1>3. Pending = {} /\ turn[t].thread = shown /\ messages' = messages /\ turn' = turn
  BY <1>1, <1>2 DEF StreamsInv, vars, rows
<1>4. stream'[t] = "gone" /\ \A u \in Turn \ {t} : stream'[u] = stream[u]
  BY <1>1, <1>2 DEF PageTyped
<1>5. \A x \in Thread : Quiet(x)
  BY <1>3, <1>4, DroppedIsQuiet
<1>6. \A th, s : th = shown /\ s = view' => Tells(th, s)'
  BY <1>3, <1>4 DEF Tells, Watched
<1>7. QED
  BY <1>1, <1>2, <1>3, <1>5, <1>6, MoreKeepsPage

(* The tab turns to another thread of its history or to a new page.        *)
LEMMA ResumeKeepsPage ==
    ASSUME ViewInv, ViewInv', PageInv, ~raced', NEW x \in Thread, ResumeSession(x), Steady
    PROVE  PageInv'
<1>1. /\ saved[x] # None /\ shown' = x /\ view' = saved[x] /\ saved' = [saved EXCEPT ![x] = saved[x]]
      /\ load' = load /\ ~raced /\ Pending = {}
  BY DEF ResumeSession, Show
<1>2. PageTyped /\ PageTyped' /\ saved[shown] = view
  BY <1>1 DEF ViewInv, KeptInv
<1>3. PICK th \in Thread, s \in Seq(Entry), kept \in [Thread -> Seq(Entry) \cup {None}],
           loads \in [Load -> LoadRow] :
        th = shown /\ s = view /\ kept = saved /\ loads = load
  BY <1>2 DEF PageTyped
<1>4. saved' = kept /\ load' = loads
  BY <1>1, <1>2, <1>3 DEF PageTyped
<1>5. Tells(th, s)'
  BY <1>1, <1>2, <1>3, PageKept
<1>6. \A y \in Thread \ {th} : kept[y] # None => Tells(y, kept[y])'
  BY <1>2, <1>3, PageKept
<1>7. \A y \in Thread : kept[y] # None => Tells(y, kept[y])'
  BY <1>2, <1>3, <1>5, <1>6
<1>8. \A l \in Load : loads[l].pc = "found" => FoundAll(loads[l].thread, loads[l].found)'
  BY <1>2, <1>3, PageKept
<1>9. PICK s2 : s2 = kept[x]
  OBVIOUS
<1>10. view' = s2 /\ shown' = x /\ Tells(x, s2)'
  BY <1>1, <1>3, <1>7, <1>9
<1>11. QED
  BY <1>4, <1>7, <1>8, <1>10, PageFrom

LEMMA ReloadKeepsPage ==
    ASSUME Parts, MessagesInv, ViewInv, NEW th \in Thread, Reload(th)
    PROVE  PageInv'
<1>1. /\ shown' = th /\ view' = <<>> /\ saved' = [x \in Thread |-> IF x = th THEN <<>> ELSE None]
      /\ load' = [l \in Load |-> IF l \in Pending
                              THEN [load[l] EXCEPT !.pc = "done", !.found = <<>>] ELSE load[l]]
      /\ UNCHANGED vars
      /\ \A t \in Turn : turn[t].thread # th
  BY DEF Reload
<1>2. PICK kept, loads : kept = saved' /\ loads = load'
  OBVIOUS
<1>3. \A x \in Thread \ {th} : kept[x] = None
  BY <1>1, <1>2
<1>4. \A l \in Load : loads[l].pc # "found"
  BY <1>1, <1>2 DEF Pending, ViewInv, PageTyped, LoadRow
<1>5. PICK s : s = <<>>
  OBVIOUS
<1>6. Len(s) = 0 /\ DOMAIN s = {}
  BY <1>5
<1>7. messages' = messages /\ turn' = turn
  BY <1>1 DEF vars, rows
<1>8. messages[th] \in Seq(Message)
  BY DEF Parts, RowsTyped
<1>9. DOMAIN messages[th] = {}
  <2> SUFFICES ASSUME NEW i \in DOMAIN messages[th] PROVE FALSE
    OBVIOUS
  <2>1. messages[th][i] \in Message
    BY <1>8
  <2>2. messages[th][i].turn \in Turn /\ turn[messages[th][i].turn].thread = th
    BY <2>1 DEF Message, MessagesInv
  <2>3. QED
    BY <1>1, <2>2
<1>10. Len(messages[th]) = 0
  <2>1. PICK n \in Nat : n = Len(messages[th]) /\ DOMAIN messages[th] = 1..n
    BY <1>8
  <2>2. n >= 1 => 1 \in DOMAIN messages[th]
    BY <2>1
  <2>3. QED
    BY <1>9, <2>1, <2>2
<1>11. Tells(th, s)'
  BY <1>1, <1>6, <1>7, <1>10 DEF Tells, Agree, Even
<1>12. shown' = th /\ view' = s
  BY <1>1, <1>5
<1>13. QED
  BY <1>2, <1>3, <1>4, <1>11, <1>12, PageFrom

(* The loads.                                                              *)
LEMMA LoadSessionKeepsPage ==
    ASSUME ViewInv, ViewInv', PageInv, ~raced', NEW l \in Load, NEW x \in Thread, LoadSession(l, x), Steady
    PROVE  PageInv'
<1>1. /\ shown' = x /\ view' = view /\ saved' = [saved EXCEPT ![x] = view] /\ ~raced /\ Pending = {}
      /\ load' = [load EXCEPT ![l].pc = "asked", ![l].thread = x]
  BY DEF LoadSession, Show
<1>2. PageTyped /\ PageTyped' /\ saved[shown] = view
  BY <1>1 DEF ViewInv, KeptInv
<1>3. PICK th \in Thread, s \in Seq(Entry), kept \in [Thread -> Seq(Entry) \cup {None}],
           loads \in [Load -> LoadRow] :
        th = shown /\ s = view /\ kept = saved /\ loads = load
  BY <1>2 DEF PageTyped
<1>4. PICK kept2 \in [Thread -> Seq(Entry) \cup {None}], loads2 \in [Load -> LoadRow] :
        kept2 = saved' /\ loads2 = load'
  BY <1>2 DEF PageTyped
<1>5. \A y \in Thread : kept[y] # None => Tells(y, kept[y])'
  <2>1. Tells(th, s)'
    BY <1>1, <1>2, <1>3, PageKept
  <2>2. \A y \in Thread \ {th} : kept[y] # None => Tells(y, kept[y])'
    BY <1>2, <1>3, PageKept
  <2>3. QED
    BY <1>2, <1>3, <2>1, <2>2
<1>6. \A y \in Thread \ {x} : kept2[y] # None => Tells(y, kept2[y])'
  <2>1. \A y \in Thread \ {x} : kept2[y] = kept[y]
    BY <1>1, <1>3, <1>4
  <2>2. QED
    BY <1>5, <2>1
<1>7. loads2[l].pc = "asked" /\ \A k \in Load \ {l} : loads2[k] = loads[k]
  BY <1>1, <1>3, <1>4 DEF LoadRow
<1>8. \A k \in Load : loads2[k].pc # "found"
  BY <1>1, <1>3, <1>7 DEF Pending
<1>9. Pending' # {}
  BY <1>4, <1>7 DEF Pending
<1>10. shown' = x /\ view' = s
  BY <1>1, <1>3
<1>11. QED
  BY <1>4, <1>6, <1>8, <1>9, <1>10, PageFrom

LEMMA GetTaskKeepsPage ==
    ASSUME Parts, ViewInv, ViewInv', PageInv, NEW l \in Load, GetTask(l), Steady
    PROVE  PageInv'
<1>1. PageTyped /\ PageTyped' /\ load[l].pc = "asked"
  BY DEF ViewInv, GetTask
<1>2. PICK th \in Thread, s \in Seq(Entry), kept \in [Thread -> Seq(Entry) \cup {None}],
           loads \in [Load -> LoadRow] :
        th = shown /\ s = view /\ kept = saved /\ loads = load
  BY <1>1 DEF PageTyped
<1>3. PICK pc \in {"missing", "found"} :
        load' = [loads EXCEPT ![l].pc = pc, ![l].found = messages[load[l].thread]]
  BY <1>2 DEF GetTask
<1>4. shown' = th /\ view' = s /\ saved' = kept /\ messages' = messages
  BY <1>2 DEF GetTask, shell, vars, rows
<1>5. PICK x \in Thread, found \in Seq(Message), loads2 \in [Load -> LoadRow] :
        x = load[l].thread /\ found = messages[x] /\ loads2 = load'
  BY <1>1 DEF PageTyped, Parts, RowsTyped
<1>6. /\ loads2[l].pc = pc /\ loads2[l].thread = x /\ loads2[l].found = found
      /\ \A k \in Load \ {l} : loads2[k] = loads[k]
  BY <1>2, <1>3, <1>5 DEF LoadRow
<1>7. FoundAll(x, found)'
  BY <1>4, <1>5 DEF FoundAll
<1>8. \A k \in Load \ {l} : loads[k].pc = "found" => FoundAll(loads[k].thread, loads[k].found)'
  BY <1>1, <1>2, PageKept
<1>9. \A k \in Load : loads2[k].pc = "found" => FoundAll(loads2[k].thread, loads2[k].found)'
  BY <1>6, <1>7, <1>8
<1>10. Pending' # {}
  BY <1>5, <1>6 DEF Pending
<1>11. \A y \in Thread \ {th} : kept[y] # None => Tells(y, kept[y])'
  BY <1>1, <1>2, PageKept
<1>12. load' = loads2
  BY <1>5
<1>13. QED
  BY <1>4, <1>9, <1>10, <1>11, <1>12, PageFrom

LEMMA LoadEndKeepsPage ==
    ASSUME Parts, ViewInv, ViewInv', PageInv, ~raced, NEW l \in Load, LoadArrives(l) \/ LoadFails(l), Steady
    PROVE  PageInv'
<1>1. /\ PageTyped /\ PageTyped' /\ load[l].thread = shown /\ l \in Pending
      /\ \A t \in Turn : stream'[t] # "open"
      /\ UNCHANGED vars
  BY DEF ViewInv, LoadsInv, StreamsInv, LoadArrives, LoadFails, Pending
<1>2. PICK th \in Thread, s \in Seq(Entry), kept \in [Thread -> Seq(Entry) \cup {None}],
           loads \in [Load -> LoadRow] :
        th = shown /\ s = view /\ kept = saved /\ loads = load
  BY <1>1 DEF PageTyped
<1>3. PICK s2 \in Seq(Entry), kept2 \in [Thread -> Seq(Entry) \cup {None}], loads2 \in [Load -> LoadRow] :
        s2 = view' /\ kept2 = saved' /\ loads2 = load'
  BY <1>1 DEF PageTyped
<1>4. /\ shown' = th /\ kept2 = [kept EXCEPT ![th] = s2]
      /\ loads2 = [loads EXCEPT ![l].pc = "done", ![l].found = <<>>]
  BY <1>2, <1>3 DEF LoadArrives, LoadFails, Show
<1>5. loads2[l].pc = "done" /\ \A k \in Load \ {l} : loads2[k] = loads[k]
  BY <1>2, <1>4 DEF LoadRow
<1>6. \A k \in Load : loads[k].pc = "found" => FoundAll(loads[k].thread, loads[k].found)'
  BY <1>1, <1>2, PageKept
<1>7. \A k \in Load : loads2[k].pc = "found" => FoundAll(loads2[k].thread, loads2[k].found)'
  BY <1>5, <1>6
<1>8. \A y \in Thread \ {th} : kept2[y] # None => Tells(y, kept2[y])'
  <2>1. \A y \in Thread \ {th} : kept2[y] = kept[y]
    BY <1>4
  <2>2. QED
    BY <1>1, <1>2, <2>1, PageKept
<1>9. Tells(th, s2)'
  <2>1. CASE LoadArrives(l)
    <3>1. PICK found \in Seq(Message) : found = loads[l].found
      BY DEF LoadRow
    <3>2. s2 = [i \in DOMAIN found |-> [role |-> found[i].role, turn |-> found[i].turn, thread |-> th]]
      BY <1>1, <1>2, <1>3, <2>1, <3>1 DEF LoadArrives, Show
    <3>3. DOMAIN s2 = DOMAIN found /\ \A i \in DOMAIN found : s2[i].role = found[i].role /\ s2[i].turn = found[i].turn
      BY <3>2
    <3>4. FoundAll(th, found)'
      BY <1>1, <1>2, <1>6, <2>1, <3>1 DEF LoadArrives
    <3>5. ASSUME Watched(th)' PROVE Agree(th, s2)' /\ Even(th, s2)'
      <4>1. found = messages'[th]
        BY <3>4, <3>5 DEF FoundAll
      <4>2. Agree(th, s2)'
        BY <3>3, <4>1 DEF Agree, ShownBy
      <4>3. Len(s2) = Len(found)
        BY <3>3
      <4>4. QED
        BY <4>1, <4>2, <4>3 DEF Even
    <3>6. QED
      BY <1>1, <3>5 DEF Tells
  <2>2. CASE LoadFails(l)
    <3>1. PICK e : s2 = <<e>> /\ e.turn = None
      <4>1. PICK e : e = [role |-> "error", turn |-> None, thread |-> load[l].thread]
        OBVIOUS
      <4>2. QED
        BY <1>3, <2>2, <4>1 DEF LoadFails, Show
    <3>2. ~Whole(s2)
      BY <3>1 DEF Whole
    <3>3. QED
      BY <3>2 DEF Tells, Whole
  <2>3. QED
    BY <2>1, <2>2
<1>10. view' = s2 /\ saved' = kept2 /\ load' = loads2
  BY <1>3
<1>11. QED
  BY <1>4, <1>7, <1>8, <1>9, <1>10, PageFrom

\* Neither a load that was acted during nor a failure is undone.
LEMMA FaultsStay == Parts /\ [Next]_vars => faults' = faults \/ faults' # 0
<1> SUFFICES ASSUME Parts, [Next]_vars PROVE faults' = faults \/ faults' # 0
  OBVIOUS
<1>1. Fault => faults' # 0
  BY DEF Parts, GhostsTyped, Fault
<1>2. CASE UNCHANGED vars
  BY <1>2 DEF vars
<1>3. ASSUME NEW t \in Turn, Chat(t) \/ Disconnect(t) PROVE faults' = faults \/ Fault
  BY <1>3 DEF Chat, Disconnect, FindConversation, CreateConversation, ReopenConversation, AppendQuestion,
     LogRequest, RequestRaises, BeginRun, RefuseRun, EndRun, RunRaises, FetchConversation, RecordEnd,
     ReportEnd, FinishRaises, Cancel, Drop
<1>4. ASSUME NEW t \in Turn, NEW th \in Thread, Receive(t, th) PROVE faults' = faults
  BY <1>4 DEF Receive
<1>5. ASSUME NEW c \in Click, SetFeedback(c) PROVE faults' = faults
  BY <1>5 DEF SetFeedback, Rate, FindAnswer, LookRating, StoreRating
<1>6. ProcessCrash => Fault
  BY DEF ProcessCrash
<1>7. QED
  BY <1>1, <1>2, <1>3, <1>4, <1>5, <1>6 DEF Next

LEMMA ServerKeepsPage ==
    ASSUME Parts, Parts', MessagesInv, ReadInv, ViewInv, PageInv, ~raced, faults = 0, faults' = 0, Server
    PROVE  PageInv'
<1>1. UNCHANGED <<shown, view, saved, load>> /\ stream' = stream
  BY DEF Server, page, shell
<1>2. PageTyped /\ StreamsInv
  BY DEF ViewInv
<1>3. ASSUME NEW u \in Turn, Chat(u) \/ (stream[u] # "open" /\ Disconnect(u)) PROVE Steady
  <2>1. ASSUME NEW x \in Thread, turn[u].thread # x \/ stream[u] # "open" PROVE Quiet(x)
    BY <1>1, <1>3, <2>1, ServerIsQuiet
  <2>2. CASE stream[u] # "open"
    BY <2>1, <2>2, QuietIsSteady
  <2>3. CASE stream[u] = "open"
    <3>1. Pending = {}
      BY <1>2, <2>3 DEF StreamsInv
    <3>2. ASSUME NEW x \in Thread, NEW s \in Seq(Entry), Tells(x, s) PROVE Tells(x, s)'
      <4>1. CASE turn[u].thread # x
        BY <2>1, <3>2, <4>1, QuietTells
      <4>2. CASE turn[u].thread = x
        BY <1>1, <1>2, <1>3, <2>3, <3>2, <4>2, OpenKeepsPage
      <4>3. QED
        BY <4>1, <4>2
    <3>3. QED
      BY <3>1, <3>2 DEF Steady
  <2>4. QED
    BY <2>2, <2>3
<1>4. ASSUME NEW c \in Click, FindAnswer(c) \/ LookRating(c) \/ StoreRating(c) PROVE Steady
  <2>1. messages' = messages /\ turn' = turn
    BY <1>4 DEF FindAnswer, LookRating, StoreRating, rows
  <2>2. QED
    BY <1>1, <2>1, DroppedIsQuiet, QuietIsSteady
<1>5. ~ProcessCrash
  BY DEF ProcessCrash, Fault
<1>6. Steady
  BY <1>3, <1>4, <1>5 DEF Server
<1>7. QED
  BY <1>1, <1>2, <1>6, ViewKeepsPage

LEMMA PageStep ==
    ASSUME Parts, Parts', QuestionsInv, MessagesInv, ReadInv, ViewInv, ViewInv', PageInv, ~raced', faults = 0,
           faults' = 0, [SessionNext]_all
    PROVE  PageInv'
<1>1. PageTyped /\ ~raced
  BY RacedStays DEF ViewInv
<1>2. CASE Server
  BY <1>1, <1>2, ServerKeepsPage
<1>3. ASSUME NEW t \in Turn, Send(t) \/ Deliver(t) \/ LoseStream(t) PROVE PageInv'
  BY <1>1, <1>3, SendKeepsPage, DeliverKeepsPage, LoseKeepsPage
<1>4. ASSUME Abort \/ stream' = stream, messages' = messages, turn' = turn PROVE Steady
  <2>1. \A t \in Turn : stream'[t] \in {stream[t], "gone"}
    BY <1>1, <1>4 DEF Abort, PageTyped
  <2>2. QED
    BY <1>4, <2>1, DroppedIsQuiet, QuietIsSteady
<1>5. CASE Stop \/ UNCHANGED all \/ \E c \in Click : RateAnswer(c)
  <2>1. UNCHANGED <<shown, view, saved, load, messages, turn>> /\ (Abort \/ stream' = stream)
    BY <1>5 DEF Stop, all, page, shell, vars, rows, RateAnswer, Rate
  <2>2. QED
    BY <1>1, <1>4, <2>1, ViewKeepsPage
<1>6. ASSUME NEW th \in Thread, ResumeSession(th) \/ Reload(th) PROVE PageInv'
  <2>1. CASE ResumeSession(th)
    <3>1. Abort /\ messages' = messages /\ turn' = turn
      BY <2>1 DEF ResumeSession, vars, rows
    <3>2. QED
      BY <1>4, <2>1, <3>1, ResumeKeepsPage
  <2>2. QED
    BY <1>6, <2>1, ReloadKeepsPage
<1>7. ASSUME NEW l \in Load,
             (\E th \in Thread : LoadSession(l, th)) \/ GetTask(l) \/ LoadArrives(l) \/ LoadFails(l)
      PROVE  PageInv'
  <2>1. (Abort \/ stream' = stream) /\ messages' = messages /\ turn' = turn
    BY <1>7 DEF LoadSession, GetTask, LoadArrives, LoadFails, shell, vars, rows
  <2>2. Steady
    BY <1>4, <2>1
  <2>3. QED
    BY <1>1, <1>7, <2>2, LoadSessionKeepsPage, GetTaskKeepsPage, LoadEndKeepsPage
<1>8. QED
  BY <1>2, <1>3, <1>5, <1>6, <1>7 DEF SessionNext, Tab

LEMMA PageAlways == SessionSpec => [](~raced /\ faults = 0 => PageInv)
<1>1. SessionInit => PageInv
  <2> SUFFICES ASSUME SessionInit PROVE PageInv
    OBVIOUS
  <2>1. view = <<>> /\ shown \in Thread /\ messages[shown] = <<>> /\ \A t \in Turn : stream[t] = "none"
    BY DEF SessionInit, Init
  <2>2. Len(<<>>) = 0 /\ DOMAIN <<>> = {}
    OBVIOUS
  <2>3. Agree(shown, view) /\ Even(shown, view)
    BY <2>1, <2>2 DEF Agree, Even
  <2>4. Tells(shown, view)
    BY <2>1, <2>3 DEF Tells
  <2>5. \A x \in Thread \ {shown} : saved[x] = None
    BY DEF SessionInit
  <2>6. \A l \in Load : load[l].pc = "unsent"
    BY DEF SessionInit
  <2>7. QED
    BY <2>4, <2>5, <2>6 DEF PageInv
<1>2. ASSUME Parts, Parts', RecordInv, MessagesInv, ReadInv, ViewInv, ViewInv',
             ~raced /\ faults = 0 => PageInv, [SessionNext]_all, ~raced', faults' = 0
      PROVE  PageInv'
  <2>1. [Next]_vars
    BY <1>2, TabSteps DEF ViewInv, PageTyped
  <2>2. faults = 0 /\ ~raced
    BY <1>2, <2>1, FaultsStay, RacedStays
  <2>3. QED
    BY <1>2, <2>2, PageStep DEF RecordInv
<1>3. Parts /\ Parts' /\ RecordInv /\ MessagesInv /\ ReadInv /\ ViewInv /\ ViewInv'
        /\ (~raced /\ faults = 0 => PageInv) /\ [SessionNext]_all => (~raced /\ faults = 0 => PageInv)'
  BY <1>2
<1>4. QED
  BY <1>1, <1>3, SessionIsAChat, RecordAlways, MessagesAlways, ReadAlways, ViewAlways, PTL DEF SessionSpec

(* After turns whose streams were read to their end and during which no    *)
(* round trip failed, the tab shows the messages the server keeps for the  *)
(* thread, unless the user acted during a load or a load failed: the views *)
(* useChatSession builds from chunks are those get_task would return.      *)
THEOREM PagesShowWhatIsKept == SessionSpec => []PageShowsWhatIsKept
<1>1. ASSUME Parts, ViewInv, ~raced /\ faults = 0 => PageInv PROVE PageShowsWhatIsKept
  <2> SUFFICES ASSUME ~raced, Pending = {}, faults = 0,
                      \A t \in Turn : turn[t].thread = shown => stream[t] = "closed",
                      \A i \in DOMAIN view : view[i].turn # None
               PROVE  [i \in DOMAIN messages[shown] |-> As(messages[shown][i])] =
                          [i \in DOMAIN view |-> As(view[i])]
    BY DEF PageShowsWhatIsKept
  <2>1. Watched(shown) /\ Whole(view) /\ Tells(shown, view)
    BY <1>1 DEF Watched, Whole, PageInv
  <2>2. Agree(shown, view) /\ Even(shown, view)
    BY <2>1 DEF Tells
  <2>3. shown \in Thread /\ view \in Seq(Entry) /\ messages[shown] \in Seq(Message)
    BY <1>1 DEF ViewInv, PageTyped, Parts, RowsTyped
  <2>4. DOMAIN view = DOMAIN messages[shown]
    BY <2>2, <2>3 DEF Even
  <2>5. ASSUME NEW i \in DOMAIN view PROVE As(messages[shown][i]) = As(view[i])
    <3>1. ShownBy(messages[shown][i], view[i]) /\ messages[shown][i] \in Message
      BY <2>2, <2>3, <2>4, <2>5 DEF Agree
    <3>2. messages[shown][i].role # "status"
      BY <3>1 DEF Message
    <3>3. QED
      BY <3>1, <3>2 DEF ShownBy, As
  <2>6. QED
    BY <2>4, <2>5
<1>2. Parts /\ ViewInv /\ (~raced /\ faults = 0 => PageInv) => PageShowsWhatIsKept
  BY <1>1
<1>3. QED
  BY <1>2, SessionIsAChat, RecordAlways, ViewAlways, PageAlways, PTL
=============================================================================
