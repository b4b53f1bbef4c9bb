---------------------------- MODULE ChatSession ----------------------------
(***************************************************************************)
(* One browser tab in front of ChatTurn: the hook that holds the chat      *)
(* (frontend/src/hooks/useChatSession.ts), its stream (api/chat.ts), the   *)
(* route that opens a thread (App.tsx) and the rating buttons of the       *)
(* answer page (AgentAnswerPage.tsx).  Every POST /api/chat comes from the *)
(* tab, which may be loaded anew: the server may still work on turns whose *)
(* stream the tab dropped.                                                 *)
(*                                                                         *)
(* Abstractions.  Status texts and the note "stopped" are left out of the  *)
(* view.  The end of a stream arrives with its last chunk.  A list of      *)
(* sessions that outgrows its eight entries is not modelled.               *)
(***************************************************************************)
EXTENDS ChatTurn

CONSTANT Load   \* GET /api/tasks/{id}, each made once

VARIABLES
    shown,    \* threadId
    busy,     \* the composer offers stop instead of send
    view,     \* messages; an entry of the view has the turn it is about
    stream,   \* what the tab has of the response of each turn
    stopper,  \* abortRef: the turn whose stream stop aborts, or None
    saved,    \* history: the messages kept for each thread of the tab
    load,     \* where each GET /api/tasks/{id} is, and what it found
    aim,      \* the answer the page showed when each click was made
    unread,   \* the turns whose answer the tab had not read then
    raced     \* the user acted while a load was pending

shell == <<shown, busy, view, stream, stopper, saved>>
page == <<shell, load, aim, unread, raced>>
all == <<vars, page>>

Local == [role : {"user", "assistant", "error", "status"}, turn : Turn \cup {None},
          thread : Thread]

Pending == {l \in Load : load[l].pc \in {"asked", "found", "missing"}}
Streaming == {t \in Turn : stream[t] = "open"}

\* What is set as the thread and the messages is also kept in the history.
Show(th, messagesShown) ==
    /\ shown' = th
    /\ view' = messagesShown
    /\ saved' = [saved EXCEPT ![th] = messagesShown]

Say(role, t) == Append(view, [role |-> role, turn |-> t, thread |-> turn[t].thread])

SessionInit ==
    /\ Init
    /\ shown \in Thread
    /\ busy = FALSE
    /\ view = <<>>
    /\ stream = [t \in Turn |-> "none"]
    /\ stopper = None
    /\ saved = [th \in Thread |-> IF th = shown THEN view ELSE None]
    /\ load = [l \in Load |-> [pc |-> "unsent", thread |-> None, found |-> <<>>]]
    /\ aim = [c \in Click |-> None]
    /\ unread = [c \in Click |-> {}]
    /\ raced = FALSE

-----------------------------------------------------------------------------
(* send                                                                    *)

\* Not while busy; the POST follows at once.
Send(t) ==
    /\ ~busy
    /\ Receive(t, shown)
    /\ Show(shown, Append(view, [role |-> "user", turn |-> t, thread |-> shown]))
    /\ busy' = TRUE
    /\ stream' = [stream EXCEPT ![t] = "open"]
    /\ stopper' = t
    /\ raced' = (raced \/ Pending # {})
    /\ UNCHANGED <<load, aim, unread>>

\* The finally block after a stream that was not aborted.
Settle(t) ==
    /\ busy' = FALSE
    /\ stream' = [stream EXCEPT ![t] = "closed"]
    /\ stopper' = IF stopper = t THEN None ELSE stopper

\* What the last chunk of an ended turn adds to the view: a question back is
\* shown as a status.
ShownAs(outcome) ==
    CASE outcome = "completed" -> "assistant"
      [] outcome = "waiting" -> "status"
      [] OTHER -> "error"

Deliver(t) ==
    /\ stream[t] = "open"
    /\ At(t, "ended")
    /\ Show(shown, Say(ShownAs(turn[t].outcome), t))
    /\ Settle(t)
    /\ UNCHANGED <<vars, load, aim, unread, raced>>

\* The request is refused, or the connection lost before the last chunk.
LoseStream(t) ==
    /\ stream[t] = "open"
    /\ ~At(t, "ended")
    /\ view' = Say("error", t)
    /\ saved' = [saved EXCEPT ![shown] = view']
    /\ busy' = FALSE
    /\ stream' = [stream EXCEPT ![t] = "gone"]
    /\ stopper' = IF stopper = t THEN None ELSE stopper
    /\ UNCHANGED <<vars, shown, load, aim, unread, raced>>

-----------------------------------------------------------------------------
(* stop, resumeSession, loadSession, and the page itself                   *)

\* abortRef.current?.abort(); abortRef.current = null.  What send does after
\* that changes nothing: an aborted stream is neither an error nor the end of
\* busy, and abortRef was cleared or belongs to a later one.
Abort ==
    /\ stream' = IF stopper = None THEN stream ELSE [stream EXCEPT ![stopper] = "gone"]
    /\ stopper' = None

Stop ==
    /\ busy
    /\ Abort
    /\ busy' = FALSE
    /\ raced' = (raced \/ Pending # {})
    /\ UNCHANGED <<vars, shown, view, saved, load, aim, unread>>

\* The page is loaded anew: the hook begins with a thread id of its own, and
\* what the tab was waiting for never arrives.
Reload(th) ==
    /\ th \notin {shown} \cup {turn[t].thread : t \in Turn} \cup {load[l].thread : l \in Load}
    /\ shown' = th
    /\ view' = <<>>
    /\ saved' = [x \in Thread |-> IF x = th THEN <<>> ELSE None]
    /\ busy' = FALSE
    /\ stopper' = None
    /\ stream' = [t \in Turn |-> IF t \in Streaming THEN "gone" ELSE stream[t]]
    /\ load' = [l \in Load |-> IF l \in Pending
                              THEN [load[l] EXCEPT !.pc = "done", !.found = <<>>] ELSE load[l]]
    /\ UNCHANGED <<vars, aim, unread, raced>>

\* A thread of the tab's own history.
ResumeSession(th) ==
    /\ saved[th] # None
    /\ Abort
    /\ busy' = FALSE
    /\ Show(th, saved[th])
    /\ raced' = (raced \/ Pending # {})
    /\ UNCHANGED <<vars, load, aim, unread>>

\* Mutant of LoadSession: the stream of the thread that is left goes on.
LoadSessionOnly(l, th) ==
    /\ load[l].pc = "unsent"
    /\ th # shown
    /\ busy' = TRUE
    /\ Show(th, view)
    /\ load' = [load EXCEPT ![l].pc = "asked", ![l].thread = th]
    /\ raced' = (raced \/ Pending # {})
    /\ UNCHANGED <<vars, stream, stopper, aim, unread>>

\* The route names another thread: the old messages stay until it answers.
LoadSession(l, th) ==
    /\ load[l].pc = "unsent"
    /\ th # shown
    /\ Abort
    /\ busy' = TRUE
    /\ Show(th, view)
    /\ load' = [load EXCEPT ![l].pc = "asked", ![l].thread = th]
    /\ raced' = (raced \/ Pending # {})
    /\ UNCHANGED <<vars, aim, unread>>

\* get_task, as of the time it reads the messages; 404 without a row.
GetTask(l) ==
    LET th == load[l].thread IN
    /\ load[l].pc = "asked"
    /\ load' = [load EXCEPT ![l].pc = IF conversation[th] = Absent THEN "missing" ELSE "found",
                            ![l].found = messages[th]]
    /\ UNCHANGED <<vars, shell, aim, unread, raced>>

\* The answer is shown under whatever thread is shown by then.
LoadArrives(l) ==
    LET th == load[l].thread IN
    /\ load[l].pc = "found"
    /\ Show(shown, [i \in DOMAIN load[l].found |->
           [role |-> load[l].found[i].role, turn |-> load[l].found[i].turn, thread |-> th]])
    /\ busy' = FALSE
    /\ load' = [load EXCEPT ![l].pc = "done", ![l].found = <<>>]
    /\ UNCHANGED <<vars, stream, stopper, aim, unread, raced>>

\* 404, another error or no connection.
LoadFails(l) ==
    /\ load[l].pc \in {"asked", "missing"}
    /\ Show(shown, <<[role |-> "error", turn |-> None, thread |-> load[l].thread]>>)
    /\ busy' = FALSE
    /\ load' = [load EXCEPT ![l].pc = "done", ![l].found = <<>>]
    /\ UNCHANGED <<vars, stream, stopper, aim, unread, raced>>

-----------------------------------------------------------------------------
(* rateAnswer                                                              *)

\* latestAnswer: the last assistant message of the view.
Answered == {i \in DOMAIN view : view[i].role = "assistant"}
LatestAnswer == view[CHOOSE i \in Answered : \A j \in Answered : j <= i].turn

RateAnswer(c) ==
    /\ Answered # {}
    /\ Rate(c, shown)
    /\ aim' = [aim EXCEPT ![c] = LatestAnswer]
    /\ unread' = [unread EXCEPT ![c] = {t \in Turn : stream[t] # "closed"}]
    /\ raced' = (raced \/ Pending # {})
    /\ UNCHANGED <<shell, load>>

-----------------------------------------------------------------------------
Server ==
    \/ \E t \in Turn :
         /\ Chat(t) \/ (stream[t] # "open" /\ Disconnect(t))
         /\ UNCHANGED page
    \/ \E c \in Click : (FindAnswer(c) \/ LookRating(c) \/ StoreRating(c)) /\ UNCHANGED page
    \/ ProcessCrash /\ UNCHANGED page

Tab ==
    \/ \E t \in Turn : Send(t) \/ Deliver(t) \/ LoseStream(t)
    \/ Stop
    \/ \E th \in Thread : ResumeSession(th) \/ Reload(th)
    \/ \E l \in Load :
         (\E th \in Thread : LoadSession(l, th)) \/ GetTask(l) \/ LoadArrives(l) \/ LoadFails(l)
    \/ \E c \in Click : RateAnswer(c)

SessionNext == Server \/ Tab
SessionSpec == SessionInit /\ [][SessionNext]_all

-----------------------------------------------------------------------------
(* Properties.                                                             *)

\* The tab shows under a thread only messages of that thread, and keeps none
\* of another for it: a stream that was left behind writes into no view, as
\* long as the user waits for a thread that is being loaded.
ViewIsOfThread ==
    ~raced /\ Pending = {} =>
        /\ \A i \in DOMAIN view : view[i].thread = shown
        /\ \A th \in Thread : saved[th] # None =>
               \A i \in DOMAIN saved[th] : saved[th][i].thread = th

\* As(m) is a stored message as the tab shows it while it chats.
As(m) == [role |-> IF m.role = "assistant" /\ turn[m.turn].outcome = "waiting" THEN "status"
                   ELSE m.role, turn |-> m.turn]

\* After turns whose streams were read to their end and during which no round
\* trip failed, the tab shows the messages the server keeps for the thread.
PageShowsWhatIsKept ==
    ( /\ ~raced /\ Pending = {} /\ faults = 0
      /\ \A t \in Turn : turn[t].thread = shown => stream[t] = "closed"
      /\ \A i \in DOMAIN view : view[i].turn # None ) =>
        [i \in DOMAIN messages[shown] |-> As(messages[shown][i])] =
            [i \in DOMAIN view |-> As(view[i])]

\* A rating goes to the answer the user saw, or else to one whose stream the
\* tab had not read to its end, to a question back, which the tab does not
\* show as an answer, or to one that was stored before the end of its turn
\* failed and the tab was told of an error.
RatingIsOfShownAnswer ==
    \A c \in Click : ~raced /\ click[c].answer # None =>
        \/ click[c].answer = aim[c]
        \/ click[c].answer \in unread[c]
        \/ turn[click[c].answer].outcome = "waiting"
        \/ \A role \in {"assistant", "error"} :
             \E i \in DOMAIN messages[click[c].thread] :
                messages[click[c].thread][i] = [role |-> role, turn |-> click[c].answer]

=============================================================================
