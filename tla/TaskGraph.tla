------------------------------ MODULE TaskGraph ------------------------------
(***************************************************************************)
(* One conversation thread of the multi-agent graph: the nodes of          *)
(* agent/supervisor_agent.py, agent/audit_agent.py and                     *)
(* agent/aggregator_agent.py over the state of core/task_state.py, run for *)
(* one message of the user at a time by run_agent_stream (agent_main.py).  *)
(*                                                                         *)
(* LangGraph, which is not part of the repository, runs the nodes of a     *)
(* step side by side on the state the step began with, merges what they    *)
(* wrote, saves a checkpoint and goes on with the nodes their edges and    *)
(* Commands name.  A run that breaks off leaves the checkpoint of its last *)
(* whole step, with the nodes still to run (state.next) and the writes of  *)
(* those of them that had finished.                                        *)
(*                                                                         *)
(* Abstractions.  A text is the number of the turn it is about: what the   *)
(* model writes is about the last thing the user was heard to say.  What   *)
(* models, tools and auditors decide is arbitrary.  The runs of a thread   *)
(* do not overlap.  A last agent's writes and the end of its step are one. *)
(***************************************************************************)
EXTENDS Naturals, Sequences

CONSTANTS
    Agent,       \* SubAgentEnum
    Target,      \* correction_targets an auditor may name
    MaxRetries,  \* max_retries
    MaxTurns,    \* bound on the messages of the user
    MaxLooks,    \* bound on the calls of a turn that only return a tool message
    MaxBreaks,   \* bound on the runs that break off
    None         \* no value

ASSUME GraphAssumption ==
    /\ MaxRetries \in Nat
    /\ MaxTurns \in Nat
    /\ MaxLooks \in Nat
    /\ MaxBreaks \in Nat
    /\ None \notin Target
    /\ \A a \in Agent : a \notin {"supervisor", "tools", "dispatcher", "aggregator", "audit"}

VARIABLES
    status,     \* task_status
    pending,    \* pending_sub_agents
    finished,   \* finished_sub_agents
    input,      \* sub_agent_input_content: the turn each agent's task is about
    response,   \* sub_agent_response of each agent, 0 for none
    aggregate,  \* sub_agent_response["aggregator"]: the turns it is made of
    feedback,   \* audit_feedback: its correction_targets and the turn it was given in
    result,     \* result: the turns the final answer is made of
    retries,    \* retry_count
    heard,      \* messages: the turns of those that are the user's
    call,       \* messages: the tool calls of the last one of the supervisor
    next,       \* the nodes of the step to run
    done,       \* those of them whose writes are saved
    turn,       \* messages the user sent so far
    phase,      \* a run is under way or not, or the checkpoint cannot be read any more
    resume,     \* the turn whose text came as Command(resume=...), or 0
    looks,      \* calls of this run that only returned a tool message
    entry,      \* how the run of each turn began
    outcome,    \* what each turn ended with
    breaks      \* runs that broke off so far

round == <<pending, finished, input, response, aggregate, feedback, result, retries>>
position == <<next, done>>
run == <<turn, phase, looks, entry, outcome, breaks>>
vars == <<status, round, heard, call, position, run, resume>>

Turn == 1..MaxTurns

Status == {"idle", "routing", "dispatched", "executing", "aggregating",
           "auditing", "retrying", "completed", "failed"}

NoFeedback == [target |-> None, turn |-> 0]
NoResponse == [a \in Agent |-> 0]

\* The tool calls of a message: none, one that changes nothing (a list of the
\* agents, or arguments the tool refuses), human_in_loop, invoke_sub_agent for some
\* agents, and two invoke_sub_agent in one message.
NoCall == [tool |-> "none", agents |-> {}]
Call == {NoCall} \cup [tool: {"look", "ask", "invoke", "invokeTwice"}, agents: SUBSET Agent]

\* What the user is shown at the end of a turn.
Ending == [kind: {"none", "complete", "interrupt", "error", "broken"},
           sources: SUBSET Turn, verdict: 0..MaxTurns]
Outcome(kind, sources, verdict) == [kind |-> kind, sources |-> sources, verdict |-> verdict]

Init ==
    /\ status = "idle"
    /\ pending = {} /\ finished = {}
    /\ input = NoResponse /\ response = NoResponse
    /\ aggregate = {} /\ result = {}
    /\ feedback = NoFeedback
    /\ retries = 0
    /\ heard = <<>>
    /\ call = NoCall
    /\ next = {} /\ done = {}
    /\ turn = 0 /\ phase = "idle" /\ resume = 0 /\ looks = 0
    /\ entry = [t \in Turn |-> "none"]
    /\ outcome = [t \in Turn |-> Outcome("none", {}, 0)]
    /\ breaks = 0

-----------------------------------------------------------------------------
(* Beginning and end of a run.                                             *)

\* _prepare_supervisor_state begins a new round in these states only.
Terminal == {"idle", "completed", "failed"}

\* How a turn finds the thread.
Entry ==
    IF next = {}
    THEN IF status \in Terminal \/ feedback = NoFeedback THEN "new" ELSE "unfinished"
    ELSE IF outcome[turn].kind # "interrupt" THEN "brokenOff"
    ELSE IF status = "routing" THEN "reply" ELSE "retryReply"

\* The user sends a message: run_agent_stream takes it for the answer to a pending
\* question whenever the checkpoint has nodes to run.
StartTurn ==
    /\ phase = "idle" /\ turn < MaxTurns
    /\ turn' = turn + 1
    /\ phase' = "running"
    /\ looks' = 0
    /\ entry' = [entry EXCEPT ![turn + 1] = IF turn = 0 THEN "new" ELSE Entry]
    /\ \/ /\ next # {}
          /\ resume' = turn + 1
          /\ UNCHANGED <<heard, next>>
       \/ /\ next = {}
          /\ resume' = 0
          /\ heard' = Append(heard, turn + 1)
          /\ next' = {"supervisor"}
    /\ UNCHANGED <<status, round, call, done, outcome, breaks>>

\* The state of a thread whose last step cannot be merged cannot be read either.
CollidedTurn ==
    /\ phase = "collided" /\ turn < MaxTurns
    /\ turn' = turn + 1
    /\ outcome' = [outcome EXCEPT ![turn + 1] = Outcome("error", {}, 0)]
    /\ UNCHANGED <<status, round, heard, call, position, resume, phase, looks, entry, breaks>>

Running == phase = "running"

EndTurn(o) ==
    /\ phase' = "idle"
    /\ outcome' = [outcome EXCEPT ![turn] = o]

\* What run_agent_stream reads off the final state.
Shown ==
    IF status = "failed" THEN Outcome("error", {}, feedback.turn)
    ELSE IF result # {} THEN Outcome("complete", result, 0)
    ELSE Outcome("error", {}, 0)

Finish ==
    /\ Running /\ next = {}
    /\ EndTurn(Shown)
    /\ UNCHANGED <<status, round, heard, call, position, resume, turn, looks, entry, breaks>>

\* A node raises, the client goes away or the process dies: the run ends, the
\* checkpoint stays.  Of the writes a dying process was saving some may be lost.
BreakOff ==
    /\ Running /\ breaks < MaxBreaks
    /\ breaks' = breaks + 1
    /\ EndTurn(Outcome("broken", {}, 0))
    /\ done' \in SUBSET done
    /\ UNCHANGED <<status, round, heard, call, next, resume, turn, looks, entry>>

\* Two nodes or tools of a step have written task_status: LangGraph refuses the step.
Collide ==
    /\ phase' = "collided"
    /\ outcome' = [outcome EXCEPT ![turn] = Outcome("error", {}, 0)]
    /\ UNCHANGED <<status, round, heard, call, position, resume, turn, looks, entry, breaks>>

-----------------------------------------------------------------------------
(* The nodes.  A value given to Command(resume=...) lasts for one step.    *)

Runs(node) == Running /\ next = {node}

GoTo(nodes) ==
    /\ next' = nodes
    /\ done' = {}
    /\ resume' = 0
    /\ UNCHANGED <<turn, phase, entry, outcome, breaks>>

\* Mutant of ResetRound: sub_agent_response stays.
ResetAllButResponse ==
    /\ status' = "routing"
    /\ pending' = {} /\ finished' = {}
    /\ input' = NoResponse /\ response' = response
    /\ aggregate' = aggregate /\ result' = {}
    /\ feedback' = NoFeedback
    /\ retries' = 0

\* Mutant of ResetRound: finished_sub_agents stays.
ResetAllButFinished ==
    /\ status' = "routing"
    /\ pending' = {} /\ finished' = finished
    /\ input' = NoResponse /\ response' = NoResponse
    /\ aggregate' = {} /\ result' = {}
    /\ feedback' = NoFeedback
    /\ retries' = 0

\* TaskState.round_reset_update.
ResetRound ==
    /\ status' = "routing"
    /\ pending' = {} /\ finished' = {}
    /\ input' = NoResponse /\ response' = NoResponse
    /\ aggregate' = {} /\ result' = {}
    /\ feedback' = NoFeedback
    /\ retries' = 0

PrepareSupervisor ==
    \/ /\ status \in Terminal
       /\ ResetRound
    \/ /\ status \notin Terminal /\ feedback # NoFeedback
       /\ status' = "retrying"
       /\ UNCHANGED round
    \/ /\ status \notin Terminal /\ feedback = NoFeedback
       /\ UNCHANGED <<status, round>>

Supervise(c) ==
    /\ Runs("supervisor")
    /\ c.tool = "look" => looks < MaxLooks
    /\ PrepareSupervisor
    /\ call' = c
    /\ GoTo(IF c = NoCall THEN {} ELSE {"tools"})
    /\ UNCHANGED <<heard, looks>>

\* The model call fails: nothing of the round is prepared.
SuperviseRaises ==
    /\ Runs("supervisor")
    /\ status' = "failed"
    /\ call' = NoCall
    /\ GoTo({})
    /\ UNCHANGED <<round, heard, looks>>

\* tools_condition_router.
AfterTools ==
    CASE status \in {"dispatched", "executing"} -> "dispatcher"
      [] status \in {"aggregating", "auditing", "retrying"} -> "aggregator"
      [] OTHER -> "supervisor"

Look ==
    /\ Runs("tools") /\ call.tool = "look"
    /\ looks' = looks + 1
    /\ GoTo({AfterTools})
    /\ UNCHANGED <<status, round, heard, call>>

\* human_in_loop: interrupt() ends the run unless the run brought an answer.
Ask ==
    /\ Runs("tools") /\ call.tool = "ask" /\ resume = 0
    /\ EndTurn(Outcome("interrupt", {}, 0))
    /\ UNCHANGED <<status, round, heard, call, position, resume, turn, looks, entry, breaks>>

TakeReply ==
    /\ Runs("tools") /\ call.tool = "ask" /\ resume # 0
    /\ heard' = Append(heard, resume)
    /\ GoTo({AfterTools})
    /\ UNCHANGED <<status, round, call, looks>>

\* What the user said last, and so what the supervisor's tasks are about.
Topic == heard[Len(heard)]

\* invoke_sub_agent: an agent that has finished works again only after an objection.
Chosen == {a \in call.agents : feedback # NoFeedback \/ a \notin finished}

Invoke ==
    /\ Runs("tools") /\ call.tool = "invoke"
    /\ status' = "dispatched"
    /\ pending' = pending \cup Chosen
    /\ input' = [a \in Agent |-> IF a \in Chosen THEN Topic ELSE input[a]]
    /\ GoTo({"dispatcher"})
    /\ UNCHANGED <<finished, response, aggregate, feedback, result, retries, heard, call, looks>>

InvokeTwice == Runs("tools") /\ call.tool = "invokeTwice" /\ Collide

\* Mutant of Dispatch: only one of the pending agents is sent for.
DispatchOne ==
    /\ Runs("dispatcher")
    /\ \/ /\ pending = {}
          /\ status' = "aggregating"
          /\ GoTo({"aggregator"})
       \/ /\ pending # {}
          /\ status' = "executing"
          /\ GoTo({CHOOSE a \in pending : TRUE})
    /\ pending' = {}
    /\ UNCHANGED <<finished, input, response, aggregate, feedback, result, retries, heard, call, looks>>

Dispatch ==
    /\ Runs("dispatcher")
    /\ \/ /\ pending = {}
          /\ status' = "aggregating"
          /\ GoTo({"aggregator"})
       \/ /\ pending # {}
          /\ status' = "executing"
          /\ GoTo(pending)
    /\ pending' = {}
    /\ UNCHANGED <<finished, input, response, aggregate, feedback, result, retries, heard, call, looks>>

Others(a) == next \ (done \cup {a})

\* An agent answers while others of its step still work.
AgentAnswers(a) ==
    /\ Running /\ a \in next \ done
    /\ Others(a) # {}
    /\ done' = done \cup {a}
    /\ resume' = 0
    /\ UNCHANGED <<status, round, heard, call, next, run>>

\* The last one answers: what all of them wrote is merged.
LastAgentAnswers(a) ==
    /\ Running /\ a \in next \ done
    /\ Others(a) = {}
    /\ response' = [b \in Agent |-> IF b \in next THEN input[b] ELSE response[b]]
    /\ finished' = finished \cup next
    /\ pending' = {}
    /\ GoTo({"aggregator"})
    /\ UNCHANGED <<status, input, aggregate, feedback, result, retries, heard, call, looks>>

\* sub_agent_response, which holds the last aggregate too.
Parts == aggregate \cup ({response[a] : a \in Agent} \ {0})

Aggregate ==
    /\ Runs("aggregator") /\ Parts # {}
    /\ status' = "auditing"
    /\ aggregate' = Parts
    /\ GoTo({"audit"})
    /\ UNCHANGED <<pending, finished, input, response, feedback, result, retries, heard, call, looks>>

\* Nothing to aggregate: the Command to the supervisor comes on top of the edge to
\* the audit, and both of them write task_status.
AggregateNothing ==
    /\ Runs("aggregator") /\ Parts = {}
    /\ status' = "routing"
    /\ GoTo({"supervisor", "audit"})
    /\ UNCHANGED <<round, heard, call, looks>>

SuperviseAndAudit == Running /\ next = {"supervisor", "audit"} /\ Collide

AuditPasses ==
    /\ Runs("audit")
    /\ status' = "completed"
    /\ feedback' = NoFeedback
    /\ input' = NoResponse /\ response' = NoResponse /\ aggregate' = {}
    /\ pending' = {} /\ finished' = {}
    /\ result' = aggregate
    /\ GoTo({})
    /\ UNCHANGED <<retries, heard, call, looks>>

Repeated(t) == retries > 0 /\ feedback.target = t

\* Mutant of AuditRetries: max_retries is not looked at.
AuditRetriesAlways(t) ==
    /\ Runs("audit")
    /\ ~Repeated(t)
    /\ status' = "retrying"
    /\ feedback' = [target |-> t, turn |-> turn]
    /\ retries' = retries + 1
    /\ GoTo({"supervisor"})
    /\ UNCHANGED <<pending, finished, input, response, aggregate, result, heard, call, looks>>

\* Mutant of AuditRetries: the retry is not counted.
AuditRetriesUncounted(t) ==
    /\ Runs("audit")
    /\ retries < MaxRetries /\ ~Repeated(t)
    /\ status' = "retrying"
    /\ feedback' = [target |-> t, turn |-> turn]
    /\ GoTo({"supervisor"})
    /\ UNCHANGED <<pending, finished, input, response, aggregate, result, retries, heard, call, looks>>

AuditRetries(t) ==
    /\ Runs("audit")
    /\ retries < MaxRetries /\ ~Repeated(t)
    /\ status' = "retrying"
    /\ feedback' = [target |-> t, turn |-> turn]
    /\ retries' = retries + 1
    /\ GoTo({"supervisor"})
    /\ UNCHANGED <<pending, finished, input, response, aggregate, result, heard, call, looks>>

AuditFails(t) ==
    /\ Runs("audit")
    /\ retries >= MaxRetries \/ Repeated(t)
    /\ status' = "failed"
    /\ feedback' = [target |-> t, turn |-> turn]
    /\ result' = {}
    /\ GoTo({})
    /\ UNCHANGED <<pending, finished, input, response, aggregate, retries, heard, call, looks>>

-----------------------------------------------------------------------------
Supervisor == (\E c \in Call : Supervise(c)) \/ SuperviseRaises
Tools == Look \/ Ask \/ TakeReply \/ Invoke \/ InvokeTwice
Agents == \E a \in Agent : AgentAnswers(a) \/ LastAgentAnswers(a)
Aggregator == Aggregate \/ AggregateNothing
Audit == AuditPasses \/ \E t \in Target : AuditRetries(t) \/ AuditFails(t)

Step == Supervisor \/ Tools \/ Dispatch \/ Agents \/ Aggregator \/ Audit
            \/ SuperviseAndAudit \/ Finish

Next == StartTurn \/ CollidedTurn \/ BreakOff \/ Step

Spec == Init /\ [][Next]_vars

\* A node that began ends: its calls have time limits.  Users need not write.
LiveSpec == Spec /\ WF_vars(Step)

-----------------------------------------------------------------------------
Answered(t) == outcome[t].kind = "complete"

(* Type invariant.                                                         *)
Node == {{"supervisor"}, {"tools"}, {"dispatcher"}, {"aggregator"}, {"audit"}, {"supervisor", "audit"}}

RoundOK ==
    /\ status \in Status
    /\ pending \subseteq Agent
    /\ finished \subseteq Agent
    /\ input \in [Agent -> 0..MaxTurns]
    /\ response \in [Agent -> 0..MaxTurns]
    /\ aggregate \subseteq Turn
    /\ feedback \in [target: Target \cup {None}, turn: 0..MaxTurns]
    /\ result \subseteq Turn
    /\ retries \in 0..MaxRetries

PositionOK ==
    /\ heard \in Seq(Turn)
    /\ call \in Call
    /\ next \in (SUBSET Agent) \cup Node
    /\ done \subseteq next \cap Agent

RunOK ==
    /\ turn \in 0..MaxTurns
    /\ phase \in {"idle", "running", "collided"}
    /\ resume \in 0..MaxTurns
    /\ looks \in 0..MaxLooks
    /\ entry \in [Turn -> {"none", "new", "reply", "retryReply", "unfinished",
                           "brokenOff"}]
    /\ outcome \in [Turn -> Ending]
    /\ breaks \in 0..MaxBreaks

TypeOK == RoundOK /\ PositionOK /\ RunOK

(* The answer of a turn is made of what the agents said about this turn,   *)
(* and of nothing older, if the turn began a round or answered a question  *)
(* the supervisor asked while routing.                                     *)
AnswerIsForThisTurn ==
    \A t \in Turn : Answered(t) /\ entry[t] \in {"new", "reply"} => outcome[t].sources = {t}

(* No agent that was given a task is left out: what is aggregated and      *)
(* audited holds the answer to its latest task, also when the step of the  *)
(* agents broke off and another run took it up.                            *)
NoAgentIsLeftOut ==
    next \in {{"aggregator"}, {"audit"}} => response = input

(* A thread becomes unusable only by a message of the model that names no  *)
(* agent or calls invoke_sub_agent twice: what earlier rounds, failed      *)
(* audits and broken-off runs leave behind never empties a dispatch.       *)
CollisionNeedsBadCall ==
    \/ phase # "collided"
    \/ call.tool = "invokeTwice"
    \/ call.tool = "invoke" /\ call.agents = {}

(* Every turn ends, with all its retries, if the nodes do.                 *)
TurnsEnd == Running ~> ~Running

(* The comment on the branch that resumes a thread (agent_main.py:55, the  *)
(* same branch as run_agent_stream's): nodes to run mean that the message  *)
(* is the user's answer to the agent's question.  So a turn that is        *)
(* answered was heard.                                                     *)
AnsweredIsHeard == \A t \in Turn : Answered(t) => \E i \in DOMAIN heard : heard[i] = t

=============================================================================
