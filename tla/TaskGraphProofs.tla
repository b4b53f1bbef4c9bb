-------------------------- MODULE TaskGraphProofs --------------------------
(* Theorems of TaskGraph for every set of agents, every number of retries  *)
(* and every bound on turns, calls and broken-off runs.                    *)
EXTENDS TaskGraph, SequenceTheorems, TLAPS

-----------------------------------------------------------------------------
(* Type correctness is not inductive: the task an agent is given is about  *)
(* the last thing heard, so something must have been heard before a node   *)
(* runs, and a call that was let through has to stay within its bound.     *)
HeardBefore == next # {} => heard # <<>>
LookAllowed == next = {"tools"} /\ call.tool = "look" => looks < MaxLooks

TypeInv == TypeOK /\ HeardBefore /\ LookAllowed

LEMMA InitType == Init => TypeInv
<1> SUFFICES ASSUME Init PROVE TypeInv
  OBVIOUS
<1>1. RoundOK
  BY GraphAssumption DEF Init, RoundOK, Status, NoResponse, NoFeedback
<1>2. PositionOK
  BY DEF Init, PositionOK, Call, NoCall
<1>3. RunOK
  BY GraphAssumption DEF Init, RunOK, Outcome, Ending
<1>4. HeardBefore /\ LookAllowed
  BY DEF Init, HeardBefore, LookAllowed, NoCall
<1> QED
  BY <1>1, <1>2, <1>3, <1>4 DEF TypeInv, TypeOK

(* The ends of a turn.                                                     *)
LEMMA EndTurnType ==
  ASSUME RunOK, NEW o, EndTurn(o),
         o \in Ending
  PROVE  /\ phase' \in {"idle", "running", "collided"}
         /\ outcome' \in [Turn -> Ending]
BY DEF RunOK, EndTurn

LEMMA EmptyOutcome ==
  ASSUME NEW k \in {"none", "complete", "interrupt", "error", "broken"}
  PROVE  Outcome(k, {}, 0) \in Ending
BY GraphAssumption DEF Outcome, Ending

LEMMA StartTurnType == ASSUME TypeInv, StartTurn PROVE TypeInv'
<1> USE DEF TypeInv, TypeOK
<1>1. RoundOK'
  BY DEF StartTurn, round, RoundOK
<1>2. turn + 1 \in Turn
  BY GraphAssumption DEF StartTurn, RunOK, Turn
<1>3. PositionOK' /\ HeardBefore'
  <2>1. CASE next # {}
    BY <2>1 DEF StartTurn, PositionOK, HeardBefore
  <2>2. CASE next = {}
    <3>1. heard' \in Seq(Turn) /\ heard' # <<>>
      BY <1>2, <2>2, AppendProperties DEF StartTurn, PositionOK
    <3> QED
      BY <2>2, <3>1 DEF StartTurn, PositionOK, HeardBefore, Node
  <2> QED
    BY <2>1, <2>2
<1>4. RunOK'
  <2>1. Entry \in {"new", "reply", "retryReply", "unfinished", "brokenOff"}
    BY DEF Entry
  <2>2. entry' \in [Turn -> {"none", "new", "reply", "retryReply", "unfinished",
                             "brokenOff"}]
    BY <2>1 DEF StartTurn, RunOK
  <2>3. resume' \in 0..MaxTurns /\ turn' \in 0..MaxTurns /\ phase' \in {"idle", "running", "collided"}
    BY <1>2, GraphAssumption DEF StartTurn, Turn
  <2> QED
    BY <2>2, <2>3, GraphAssumption DEF StartTurn, RunOK
<1>5. LookAllowed'
  BY GraphAssumption DEF StartTurn, LookAllowed, RunOK
<1> QED
  BY <1>1, <1>3, <1>4, <1>5

LEMMA ShownType ==
  ASSUME TypeInv
  PROVE  Shown \in Ending
<1>1. feedback.turn \in 0..MaxTurns /\ result \in SUBSET Turn /\ 0 \in 0..MaxTurns
  BY GraphAssumption DEF TypeInv, TypeOK, RoundOK
<1> QED
  BY <1>1 DEF Shown, Outcome, Ending

(* Steps that only end a run.                                              *)
LEMMA EndingType ==
  ASSUME TypeInv, CollidedTurn \/ Finish \/ BreakOff \/ Ask \/ InvokeTwice \/ SuperviseAndAudit
  PROVE  TypeInv'
<1> USE DEF TypeInv, TypeOK
<1>1. CASE CollidedTurn
  <2>1. turn' \in 0..MaxTurns
    BY <1>1, GraphAssumption DEF CollidedTurn, RunOK
  <2>2. outcome' \in [Turn -> Ending]
    BY <1>1, EmptyOutcome DEF CollidedTurn, RunOK
  <2> QED
    BY <1>1, <2>1, <2>2 DEF CollidedTurn, RoundOK, PositionOK, RunOK, HeardBefore, LookAllowed,
       round, position
<1>2. CASE Finish
  <2>1. phase' \in {"idle", "running", "collided"} /\ outcome' \in [Turn -> Ending]
    BY <1>2, ShownType, EndTurnType DEF Finish
  <2> QED
    BY <1>2, <2>1 DEF Finish, RoundOK, PositionOK, RunOK, HeardBefore, LookAllowed, round, position
<1>3. CASE BreakOff
  <2>1. phase' \in {"idle", "running", "collided"} /\ outcome' \in [Turn -> Ending]
    BY <1>3, EmptyOutcome, EndTurnType DEF BreakOff
  <2>2. breaks' \in 0..MaxBreaks /\ done' \subseteq next' \cap Agent
    BY <1>3, GraphAssumption DEF BreakOff, RunOK, PositionOK
  <2> QED
    BY <1>3, <2>1, <2>2 DEF BreakOff, RoundOK, PositionOK, RunOK, HeardBefore, LookAllowed, round
<1>4. CASE Ask
  <2>1. phase' \in {"idle", "running", "collided"} /\ outcome' \in [Turn -> Ending]
    BY <1>4, EmptyOutcome, EndTurnType DEF Ask
  <2> QED
    BY <1>4, <2>1 DEF Ask, RoundOK, PositionOK, RunOK, HeardBefore, LookAllowed, round, position
<1>5. CASE InvokeTwice \/ SuperviseAndAudit
  <2>1. Collide
    BY <1>5 DEF InvokeTwice, SuperviseAndAudit
  <2>2. phase' \in {"idle", "running", "collided"} /\ outcome' \in [Turn -> Ending]
    BY <2>1, EmptyOutcome DEF Collide, RunOK
  <2> QED
    BY <2>1, <2>2 DEF Collide, RoundOK, PositionOK, RunOK, HeardBefore, LookAllowed, round,
       position
<1> QED
  BY <1>1, <1>2, <1>3, <1>4, <1>5
(* A node that goes on: only what it wrote has to be looked at.            *)
LEMMA GoToType ==
  ASSUME TypeInv, NEW nodes \in (SUBSET Agent) \cup Node, GoTo(nodes), next # {},
         heard' \in Seq(Turn), heard # <<>> => heard' # <<>>,
         call' \in Call, looks' \in 0..MaxLooks,
         nodes = {"tools"} /\ call'.tool = "look" => looks' < MaxLooks
  PROVE  PositionOK' /\ RunOK' /\ HeardBefore' /\ LookAllowed'
<1>1. PositionOK'
  BY DEF GoTo, PositionOK
<1>2. RunOK'
  BY GraphAssumption DEF GoTo, RunOK, TypeInv, TypeOK
<1>3. HeardBefore' /\ LookAllowed'
  BY DEF GoTo, HeardBefore, LookAllowed, TypeInv
<1> QED
  BY <1>1, <1>2, <1>3

LEMMA SupervisorType == ASSUME TypeInv, Supervisor PROVE TypeInv'
<1> USE DEF TypeInv, TypeOK
<1>1. CASE \E c \in Call : Supervise(c)
  <2>1. PICK c \in Call : Supervise(c)
    BY <1>1
  <2>2. RoundOK'
    BY <2>1, GraphAssumption DEF Supervise, PrepareSupervisor, ResetRound, RoundOK, Status, round,
       NoResponse, NoFeedback
  <2>3. PositionOK' /\ RunOK' /\ HeardBefore' /\ LookAllowed'
    <3>1. PICK nodes \in {{}, {"tools"}} : GoTo(nodes) /\ (nodes = {"tools"} => c # NoCall)
      BY <2>1 DEF Supervise
    <3>2. looks' = looks /\ heard' = heard /\ call' = c /\ next # {}
      BY <2>1 DEF Supervise, Runs
    <3>3. c.tool = "look" => looks < MaxLooks
      BY <2>1 DEF Supervise
    <3>4. nodes \in (SUBSET Agent) \cup Node
      BY DEF Node
    <3>5. looks \in 0..MaxLooks /\ heard \in Seq(Turn)
      BY DEF RunOK, PositionOK
    <3> QED
      BY <3>1, <3>2, <3>3, <3>4, <3>5, GoToType
  <2> QED
    BY <2>2, <2>3
<1>2. CASE SuperviseRaises
  <2>1. RoundOK'
    BY <1>2 DEF SuperviseRaises, RoundOK, Status, round
  <2>2. NoCall \in Call /\ looks \in 0..MaxLooks /\ heard \in Seq(Turn)
    BY DEF Call, RunOK, PositionOK
  <2>3. GoTo({}) /\ call' = NoCall /\ looks' = looks /\ heard' = heard /\ next # {}
    BY <1>2 DEF SuperviseRaises, Runs
  <2>4. {} \in (SUBSET Agent) \cup Node /\ {} # {"tools"}
    OBVIOUS
  <2>5. PositionOK' /\ RunOK' /\ HeardBefore' /\ LookAllowed'
    BY <2>2, <2>3, <2>4, GoToType
  <2> QED
    BY <2>1, <2>5
<1> QED
  BY <1>1, <1>2 DEF Supervisor

(* Every other node leaves the call alone and is not followed by the tools.*)
LEMMA NodeType ==
  ASSUME TypeInv, NEW nodes \in (SUBSET Agent) \cup Node, nodes # {"tools"}, GoTo(nodes),
         next # {}, UNCHANGED <<heard, call, looks>>
  PROVE  PositionOK' /\ RunOK' /\ HeardBefore' /\ LookAllowed'
<1>1. looks \in 0..MaxLooks /\ heard \in Seq(Turn) /\ call \in Call
  BY DEF RunOK, PositionOK, TypeInv, TypeOK
<1> QED
  BY <1>1, GoToType

LEMMA AfterToolsNode ==
  /\ {AfterTools} \in (SUBSET Agent) \cup Node
  /\ {AfterTools} # {"tools"}
<1>1. AfterTools \in {"dispatcher", "aggregator", "supervisor"}
  BY Zenon DEF AfterTools
<1> QED
  BY <1>1 DEF Node

LEMMA ToolsType == ASSUME TypeInv, Look \/ TakeReply \/ Invoke PROVE TypeInv'
<1> USE DEF TypeInv, TypeOK
<1>1. CASE Look
  <2>1. RoundOK'
    BY <1>1 DEF Look, RoundOK, round
  <2>2. looks' \in 0..MaxLooks
    BY <1>1, GraphAssumption DEF Look, RunOK, LookAllowed, Runs
  <2>3. GoTo({AfterTools}) /\ call' = call /\ heard' = heard /\ next # {}
    BY <1>1 DEF Look, Runs
  <2>4. heard \in Seq(Turn) /\ call \in Call
    BY DEF PositionOK
  <2> QED
    BY <2>1, <2>2, <2>3, <2>4, AfterToolsNode, GoToType
<1>2. CASE TakeReply
  <2>1. RoundOK'
    BY <1>2 DEF TakeReply, RoundOK, round
  <2>2. resume \in Turn
    BY <1>2, GraphAssumption DEF TakeReply, RunOK, Turn
  <2>3. heard' \in Seq(Turn) /\ heard' # <<>>
    BY <1>2, <2>2, AppendProperties DEF TakeReply, PositionOK
  <2>4. GoTo({AfterTools}) /\ call' = call /\ looks' = looks /\ next # {}
    BY <1>2 DEF TakeReply, Runs
  <2>5. looks \in 0..MaxLooks /\ call \in Call
    BY DEF RunOK, PositionOK
  <2> QED
    BY <2>1, <2>3, <2>4, <2>5, AfterToolsNode, GoToType
<1>3. CASE Invoke
  <2>1. Chosen \subseteq Agent
    BY <1>3 DEF Chosen, PositionOK, Call, NoCall, Invoke
  <2>2. Topic \in Turn
    <3>1. heard \in Seq(Turn) /\ heard # <<>>
      BY <1>3 DEF Invoke, Runs, PositionOK, HeardBefore
    <3> QED
      BY <3>1, SMT DEF Topic
  <2>3. Topic \in 0..MaxTurns
    BY <2>2, GraphAssumption DEF Turn
  <2>4. RoundOK'
    BY <1>3, <2>1, <2>3 DEF Invoke, RoundOK, Status
  <2>5. GoTo({"dispatcher"}) /\ UNCHANGED <<heard, call, looks>> /\ next # {}
    BY <1>3 DEF Invoke, Runs
  <2>6. {"dispatcher"} \in (SUBSET Agent) \cup Node /\ {"dispatcher"} # {"tools"}
    BY DEF Node
  <2> QED
    BY <2>4, <2>5, <2>6, NodeType
<1> QED
  BY <1>1, <1>2, <1>3

LEMMA DispatchType == ASSUME TypeInv, Dispatch PROVE TypeInv'
<1> USE DEF TypeInv, TypeOK
<1>1. RoundOK'
  BY DEF Dispatch, RoundOK, Status
<1>2. PICK nodes \in {{"aggregator"}, pending} : GoTo(nodes)
  BY DEF Dispatch
<1>3. nodes \in (SUBSET Agent) \cup Node /\ nodes # {"tools"}
  BY GraphAssumption DEF Node, RoundOK
<1>4. UNCHANGED <<heard, call, looks>> /\ next # {}
  BY DEF Dispatch, Runs
<1> QED
  BY <1>1, <1>2, <1>3, <1>4, NodeType

(* A step of agents is a step of agents only.                              *)
LEMMA AgentStep ==
  ASSUME PositionOK, NEW a \in Agent, a \in next
  PROVE  next \subseteq Agent
BY GraphAssumption DEF PositionOK, Node

LEMMA AgentsType ==
  ASSUME TypeInv, NEW a \in Agent, AgentAnswers(a) \/ LastAgentAnswers(a)
  PROVE  TypeInv'
<1> USE DEF TypeInv, TypeOK
<1>1. CASE AgentAnswers(a)
  <2>1. PositionOK' /\ RunOK'
    BY <1>1, GraphAssumption DEF AgentAnswers, PositionOK, RunOK, run
  <2> QED
    BY <1>1, <2>1 DEF AgentAnswers, RoundOK, HeardBefore, LookAllowed, round, run
<1>2. CASE LastAgentAnswers(a)
  <2>1. next \subseteq Agent
    BY <1>2, AgentStep DEF LastAgentAnswers
  <2>2. RoundOK'
    BY <1>2, <2>1 DEF LastAgentAnswers, RoundOK
  <2>3. GoTo({"aggregator"}) /\ UNCHANGED <<heard, call, looks>> /\ next # {}
    BY <1>2 DEF LastAgentAnswers
  <2>4. {"aggregator"} \in (SUBSET Agent) \cup Node /\ {"aggregator"} # {"tools"}
    BY DEF Node
  <2> QED
    BY <2>2, <2>3, <2>4, NodeType
<1> QED
  BY <1>1, <1>2

LEMMA AggregatorType == ASSUME TypeInv, Aggregator PROVE TypeInv'
<1> USE DEF TypeInv, TypeOK
<1>1. CASE Aggregate
  <2>1. Parts \subseteq Turn
    <3>1. \A a \in Agent : response[a] \in 0..MaxTurns
      BY DEF RoundOK
    <3>2. (0..MaxTurns) \ {0} \subseteq Turn /\ aggregate \subseteq Turn
      BY GraphAssumption DEF Turn, RoundOK
    <3> QED
      BY <3>1, <3>2 DEF Parts
  <2>2. RoundOK'
    BY <1>1, <2>1 DEF Aggregate, RoundOK, Status
  <2>3. GoTo({"audit"}) /\ UNCHANGED <<heard, call, looks>> /\ next # {}
    BY <1>1 DEF Aggregate, Runs
  <2>4. {"audit"} \in (SUBSET Agent) \cup Node /\ {"audit"} # {"tools"}
    BY DEF Node
  <2> QED
    BY <2>2, <2>3, <2>4, NodeType
<1>2. CASE AggregateNothing
  <2>1. RoundOK'
    BY <1>2 DEF AggregateNothing, RoundOK, Status, round
  <2>2. GoTo({"supervisor", "audit"}) /\ UNCHANGED <<heard, call, looks>> /\ next # {}
    BY <1>2 DEF AggregateNothing, Runs
  <2>3. {"supervisor", "audit"} \in (SUBSET Agent) \cup Node /\ {"supervisor", "audit"} # {"tools"}
    BY DEF Node
  <2> QED
    BY <2>1, <2>2, <2>3, NodeType
<1> QED
  BY <1>1, <1>2 DEF Aggregator

LEMMA AuditType == ASSUME TypeInv, Audit PROVE TypeInv'
<1> USE DEF TypeInv, TypeOK
<1>1. RoundOK'
  <2>1. CASE AuditPasses
    BY <2>1, GraphAssumption DEF AuditPasses, RoundOK, Status, NoFeedback, NoResponse
  <2>2. ASSUME NEW t \in Target, AuditRetries(t) PROVE RoundOK'
    BY <2>2, GraphAssumption DEF AuditRetries, RoundOK, Status, RunOK
  <2>3. ASSUME NEW t \in Target, AuditFails(t) PROVE RoundOK'
    BY <2>3, GraphAssumption DEF AuditFails, RoundOK, Status, RunOK
  <2> QED
    BY <2>1, <2>2, <2>3 DEF Audit
<1>2. PICK nodes \in {{}, {"supervisor"}} : GoTo(nodes)
  BY DEF Audit, AuditPasses, AuditRetries, AuditFails
<1>3. UNCHANGED <<heard, call, looks>> /\ next # {}
  BY DEF Audit, AuditPasses, AuditRetries, AuditFails, Runs
<1>4. nodes \in (SUBSET Agent) \cup Node /\ nodes # {"tools"}
  BY DEF Node
<1> QED
  BY <1>1, <1>2, <1>3, <1>4, NodeType

LEMMA TypeStep == ASSUME TypeInv, [Next]_vars PROVE TypeInv'
<1>1. CASE StartTurn
  BY <1>1, StartTurnType
<1>2. CASE CollidedTurn \/ BreakOff \/ Finish \/ SuperviseAndAudit
  BY <1>2, EndingType
<1>3. CASE Supervisor
  BY <1>3, SupervisorType
<1>4. CASE Tools
  BY <1>4, ToolsType, EndingType DEF Tools
<1>5. CASE Dispatch
  BY <1>5, DispatchType
<1>6. CASE Agents
  BY <1>6, AgentsType DEF Agents
<1>7. CASE Aggregator
  BY <1>7, AggregatorType
<1>8. CASE Audit
  BY <1>8, AuditType
<1>9. CASE UNCHANGED vars
  BY <1>9 DEF vars, round, position, run, TypeInv, TypeOK, RoundOK, PositionOK, RunOK,
       HeardBefore, LookAllowed
<1> QED
  BY <1>1, <1>2, <1>3, <1>4, <1>5, <1>6, <1>7, <1>8, <1>9 DEF Next, Step

(* The types of one thread, whatever models, auditors and users do: every  *)
(* node keeps task_status within TaskStatus, the audit never spends more   *)
(* than max_retries, and the step to run is always one the graph has.      *)
THEOREM GraphTypeCorrect == Spec => []TypeOK
BY InitType, TypeStep, PTL DEF Spec, TypeInv

-----------------------------------------------------------------------------
(* No agent is left out.  An agent whose last answer is not to its last    *)
(* task is waiting to be sent for or at work; and once the dispatcher ran, *)
(* nobody is waiting.                                                      *)
TasksAreUnderWay ==
    /\ \A a \in Agent : input[a] # response[a] => a \in pending \cup next
    /\ pending # {} => next = {"dispatcher"}

LEMMA NothingUnderWay ==
  ASSUME TypeInv, TasksAreUnderWay, next \cap Agent = {}, next # {"dispatcher"}
  PROVE  pending = {} /\ \A a \in Agent : input[a] = response[a]
BY DEF TasksAreUnderWay

LEMMA SameTasks ==
  ASSUME TypeInv, TasksAreUnderWay, next \cap Agent = {}, next # {"dispatcher"},
         UNCHANGED <<pending, input, response>>
  PROVE  TasksAreUnderWay'
<1>1. pending = {} /\ \A a \in Agent : input[a] = response[a]
  BY NothingUnderWay
<1> QED
  BY <1>1 DEF TasksAreUnderWay

LEMMA TasksStep ==
  ASSUME TypeInv, TasksAreUnderWay, [Next]_vars
  PROVE  TasksAreUnderWay'
<1>1. CASE StartTurn
  <2>1. CASE next # {}
    BY <1>1, <2>1 DEF StartTurn, TasksAreUnderWay, round
  <2>2. CASE next = {}
    BY <1>1, <2>2, SameTasks DEF StartTurn, round
  <2> QED
    BY <2>1, <2>2
<1>2. CASE CollidedTurn \/ BreakOff \/ Finish \/ SuperviseAndAudit \/ Ask \/ InvokeTwice
  BY <1>2 DEF CollidedTurn, BreakOff, Finish, SuperviseAndAudit, Ask, InvokeTwice, Collide, round,
     position, TasksAreUnderWay
<1>3. CASE Supervisor
  <2>1. next = {"supervisor"} /\ next \cap Agent = {} /\ next # {"dispatcher"}
    BY <1>3, GraphAssumption DEF Supervisor, Supervise, SuperviseRaises, Runs
  <2>2. ResetRound \/ UNCHANGED round
    BY <1>3 DEF Supervisor, Supervise, SuperviseRaises, PrepareSupervisor
  <2>3. CASE ResetRound
    BY <2>3 DEF ResetRound, TasksAreUnderWay
  <2>4. CASE UNCHANGED round
    BY <2>1, <2>4, SameTasks DEF round
  <2> QED
    BY <2>2, <2>3, <2>4
<1>4. CASE Look \/ TakeReply
  BY <1>4, GraphAssumption, SameTasks DEF Look, TakeReply, Runs, round
<1>5. CASE Invoke
  <2>1. pending = {} /\ \A a \in Agent : input[a] = response[a]
    BY <1>5, GraphAssumption, NothingUnderWay DEF Invoke, Runs
  <2>2. pending' = Chosen /\ next' = {"dispatcher"} /\ response' = response
    BY <1>5, <2>1 DEF Invoke, GoTo
  <2>3. \A a \in Agent : a \notin Chosen => input'[a] = input[a]
    BY <1>5 DEF Invoke
  <2> QED
    BY <2>1, <2>2, <2>3 DEF TasksAreUnderWay
<1>6. CASE Dispatch
  <2>1. \A a \in Agent : input[a] # response[a] => a \in pending
    BY <1>6, GraphAssumption DEF Dispatch, Runs, TasksAreUnderWay
  <2>2. pending' = {} /\ input' = input /\ response' = response /\ (pending # {} => next' = pending)
    BY <1>6 DEF Dispatch, GoTo
  <2> QED
    BY <2>1, <2>2 DEF TasksAreUnderWay
<1>7. CASE Agents
  <2>1. PICK a \in Agent : AgentAnswers(a) \/ LastAgentAnswers(a)
    BY <1>7 DEF Agents
  <2>2. CASE AgentAnswers(a)
    BY <2>2 DEF AgentAnswers, TasksAreUnderWay, round
  <2>3. CASE LastAgentAnswers(a)
    <3>1. pending = {}
      BY <2>3, GraphAssumption DEF LastAgentAnswers, TasksAreUnderWay
    <3>2. \A b \in Agent : response'[b] = input[b]
      BY <2>3, <3>1 DEF LastAgentAnswers, TasksAreUnderWay
    <3> QED
      BY <2>3, <3>2 DEF LastAgentAnswers, TasksAreUnderWay
  <2> QED
    BY <2>1, <2>2, <2>3
<1>8. CASE Aggregator
  BY <1>8, GraphAssumption, SameTasks DEF Aggregator, Aggregate, AggregateNothing, Runs, round
<1>9. CASE Audit
  <2>1. CASE AuditPasses
    BY <2>1 DEF AuditPasses, TasksAreUnderWay
  <2>2. CASE \E t \in Target : AuditRetries(t) \/ AuditFails(t)
    BY <2>2, GraphAssumption, SameTasks DEF AuditRetries, AuditFails, Runs
  <2> QED
    BY <1>9, <2>1, <2>2 DEF Audit
<1>10. CASE UNCHANGED vars
  BY <1>10 DEF vars, round, position, TasksAreUnderWay
<1> QED
  BY <1>1, <1>2, <1>3, <1>4, <1>5, <1>6, <1>7, <1>8, <1>9, <1>10 DEF Next, Step, Tools

(* What is aggregated and audited holds the answer of every agent to its   *)
(* latest task, for any number of agents and however often the step of the *)
(* agents broke off and was taken up again.                                *)
THEOREM NoAgentLeftOut == Spec => []NoAgentIsLeftOut
<1> DEFINE Inv == TypeInv /\ TasksAreUnderWay
<1>1. Init => Inv
  BY InitType DEF Init, TasksAreUnderWay
<1>2. Inv /\ [Next]_vars => Inv'
  BY TypeStep, TasksStep
<1>3. Inv => NoAgentIsLeftOut
  <2> SUFFICES ASSUME TypeInv, TasksAreUnderWay, next \in {{"aggregator"}, {"audit"}}
               PROVE  response = input
    BY DEF NoAgentIsLeftOut
  <2>1. \A a \in Agent : input[a] = response[a]
    BY GraphAssumption, NothingUnderWay
  <2>2. input \in [Agent -> 0..MaxTurns] /\ response \in [Agent -> 0..MaxTurns]
    BY DEF TypeInv, TypeOK, RoundOK
  <2> QED
    BY <2>1, <2>2
<1> QED
  BY <1>1, <1>2, <1>3, PTL DEF Spec
-----------------------------------------------------------------------------
(* Collisions.  What the round holds keeps the dispatcher and the          *)
(* aggregator from being reached empty-handed, unless the last call was    *)
(* bad: an agent that finished left an answer, an agent that is sent for   *)
(* has a task, an objection was made to an aggregate, and the supervisor   *)
(* works in idle, routing, retrying and the two final states only.         *)
BadCall ==
    \/ call.tool = "invokeTwice"
    \/ call.tool = "invoke" /\ call.agents = {}

RoundHolds ==
    /\ Parts = {} => finished = {}
    /\ \A a \in Agent : a \in pending \cup next => input[a] # 0
    /\ feedback # NoFeedback /\ status \notin Terminal => aggregate # {}
    /\ status = "retrying" \/ next = {"audit"} => aggregate # {}

StatusFits ==
    /\ next \in {{"supervisor"}, {"tools"}, {}} =>
         status \notin {"dispatched", "executing", "aggregating", "auditing"}
    /\ next \notin {{}, {"supervisor"}} => status \notin Terminal

EmptyHanded ==
    \/ phase = "collided"
    \/ next = {"supervisor", "audit"}
    \/ next = {"aggregator"} /\ Parts = {}
    \/ next = {"dispatcher"} /\ pending = {} /\ Parts = {}

CollisionInv ==
    /\ TypeInv
    /\ RoundHolds
    /\ StatusFits
    /\ EmptyHanded => BadCall

LEMMA PartsNonEmpty ==
  ASSUME TypeInv
  PROVE  /\ aggregate # {} => Parts # {}
         /\ \A a \in Agent : response[a] # 0 => Parts # {}
         /\ (Parts = {}) <=> (aggregate = {} /\ \A a \in Agent : response[a] = 0)
BY DEF Parts

LEMMA CollisionInit == Init => CollisionInv
<1> SUFFICES ASSUME Init PROVE CollisionInv
  OBVIOUS
<1>1. TypeInv
  BY InitType
<1>2. RoundHolds /\ StatusFits
  BY DEF Init, RoundHolds, StatusFits, Terminal
<1>3. ~EmptyHanded
  BY DEF Init, EmptyHanded
<1> QED
  BY <1>1, <1>2, <1>3 DEF CollisionInv

(* Steps between runs, and those that end one.                             *)
LEMMA CollisionOutside ==
  ASSUME CollisionInv,
         StartTurn \/ CollidedTurn \/ BreakOff \/ Finish \/ Ask \/ InvokeTwice \/ SuperviseAndAudit
  PROVE  RoundHolds' /\ StatusFits' /\ (EmptyHanded => BadCall)'
<1>1. Parts' = Parts /\ UNCHANGED <<pending, finished, input, feedback, aggregate, status, call>>
  BY DEF StartTurn, CollidedTurn, BreakOff, Finish, Ask, InvokeTwice, SuperviseAndAudit, Collide,
     round, Parts
<1>2. next' = next \/ (next = {} /\ next' = {"supervisor"})
  BY DEF StartTurn, CollidedTurn, BreakOff, Finish, Ask, InvokeTwice, SuperviseAndAudit, Collide,
     position
<1>3. RoundHolds' /\ StatusFits'
  BY <1>1, <1>2, GraphAssumption DEF CollisionInv, RoundHolds, StatusFits
<1>4. phase' # "collided" \/ phase = "collided" \/ EmptyHanded \/ BadCall
  BY DEF StartTurn, CollidedTurn, BreakOff, Finish, Ask, InvokeTwice, SuperviseAndAudit, EndTurn,
     EmptyHanded, BadCall
<1>5. (EmptyHanded => BadCall)'
  BY <1>1, <1>2, <1>4 DEF CollisionInv, EmptyHanded, BadCall
<1> QED
  BY <1>3, <1>5

LEMMA CollisionSupervisor ==
  ASSUME CollisionInv, Supervisor
  PROVE  RoundHolds' /\ StatusFits' /\ (EmptyHanded => BadCall)'
<1>1. next = {"supervisor"} /\ phase = "running" /\ phase' = "running"
  BY DEF Supervisor, Supervise, SuperviseRaises, Runs, Running, GoTo
<1>2. next' = {} \/ next' = {"tools"}
  BY DEF Supervisor, Supervise, SuperviseRaises, GoTo
<1>3. ~EmptyHanded'
  BY <1>1, <1>2 DEF EmptyHanded
<1>4. CASE ResetRound
  <2>1. Parts' = {}
    BY <1>4 DEF ResetRound, NoResponse, Parts
  <2> QED
    BY <1>2, <1>3, <1>4, <2>1, GraphAssumption
    DEF ResetRound, RoundHolds, StatusFits, Terminal
<1>5. CASE /\ UNCHANGED round
           /\ \/ status' = "retrying" /\ status \notin Terminal /\ feedback # NoFeedback
              \/ status' = status /\ (status \notin Terminal)
              \/ status' = "failed" /\ next' = {}
  <2>1. Parts' = Parts
    BY <1>5 DEF round, Parts
  <2>2. RoundHolds'
    BY <1>1, <1>2, <1>5, <2>1, GraphAssumption DEF CollisionInv, RoundHolds, round, Terminal
  <2>3. StatusFits'
    BY <1>1, <1>2, <1>5 DEF CollisionInv, StatusFits, Terminal
  <2> QED
    BY <1>3, <2>2, <2>3
<1> QED
  BY <1>4, <1>5 DEF Supervisor, Supervise, SuperviseRaises, PrepareSupervisor, GoTo

LEMMA CollisionTools ==
  ASSUME CollisionInv, Look \/ TakeReply \/ Invoke
  PROVE  RoundHolds' /\ StatusFits' /\ (EmptyHanded => BadCall)'
<1>1. next = {"tools"} /\ phase' = "running" /\ Parts' = Parts
  BY DEF Look, TakeReply, Invoke, Runs, Running, GoTo, round, Parts
<1>2. CASE Look \/ TakeReply
  <2>1. UNCHANGED <<pending, finished, input, feedback, aggregate, status, call>>
        /\ next' = {AfterTools}
    BY <1>2 DEF Look, TakeReply, GoTo, round
  <2>2. status \in {"routing", "retrying"}
    BY <1>1 DEF CollisionInv, TypeInv, TypeOK, RoundOK, StatusFits, Status, Terminal
  <2>3. AfterTools = IF status = "retrying" THEN "aggregator" ELSE "supervisor"
    BY <2>2 DEF AfterTools
  <2>4. status = "retrying" => Parts # {}
    BY PartsNonEmpty DEF CollisionInv, RoundHolds
  <2>5. next' = {"supervisor"} \/ (next' = {"aggregator"} /\ Parts # {})
    BY <2>1, <2>3, <2>4
  <2>6. RoundHolds'
    BY <1>1, <2>1, <2>5, GraphAssumption DEF CollisionInv, RoundHolds
  <2>7. StatusFits'
    BY <2>1, <2>2, <2>5 DEF StatusFits, Terminal
  <2>8. ~EmptyHanded'
    BY <1>1, <2>5 DEF EmptyHanded
  <2> QED
    BY <2>6, <2>7, <2>8
<1>3. CASE Invoke
  <2>1. /\ status' = "dispatched" /\ next' = {"dispatcher"} /\ pending' = pending \cup Chosen
        /\ UNCHANGED <<finished, response, aggregate, feedback, call>>
    BY <1>3 DEF Invoke, GoTo
  <2>2. Topic # 0
    <3>1. heard \in Seq(Turn) /\ heard # <<>>
      BY <1>3 DEF Invoke, Runs, CollisionInv, TypeInv, TypeOK, PositionOK, HeardBefore
    <3>2. Topic \in Turn
      BY <3>1, SMT DEF Topic
    <3> QED
      BY <3>2, GraphAssumption DEF Turn
  <2>3. \A a \in Agent : a \in pending' \cup next' => input'[a] # 0
    <3>1. \A a \in Agent : input'[a] = IF a \in Chosen THEN Topic ELSE input[a]
      BY <1>3 DEF Invoke
    <3> QED
      BY <2>1, <2>2, <3>1, GraphAssumption DEF CollisionInv, RoundHolds
  <2>4. status \notin Terminal
    BY <1>1 DEF CollisionInv, StatusFits
  <2>5. RoundHolds' /\ StatusFits'
    BY <1>1, <2>1, <2>3, <2>4 DEF CollisionInv, RoundHolds, StatusFits, Terminal
  <2>6. pending' = {} /\ Parts = {} => BadCall
    <3> SUFFICES ASSUME Chosen = {}, Parts = {} PROVE call.agents = {}
      BY <1>3, <2>1 DEF BadCall, Invoke
    <3>1. finished = {}
      BY DEF CollisionInv, RoundHolds
    <3> QED
      BY <3>1 DEF Chosen
  <2> QED
    BY <1>1, <2>1, <2>5, <2>6 DEF EmptyHanded, BadCall
<1> QED
  BY <1>2, <1>3
LEMMA CollisionDispatch ==
  ASSUME CollisionInv, Dispatch
  PROVE  RoundHolds' /\ StatusFits' /\ (EmptyHanded => BadCall)'
<1>1. /\ next = {"dispatcher"} /\ phase' = "running" /\ Parts' = Parts /\ pending' = {}
      /\ UNCHANGED <<finished, input, feedback, aggregate, call>>
  BY DEF Dispatch, Runs, Running, GoTo, Parts
<1>2. CASE pending = {}
  <2>1. status' = "aggregating" /\ next' = {"aggregator"}
    BY <1>2 DEF Dispatch, GoTo
  <2>2. RoundHolds' /\ StatusFits'
    BY <1>1, <2>1, GraphAssumption DEF CollisionInv, RoundHolds, StatusFits, Terminal
  <2>3. EmptyHanded' => EmptyHanded
    BY <1>1, <1>2, <2>1 DEF EmptyHanded
  <2> QED
    BY <1>1, <2>2, <2>3 DEF CollisionInv, BadCall
<1>3. CASE pending # {}
  <2>1. status' = "executing" /\ next' = pending
    BY <1>3 DEF Dispatch, GoTo
  <2>2. pending \subseteq Agent
    BY DEF CollisionInv, TypeInv, TypeOK, RoundOK
  <2>3. pending \notin {{}, {"supervisor"}, {"tools"}, {"dispatcher"}, {"aggregator"}, {"audit"},
                       {"supervisor", "audit"}}
    BY <1>3, <2>2, GraphAssumption
  <2>4. RoundHolds' /\ StatusFits' /\ ~EmptyHanded'
    BY <1>1, <2>1, <2>3 DEF CollisionInv, RoundHolds, StatusFits, EmptyHanded, Terminal
  <2> QED
    BY <2>4
<1> QED
  BY <1>2, <1>3

LEMMA CollisionAgents ==
  ASSUME CollisionInv, NEW a \in Agent, AgentAnswers(a) \/ LastAgentAnswers(a)
  PROVE  RoundHolds' /\ StatusFits' /\ (EmptyHanded => BadCall)'
<1>1. CASE AgentAnswers(a)
  <2>1. /\ Parts' = Parts
        /\ UNCHANGED <<pending, finished, input, feedback, aggregate, status, call, next, phase>>
    BY <1>1 DEF AgentAnswers, Parts, round, run
  <2> QED
    BY <2>1 DEF CollisionInv, RoundHolds, StatusFits, EmptyHanded, BadCall
<1>2. CASE LastAgentAnswers(a)
  <2>1. /\ phase' = "running" /\ next' = {"aggregator"} /\ pending' = {} /\ a \in next
        /\ UNCHANGED <<status, input, aggregate, feedback>>
    BY <1>2 DEF LastAgentAnswers, Running, GoTo
  <2>2. response'[a] = input[a] /\ input[a] # 0
    BY <1>2, <2>1 DEF LastAgentAnswers, CollisionInv, RoundHolds
  <2>3. Parts' # {}
    BY <2>2 DEF Parts
  <2>4. RoundHolds'
    BY <2>1, <2>3, GraphAssumption DEF CollisionInv, RoundHolds
  <2>5. status \notin Terminal
    BY <2>1, GraphAssumption DEF CollisionInv, StatusFits
  <2>6. StatusFits' /\ ~EmptyHanded'
    BY <2>1, <2>3, <2>5 DEF StatusFits, EmptyHanded
  <2> QED
    BY <2>4, <2>6
<1> QED
  BY <1>1, <1>2

LEMMA CollisionAggregator ==
  ASSUME CollisionInv, Aggregator
  PROVE  RoundHolds' /\ StatusFits' /\ (EmptyHanded => BadCall)'
<1>1. /\ next = {"aggregator"} /\ phase' = "running"
      /\ UNCHANGED <<pending, finished, input, response, feedback, call>>
  BY DEF Aggregator, Aggregate, AggregateNothing, Runs, Running, GoTo, round
<1>2. CASE Aggregate
  <2>1. status' = "auditing" /\ next' = {"audit"} /\ aggregate' = Parts /\ Parts # {}
    BY <1>2 DEF Aggregate, GoTo
  <2>2. Parts' = Parts
    BY <1>1, <2>1 DEF Parts
  <2>3. RoundHolds' /\ StatusFits' /\ ~EmptyHanded'
    BY <1>1, <2>1, <2>2, GraphAssumption
    DEF CollisionInv, RoundHolds, StatusFits, EmptyHanded, Terminal
  <2> QED
    BY <2>3
<1>3. CASE AggregateNothing
  <2>1. /\ status' = "routing" /\ next' = {"supervisor", "audit"} /\ Parts = {} /\ aggregate' = aggregate
        /\ Parts' = Parts
    BY <1>3 DEF AggregateNothing, GoTo, round, Parts
  <2>2. EmptyHanded
    BY <1>1, <2>1 DEF EmptyHanded
  <2>3. status \notin Terminal
    BY <1>1 DEF CollisionInv, StatusFits
  <2>4. aggregate = {} /\ feedback = NoFeedback
    BY <2>1, <2>3, PartsNonEmpty DEF CollisionInv, RoundHolds
  <2>5. RoundHolds' /\ StatusFits'
    BY <1>1, <2>1, <2>4, GraphAssumption DEF CollisionInv, RoundHolds, StatusFits, Terminal
  <2> QED
    BY <1>1, <2>2, <2>5 DEF CollisionInv, BadCall
<1> QED
  BY <1>2, <1>3 DEF Aggregator

LEMMA CollisionAudit ==
  ASSUME CollisionInv, Audit
  PROVE  RoundHolds' /\ StatusFits' /\ (EmptyHanded => BadCall)'
<1>1. next = {"audit"} /\ phase' = "running" /\ aggregate # {}
  BY DEF Audit, AuditPasses, AuditRetries, AuditFails, Runs, Running, GoTo, CollisionInv, RoundHolds
<1>2. next' = {} \/ next' = {"supervisor"}
  BY DEF Audit, AuditPasses, AuditRetries, AuditFails, GoTo
<1>3. StatusFits' /\ ~EmptyHanded'
  BY <1>1, <1>2
  DEF Audit, AuditPasses, AuditRetries, AuditFails, StatusFits, EmptyHanded, Terminal
<1>4. RoundHolds'
  <2>1. CASE AuditPasses
    <3>1. pending' = {} /\ finished' = {} /\ feedback' = NoFeedback /\ status' = "completed"
      BY <2>1 DEF AuditPasses
    <3> QED
      BY <1>2, <3>1, GraphAssumption DEF RoundHolds
  <2>2. CASE \E t \in Target : AuditRetries(t) \/ AuditFails(t)
    <3>1. UNCHANGED <<pending, finished, input, response, aggregate>>
      BY <2>2 DEF AuditRetries, AuditFails
    <3>2. Parts' = Parts /\ Parts # {}
      BY <1>1, <3>1, PartsNonEmpty DEF Parts, CollisionInv
    <3> QED
      BY <1>1, <1>2, <3>1, <3>2, GraphAssumption DEF RoundHolds, CollisionInv
  <2> QED
    BY <2>1, <2>2 DEF Audit
<1> QED
  BY <1>3, <1>4

LEMMA CollisionStep == ASSUME CollisionInv, [Next]_vars PROVE CollisionInv'
<1> SUFFICES RoundHolds' /\ StatusFits' /\ (EmptyHanded => BadCall)'
  BY TypeStep DEF CollisionInv
<1>1. CASE StartTurn \/ CollidedTurn \/ BreakOff \/ Finish \/ Ask \/ InvokeTwice \/ SuperviseAndAudit
  BY <1>1, CollisionOutside
<1>2. CASE Supervisor
  BY <1>2, CollisionSupervisor
<1>3. CASE Look \/ TakeReply \/ Invoke
  BY <1>3, CollisionTools
<1>4. CASE Dispatch
  BY <1>4, CollisionDispatch
<1>5. CASE Agents
  BY <1>5, CollisionAgents DEF Agents
<1>6. CASE Aggregator
  BY <1>6, CollisionAggregator
<1>7. CASE Audit
  BY <1>7, CollisionAudit
<1>8. CASE UNCHANGED vars
  BY <1>8 DEF vars, round, position, run, CollisionInv, RoundHolds, StatusFits, EmptyHanded, BadCall,
       Parts
<1> QED
  BY <1>1, <1>2, <1>3, <1>4, <1>5, <1>6, <1>7, <1>8 DEF Next, Step, Tools

(* A thread is lost only to a message that names no agent or calls         *)
(* invoke_sub_agent twice; nothing that earlier rounds, objections and     *)
(* broken-off runs leave behind sends the dispatcher or the aggregator on  *)
(* without anything to do.                                                 *)
THEOREM CollisionsNeedBadCalls == Spec => []CollisionNeedsBadCall
<1>1. CollisionInv => CollisionNeedsBadCall
  BY DEF CollisionInv, EmptyHanded, BadCall, CollisionNeedsBadCall
<1> QED
  BY CollisionInit, CollisionStep, <1>1, PTL DEF Spec
-----------------------------------------------------------------------------
(* Answers.  A round that is being routed is empty, and no result is kept  *)
(* once a round has begun.                                                 *)
RoundIsEmpty == pending = {} /\ input = NoResponse /\ response = NoResponse /\ aggregate = {}

RoundBegins ==
    /\ status = "routing" => RoundIsEmpty
    /\ status = "retrying" => feedback # NoFeedback
    /\ status \notin Terminal => result = {}

LEMMA RoundBeginsStep ==
  ASSUME CollisionInv, TasksAreUnderWay, RoundBegins, [Next]_vars
  PROVE  RoundBegins'
<1>1. CASE StartTurn \/ CollidedTurn \/ BreakOff \/ Finish \/ Ask \/ InvokeTwice \/ SuperviseAndAudit
  BY <1>1 DEF StartTurn, CollidedTurn, BreakOff, Finish, Ask, InvokeTwice, SuperviseAndAudit, Collide,
     round, RoundBegins, RoundIsEmpty
<1>2. CASE Supervisor
  <2>1. CASE ResetRound
    BY <2>1 DEF ResetRound, RoundBegins, RoundIsEmpty
  <2>2. CASE ~ResetRound
    BY <1>2, <2>2 DEF Supervisor, Supervise, SuperviseRaises, PrepareSupervisor, round, RoundBegins,
       RoundIsEmpty, Terminal
  <2> QED
    BY <2>1, <2>2
<1>3. CASE Look \/ TakeReply
  BY <1>3 DEF Look, TakeReply, round, RoundBegins, RoundIsEmpty
<1>4. CASE Invoke \/ Dispatch
  <2>1. status \notin Terminal /\ result' = result /\ status' \in {"dispatched", "aggregating", "executing"}
    BY <1>4 DEF Invoke, Dispatch, Runs, CollisionInv, StatusFits
  <2> QED
    BY <2>1 DEF RoundBegins
<1>5. CASE Agents
  <2>1. PICK a \in Agent : AgentAnswers(a) \/ LastAgentAnswers(a)
    BY <1>5 DEF Agents
  <2>2. UNCHANGED <<status, result, feedback>> /\ input[a] # 0
    BY <2>1 DEF AgentAnswers, LastAgentAnswers, round, CollisionInv, RoundHolds
  <2>3. status # "routing"
    BY <2>2 DEF RoundBegins, RoundIsEmpty, NoResponse
  <2> QED
    BY <2>2, <2>3 DEF RoundBegins
<1>6. CASE Aggregate
  BY <1>6 DEF Aggregate, Runs, CollisionInv, StatusFits, RoundBegins
<1>7. CASE AggregateNothing
  <2>1. pending = {} /\ \A a \in Agent : input[a] = response[a]
    BY <1>7, GraphAssumption, NothingUnderWay DEF AggregateNothing, Runs, CollisionInv
  <2>2. aggregate = {} /\ \A a \in Agent : response[a] = 0
    BY <1>7, PartsNonEmpty DEF AggregateNothing, CollisionInv
  <2>3. input = NoResponse /\ response = NoResponse
    BY <2>1, <2>2 DEF CollisionInv, TypeInv, TypeOK, RoundOK, NoResponse
  <2>4. status \notin Terminal /\ status' = "routing" /\ UNCHANGED round
    BY <1>7 DEF AggregateNothing, Runs, CollisionInv, StatusFits
  <2> QED
    BY <2>1, <2>2, <2>3, <2>4 DEF RoundBegins, RoundIsEmpty, round
<1>8. CASE Audit
  <2>1. \A t \in Target : [target |-> t, turn |-> turn] # NoFeedback
    BY GraphAssumption DEF NoFeedback
  <2>2. status \notin Terminal
    BY <1>8 DEF Audit, AuditPasses, AuditRetries, AuditFails, Runs, CollisionInv, StatusFits
  <2> QED
    BY <1>8, <2>1, <2>2 DEF Audit, AuditPasses, AuditRetries, AuditFails, RoundBegins, Terminal
<1>9. CASE UNCHANGED vars
  BY <1>9 DEF vars, round, RoundBegins, RoundIsEmpty
<1> QED
  BY <1>1, <1>2, <1>3, <1>4, <1>5, <1>6, <1>7, <1>8, <1>9 DEF Next, Step, Tools, Aggregator

(* What a turn that began a round, or answered the supervisor's question   *)
(* while routing, finds and makes: the round still to be reset, or nothing *)
(* of another turn, or a supervisor that failed.  What was heard last is   *)
(* this turn's message, if the question is not just about to be answered.  *)
OnlyOf(t) ==
    /\ \A a \in Agent : input[a] \in {0, t} /\ response[a] \in {0, t}
    /\ aggregate \subseteq {t}
    /\ result \subseteq {t}

Replying == next = {"tools"} /\ call.tool = "ask" /\ resume = turn

Current ==
    \/ status \in Terminal /\ next = {"supervisor"} /\ Topic = turn
    \/ OnlyOf(turn) /\ (Topic = turn \/ Replying)
    \/ status = "failed" /\ next = {}

(* A node that goes on keeps it so.                                        *)
NodeStep == Supervisor \/ Look \/ TakeReply \/ Invoke \/ Dispatch \/ Agents \/ Aggregator \/ Audit

LEMMA NodeKeepsRun ==
  ASSUME NodeStep
  PROVE  UNCHANGED <<turn, phase, entry, outcome>> /\ resume' = 0
BY DEF NodeStep, Supervisor, Supervise, SuperviseRaises, Look, TakeReply, Invoke, Dispatch, Agents,
   AgentAnswers, LastAgentAnswers, Aggregator, Aggregate, AggregateNothing, Audit, AuditPasses,
   AuditRetries, AuditFails, GoTo, run

LEMMA CurrentStep ==
  ASSUME TypeInv, turn \in Turn, resume \in {0, turn}, Current, NodeStep
  PROVE  Current'
<1>1. UNCHANGED <<turn, phase, entry, outcome>>
  BY NodeKeepsRun
<1>2. CASE Supervisor
  <2>1. Topic = turn /\ Topic' = Topic /\ (status \in Terminal \/ OnlyOf(turn))
    BY <1>2 DEF Supervisor, Supervise, SuperviseRaises, Runs, Current, Replying, Topic
  <2>2. CASE SuperviseRaises
    BY <2>2 DEF SuperviseRaises, GoTo, Current
  <2>3. CASE ResetRound
    BY <1>1, <2>1, <2>3 DEF ResetRound, NoResponse, OnlyOf, Current
  <2>4. CASE UNCHANGED round /\ status \notin Terminal
    BY <1>1, <2>1, <2>4 DEF OnlyOf, Current, round
  <2> QED
    BY <1>2, <2>2, <2>3, <2>4 DEF Supervisor, Supervise, PrepareSupervisor
<1>3. CASE Look
  BY <1>1, <1>3 DEF Look, Runs, Current, Replying, Topic, OnlyOf, round
<1>4. CASE TakeReply
  <2>1. OnlyOf(turn) /\ UNCHANGED round
    BY <1>4 DEF TakeReply, Runs, Current
  <2>2. resume = turn /\ heard' = Append(heard, turn) /\ heard \in Seq(Turn)
    BY <1>4 DEF TakeReply, TypeInv, TypeOK, PositionOK
  <2>3. Topic' = turn
    BY <2>2, AppendProperties DEF Topic
  <2> QED
    BY <1>1, <2>1, <2>3 DEF Current, OnlyOf, round
<1>5. CASE Invoke
  <2>1. OnlyOf(turn) /\ Topic = turn /\ Topic' = turn
    BY <1>5 DEF Invoke, Runs, Current, Replying, Topic
  <2>2. /\ \A a \in Agent : input'[a] \in {input[a], Topic}
        /\ UNCHANGED <<response, aggregate, result>>
    BY <1>5 DEF Invoke
  <2> QED
    BY <1>1, <2>1, <2>2 DEF Current, OnlyOf
<1>6. CASE Dispatch
  BY <1>1, <1>6 DEF Dispatch, Runs, Current, Replying, Topic, OnlyOf
<1>7. CASE Agents
  <2>1. PICK a \in Agent : AgentAnswers(a) \/ LastAgentAnswers(a)
    BY <1>7 DEF Agents
  <2>2. next \notin {{"supervisor"}, {"tools"}, {}}
    BY <2>1, GraphAssumption DEF AgentAnswers, LastAgentAnswers
  <2>3. OnlyOf(turn) /\ Topic = turn /\ Topic' = turn
    BY <2>1, <2>2 DEF Current, Replying, Topic, AgentAnswers, LastAgentAnswers
  <2>4. /\ \A b \in Agent : response'[b] \in {response[b], input[b]}
        /\ UNCHANGED <<input, aggregate, result>>
    BY <2>1 DEF AgentAnswers, LastAgentAnswers, round
  <2> QED
    BY <1>1, <2>3, <2>4 DEF Current, OnlyOf
<1>8. CASE Aggregator
  <2>1. OnlyOf(turn) /\ Topic = turn /\ Topic' = turn
    BY <1>8 DEF Aggregator, Aggregate, AggregateNothing, Runs, Current, Replying, Topic
  <2>2. Parts \subseteq {turn}
    BY <2>1 DEF Parts, OnlyOf
  <2>3. aggregate' \in {aggregate, Parts} /\ UNCHANGED <<input, response, result>>
    BY <1>8 DEF Aggregator, Aggregate, AggregateNothing, round
  <2> QED
    BY <1>1, <2>1, <2>2, <2>3 DEF Current, OnlyOf
<1>9. CASE Audit
  <2>1. OnlyOf(turn) /\ Topic = turn /\ Topic' = turn
    BY <1>9 DEF Audit, AuditPasses, AuditRetries, AuditFails, Runs, Current, Replying, Topic
  <2>2. OnlyOf(turn)'
    BY <1>1, <1>9, <2>1 DEF Audit, AuditPasses, AuditRetries, AuditFails, OnlyOf, NoResponse
  <2> QED
    BY <1>1, <2>1, <2>2 DEF Current
<1> QED
  BY <1>1, <1>2, <1>3, <1>4, <1>5, <1>6, <1>7, <1>8, <1>9 DEF NodeStep
(* What the turns so far have come to.                                     *)
Fit == {"new", "reply"}

Story ==
    /\ turn = 0 => status = "idle" /\ next = {} /\ phase = "idle"
    /\ phase = "running" => turn # 0 /\ resume \in {0, turn}
    /\ phase = "running" /\ entry[turn] \in Fit => Current
    /\ phase = "idle" /\ turn # 0 /\ outcome[turn].kind = "interrupt" =>
         next = {"tools"} /\ call.tool = "ask"
    /\ \A t \in Turn : t > turn => outcome[t].kind = "none"
    /\ AnswerIsForThisTurn

(* A message finds a finished or an empty round, or a question.            *)
LEMMA StoryBegins ==
  ASSUME CollisionInv, RoundBegins, Story, StartTurn
  PROVE  Story'
<1>1. /\ turn + 1 \in Turn /\ turn' = turn + 1 /\ turn \in 0..MaxTurns /\ phase = "idle"
      /\ UNCHANGED <<status, round, call, outcome>>
  BY GraphAssumption DEF StartTurn, CollisionInv, TypeInv, TypeOK, RunOK, Turn
<1>2. resume' \in {0, turn'} /\ turn' # 0 /\ phase' = "running"
  BY <1>1 DEF StartTurn
<1>3. \A t \in Turn : t > turn' => outcome'[t].kind = "none"
  BY <1>1 DEF Story, Turn
<1>4. entry'[turn + 1] = (IF turn = 0 THEN "new" ELSE Entry) /\ \A t \in Turn : t # turn + 1 => entry'[t] = entry[t]
  BY <1>1 DEF StartTurn, CollisionInv, TypeInv, TypeOK, RunOK
<1>5. AnswerIsForThisTurn'
  <2>1. outcome[turn + 1].kind = "none"
    BY <1>1 DEF Story, Turn
  <2> QED
    BY <1>1, <1>4, <2>1 DEF Story, AnswerIsForThisTurn, Answered
<1>6. status \in Terminal \/ status = "routing" \/ status = "retrying" \/ next \notin {{}, {"tools"}}
  BY DEF CollisionInv, TypeInv, TypeOK, RoundOK, StatusFits, Status, Terminal
<1>7. status = "routing" => OnlyOf(turn)'
  BY <1>1 DEF RoundBegins, RoundIsEmpty, NoResponse, OnlyOf, round, Terminal
<1>8. ASSUME entry'[turn + 1] \in Fit PROVE Current'
  <2>1. CASE next = {}
    <3>1. next' = {"supervisor"} /\ heard' = Append(heard, turn + 1) /\ heard \in Seq(Turn)
      BY <2>1 DEF StartTurn, CollisionInv, TypeInv, TypeOK, PositionOK
    <3>2. Topic' = turn'
      BY <1>1, <3>1, AppendProperties DEF Topic
    <3>3. status # "retrying"
      <4>1. SUFFICES ASSUME status = "retrying" PROVE FALSE
        OBVIOUS
      <4>2. feedback # NoFeedback
        BY <4>1 DEF RoundBegins
      <4>3. turn # 0
        BY <4>1 DEF Story
      <4> QED
        BY <1>4, <1>8, <2>1, <4>1, <4>2, <4>3 DEF Entry, Terminal, Fit
    <3> QED
      BY <1>1, <1>6, <1>7, <2>1, <3>1, <3>2, <3>3 DEF Current
  <2>2. CASE next # {}
    <3>1. resume' = turn' /\ next' = next /\ call' = call
      BY <1>1, <2>2 DEF StartTurn
    <3>2. turn # 0 /\ outcome[turn].kind = "interrupt" /\ status = "routing"
      BY <1>4, <1>8, <2>2 DEF Story, Entry, Fit
    <3>3. Replying'
      BY <1>1, <3>1, <3>2 DEF Story, Replying
    <3> QED
      BY <1>1, <1>7, <3>2, <3>3 DEF Current
  <2> QED
    BY <2>1, <2>2
<1> QED
  BY <1>1, <1>2, <1>3, <1>5, <1>8 DEF Story
(* The run ends: an answer is shown in the last two cases of Current only, *)
(* and a supervisor that failed shows none.                                *)
LEMMA StoryEnds ==
  ASSUME CollisionInv, Story,
         CollidedTurn \/ BreakOff \/ Finish \/ Ask \/ InvokeTwice \/ SuperviseAndAudit
  PROVE  Story'
<1>1. turn' \in Turn /\ turn' >= turn /\ turn \in 0..MaxTurns
  BY GraphAssumption DEF CollidedTurn, BreakOff, Finish, Ask, InvokeTwice, SuperviseAndAudit, Collide,
     Runs, Running, Story, CollisionInv, TypeInv, TypeOK, RunOK, Turn
<1>2. PICK o : outcome' = [outcome EXCEPT ![turn'] = o] /\ (o.kind = "complete" => Finish /\ o = Shown)
               /\ (o.kind = "interrupt" => Ask \/ (Finish /\ o = Shown))
  BY DEF CollidedTurn, BreakOff, Finish, Ask, InvokeTwice, SuperviseAndAudit, Collide, EndTurn, Outcome
<1>3. outcome'[turn'] = o /\ \A t \in Turn : t # turn' => outcome'[t] = outcome[t]
  BY <1>1, <1>2 DEF CollisionInv, TypeInv, TypeOK, RunOK
<1>4. phase' # "running" /\ entry' = entry /\ UNCHANGED <<next, call>>
  BY DEF CollidedTurn, BreakOff, Finish, Ask, InvokeTwice, SuperviseAndAudit, Collide, EndTurn, position
<1>5. \A t \in Turn : t > turn' => outcome'[t].kind = "none"
  BY <1>1, <1>3 DEF Story, Turn
<1>6. o.kind = "interrupt" => next = {"tools"} /\ call.tool = "ask"
  BY <1>2 DEF Shown, Outcome, Ask, Runs
<1>7. ASSUME o.kind = "complete", entry[turn] \in Fit PROVE turn' = turn /\ o.sources = {turn}
  <2>1. Finish /\ o = Shown /\ turn' = turn /\ Current /\ next = {}
    BY <1>2, <1>7 DEF Finish, Running, Story
  <2>2. status # "failed" /\ result # {} /\ o.sources = result
    BY <1>7, <2>1 DEF Shown, Outcome
  <2>3. result \subseteq {turn}
    BY <2>1, <2>2 DEF Current, OnlyOf
  <2> QED
    BY <2>1, <2>2, <2>3
<1>8. AnswerIsForThisTurn'
  <2> SUFFICES ASSUME NEW t \in Turn, outcome'[t].kind = "complete", entry[t] \in Fit
               PROVE  outcome'[t].sources = {t}
    BY <1>4 DEF AnswerIsForThisTurn, Answered, Fit
  <2>1. CASE t = turn'
    <3>1. o.kind = "complete" /\ turn' = turn
      BY <1>2, <1>3, <2>1 DEF Finish
    <3> QED
      BY <1>3, <1>7, <2>1, <3>1
  <2>2. CASE t # turn'
    BY <1>3, <2>2 DEF Story, AnswerIsForThisTurn, Answered, Fit
  <2> QED
    BY <2>1, <2>2
<1>9. turn' # 0
  BY <1>1 DEF Turn
<1> QED
  BY <1>3, <1>4, <1>5, <1>6, <1>8, <1>9 DEF Story

(* A turn that began a round, or answered what the supervisor asked while  *)
(* routing, is answered from what was said about its own message alone:    *)
(* for every number of agents, turns, retries and broken-off runs.         *)
THEOREM AnswersAreForTheirTurn == Spec => []AnswerIsForThisTurn
<1> DEFINE Inv == CollisionInv /\ TasksAreUnderWay /\ RoundBegins /\ Story
<1>1. Init => Inv
  <2> SUFFICES ASSUME Init PROVE Inv
    OBVIOUS
  <2>1. TasksAreUnderWay /\ RoundBegins
    BY DEF Init, TasksAreUnderWay, RoundBegins, Terminal
  <2>2. \A t \in Turn : outcome[t].kind = "none"
    BY DEF Init, Outcome
  <2>3. Story
    BY <2>2 DEF Init, Story, AnswerIsForThisTurn, Answered
  <2> QED
    BY <2>1, <2>3, CollisionInit
<1>2. Inv /\ [Next]_vars => Inv'
  <2> SUFFICES ASSUME Inv, [Next]_vars PROVE Inv'
    OBVIOUS
  <2>1. CollisionInv' /\ TasksAreUnderWay' /\ RoundBegins'
    BY CollisionStep, TasksStep, RoundBeginsStep DEF CollisionInv
  <2>2. Story'
    <3>1. CASE StartTurn
      BY <3>1, StoryBegins
    <3>2. CASE CollidedTurn \/ BreakOff \/ Finish \/ Ask \/ InvokeTwice \/ SuperviseAndAudit
      BY <3>2, StoryEnds
    <3>3. CASE NodeStep
      <4>1. phase = "running"
        BY <3>3 DEF NodeStep, Supervisor, Supervise, SuperviseRaises, Look, TakeReply, Invoke, Dispatch,
           Agents, AgentAnswers, LastAgentAnswers, Aggregator, Aggregate, AggregateNothing, Audit,
           AuditPasses, AuditRetries, AuditFails, Runs, Running
      <4>2. turn \in Turn /\ resume \in {0, turn}
        BY <4>1, GraphAssumption DEF Story, CollisionInv, TypeInv, TypeOK, RunOK, Turn
      <4>3. UNCHANGED <<turn, phase, entry, outcome>> /\ resume' = 0
        BY <3>3, NodeKeepsRun
      <4>4. entry[turn] \in Fit => Current'
        BY <3>3, <4>1, <4>2, CurrentStep DEF Story, CollisionInv
      <4> QED
        BY <4>1, <4>2, <4>3, <4>4 DEF Story, AnswerIsForThisTurn, Answered, Turn
    <3>4. CASE UNCHANGED vars
      BY <3>4 DEF vars, round, position, run, Story, AnswerIsForThisTurn, Answered, Current, OnlyOf, Topic,
         Replying
    <3> QED
      BY <3>1, <3>2, <3>3, <3>4 DEF Next, Step, Tools, NodeStep
  <2> QED
    BY <2>1, <2>2
<1>3. Inv => AnswerIsForThisTurn
  BY DEF Story
<1> QED
  BY <1>1, <1>2, <1>3, PTL DEF Spec
=============================================================================
