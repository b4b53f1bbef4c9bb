---------------------------- MODULE RoutingEval ----------------------------
(***************************************************************************)
(* The routing evaluation (evals/routing/run_routing_eval.py): a dataset   *)
(* of cases, the routers asked about each of them, several at a time and   *)
(* with retries, and the scores of each router.                            *)
(*                                                                         *)
(* Abstractions.  A query is the case it belongs to; the cases of a group  *)
(* differ in their wording only, so which of them a shuffle takes does not *)
(* matter: the k-th that is taken is called the k-th.  What a model says   *)
(* is arbitrary: names of agents from Name and the tools it calls.         *)
(* Latencies, the wording of the report and the loading of CLINC150 are    *)
(* left out.                                                               *)
(***************************************************************************)
EXTENDS Rounding, Sequences, FiniteSets, SequencesExt

CONSTANTS
    Args,  \* command lines: [clinc, enterprise, cut, concurrency, retries, baselines]
    Name   \* the names of agents a model may write

VARIABLES
    args,      \* the command line of the run
    cases,     \* the dataset
    running,   \* the number of the baseline that is run
    call,      \* what has become of each case's call to it
    finished,  \* its predictions in the order they arrived
    metrics,   \* the scores of the baselines that ended
    outcome    \* the report, once it is written

routing == <<args, cases, running, call, finished, metrics, outcome>>

-----------------------------------------------------------------------------
(* The dataset.                                                            *)

KnownAgents == {"hr", "finance", "legal", "tech"}
Label == KnownAgents \cup {"clarify"}

Group(source, category, agents, size) ==
    [source |-> source, category |-> category, agents |-> agents, size |-> size]

\* A case of a group; case_ids sort by source and number.
Case(g, number) ==
    [id |-> IF g.source = "CLINC150" THEN number ELSE 10000 + number,
     source |-> g.source, category |-> g.category, agents |-> g.agents,
     clarify |-> g.agents = {}]

\* How many of limit cases each bucket of CLINC150 gives.
ClincGroups(limit) ==
    LET share(n) == IF limit >= 200 THEN n ELSE RoundQuotient(limit * n, 200)
        fixed    == share(55) + share(65) + share(40)
    IN <<Group("CLINC150", "hr", {"hr"}, share(55)),
         Group("CLINC150", "finance", {"finance"}, share(65)),
         Group("CLINC150", "unsupported_in_domain", {}, share(40)),
         Group("CLINC150", "oos", {}, IF limit >= fixed THEN limit - fixed ELSE 0)>>

EnterpriseGroups ==
    LET group(category, agents, size) == Group("enterprise_curated", category, agents, size)
    IN <<group("enterprise_hr", {"hr"}, 20), group("enterprise_finance", {"finance"}, 20),
         group("enterprise_legal", {"legal"}, 20), group("enterprise_tech", {"tech"}, 20),
         group("enterprise_multi_domain", {"hr", "finance"}, 5),
         group("enterprise_multi_domain", {"legal", "finance"}, 5),
         group("enterprise_multi_domain", {"legal", "tech"}, 5),
         group("enterprise_multi_domain", {"hr", "legal"}, 5),
         group("enterprise_clarify", {}, 20)>>

\* The number of cases in the groups before the i-th.
Before(groups, i) == FoldLeft(LAMBDA n, j : n + groups[j].size, 0, [j \in 1..i - 1 |-> j])

AllCases(groups) ==
    FlattenSeq([i \in DOMAIN groups |->
        [k \in 1..groups[i].size |-> Case(groups[i], Before(groups, i) + k - 1)]])

FirstOf(seq, n) == SubSeq(seq, 1, IF n < Len(seq) THEN n ELSE Len(seq))

ClincCases(limit) == IF limit <= 0 THEN <<>> ELSE FirstOf(AllCases(ClincGroups(limit)), limit)

\* What a shuffle and the limit may leave of the enterprise cases.
EnterpriseDraws(limit) ==
    LET groups   == EnterpriseGroups
        taken(d, i) == Cardinality({j \in 1..i : d[j] = d[i]})
    IN IF limit >= Len(AllCases(groups)) THEN {AllCases(groups)}
       ELSE {[i \in 1..limit |-> Case(groups[d[i]], Before(groups, d[i]) + taken(d, i) - 1)] :
                d \in {e \in [1..limit -> DOMAIN groups] :
                          \A i \in 1..limit : taken(e, i) <= groups[e[i]].size}}

\* --max-cases 0 takes them all.
Datasets(a) ==
    {LET all == ClincCases(a.clinc) \o draw IN IF a.cut = 0 THEN all ELSE FirstOf(all, a.cut) :
        draw \in EnterpriseDraws(a.enterprise)}

-----------------------------------------------------------------------------
(* The routers.  An answer is the agents a query goes to; none is a        *)
(* question back to the user.                                              *)

NormalizeAgent(name) ==
    LET aliases == [human_resources |-> "hr", hr_agent |-> "hr", finance_agent |-> "finance",
                    legal_agent |-> "legal", tech_agent |-> "tech", technical |-> "tech",
                    technology |-> "tech"]
        value == IF name \in DOMAIN aliases THEN aliases[name] ELSE name
    IN {value} \cap KnownAgents

Normalized(names) == UNION {NormalizeAgent(n) : n \in names}

\* The agents whose words are in the query: any.
KeywordRouter == SUBSET KnownAgents

\* One name, or none, and the flag that wins over it.
SingleLlmRouter ==
    {IF clarify THEN {} ELSE Normalized(names) :
        names \in {{}} \cup {{n} : n \in Name}, clarify \in BOOLEAN}

ToolCall == {[tool |-> t, names |-> {}] : t \in {"human_in_loop", "get_sub_agent_list"}} \cup
            {[tool |-> "invoke_sub_agent", names |-> n] : n \in SUBSET Name}
Response == BoundedSeq(ToolCall, 2)

\* parse_tool_calls: the first call that decides, as a set of at most one answer.
Decided(response) ==
    LET deciding == {i \in DOMAIN response : response[i].tool # "get_sub_agent_list"}
        first    == CHOOSE i \in deciding : \A j \in deciding : i <= j
    IN IF deciding = {} THEN {}
       ELSE {IF response[first].tool = "human_in_loop" THEN {} ELSE Normalized(response[first].names)}

\* A response decides, or asks for the list and the next one decides, or the
\* query counts as a question.
SupervisorRouter == {{}} \cup UNION {Decided(r) : r \in Response}

Answers(baseline) ==
    CASE baseline = "keyword_router" -> KeywordRouter
      [] baseline = "single_llm_router" -> SingleLlmRouter
      [] baseline = "langgraph_supervisor" -> SupervisorRouter

-----------------------------------------------------------------------------
(* Scores.                                                                 *)

Prediction(c, agents, error) == [id |-> c.id, agents |-> agents, clarify |-> agents = {}, error |-> error]

LabelsForCase(x) == IF x.clarify THEN {"clarify"} ELSE x.agents

\* sample_f1 as a fraction.
SampleF1(expected, predicted) ==
    LET tp == Cardinality(expected \cap predicted)
        wrong == Cardinality((expected \ predicted) \cup (predicted \ expected))
    IN IF expected = {} /\ predicted = {} THEN <<1, 1>>
       ELSE IF expected = {} \/ predicted = {} THEN <<0, 1>>
       ELSE <<2 * tp, 2 * tp + wrong>>

\* Mutant of PredictionOf: the predictions, which are sorted by case id, are
\* taken to be in the order of the cases.
PredictionOfPlace(predictions, i) == predictions[i]

\* by_id: the prediction of the i-th case.
PredictionOf(predictions, i) ==
    CHOOSE p \in ToSet(predictions) : p.id = cases[i].id

LabelF1(tp, fp, fn) == IF tp = 0 THEN <<0, 1>> ELSE <<2 * tp, 2 * tp + fp + fn>>

ComputeMetrics(predictions) ==
    LET at(i)    == PredictionOf(predictions, i)
        count(P(_)) == Cardinality({i \in DOMAIN cases : P(i)})
        exact(i) == LabelsForCase(cases[i]) = LabelsForCase(at(i))
        accuracy(Of(_), v) == Rate(count(LAMBDA i : Of(i) = v /\ exact(i)), count(LAMBDA i : Of(i) = v))
        source(i)   == cases[i].source
        category(i) == cases[i].category
        f1(l) == LabelF1(count(LAMBDA i : l \in LabelsForCase(cases[i]) \cap LabelsForCase(at(i))),
                         count(LAMBDA i : l \in LabelsForCase(at(i)) \ LabelsForCase(cases[i])),
                         count(LAMBDA i : l \in LabelsForCase(cases[i]) \ LabelsForCase(at(i))))
        macro == FoldLeft(LAMBDA sum, l : Plus(sum, f1(l)), <<0, 1>>, SetToSeq(Label))
        several == SelectSeq([i \in DOMAIN cases |-> i], LAMBDA i : Cardinality(cases[i].agents) > 1)
        multi == FoldLeft(LAMBDA sum, i : Plus(sum, SampleF1(cases[i].agents, at(i).agents)), <<0, 1>>, several)
    IN [route_accuracy |-> RateOr(count(exact), Len(cases), 0),
        macro_f1 |-> Rate(macro[1], macro[2] * Cardinality(Label)),
        clarification_accuracy |->
            RateOr(count(LAMBDA i : cases[i].clarify /\ at(i).clarify),
                   count(LAMBDA i : cases[i].clarify), None),
        multi_domain_f1 |-> RateOr(multi[1], multi[2] * Len(several), None),
        error_count |-> count(LAMBDA i : at(i).error),
        source_accuracy |-> [s \in {source(i) : i \in DOMAIN cases} |-> accuracy(source, s)],
        category_accuracy |-> [g \in {category(i) : i \in DOMAIN cases} |-> accuracy(category, g)]]

\* The scores of a baseline; one that did not run has none.
Score(m, baseline, metric) ==
    IF baseline \in DOMAIN m THEN m[baseline][metric] ELSE None

ComputeLifts(m) ==
    [b \in {"keyword_router", "single_llm_router"} |->
        [metric \in {"route_accuracy", "macro_f1", "clarification_accuracy", "multi_domain_f1"} |->
            RelativeLift(Score(m, "langgraph_supervisor", metric), Score(m, b, metric))]]

\* generate_report: whether the accuracy on the enterprise cases is 12% better.
ClaimStatus(m) ==
    LET enterprise(b) == IF b \in DOMAIN m /\ "enterprise_curated" \in DOMAIN m[b].source_accuracy
                         THEN m[b].source_accuracy["enterprise_curated"] ELSE None
        base == enterprise("single_llm_router")
        ours == enterprise("langgraph_supervisor")
    IN None \notin {base, ours} /\ base # 0 /\ 100 * (ours - base) >= 12 * base

-----------------------------------------------------------------------------
(* The run.                                                                *)

Unsent == [pc |-> "waiting", attempts |-> 0, answer |-> {}]
Baseline == args.baselines[running]

RoutingInit ==
    /\ args \in Args
    /\ cases \in Datasets(args)
    /\ running = 1
    /\ call = [i \in DOMAIN cases |-> Unsent]
    /\ finished = <<>>
    /\ metrics = <<>>
    /\ outcome = None

\* The calls that hold the semaphore, a pause before a retry included.
UnderWay == {i \in DOMAIN cases : call[i].pc = "asked"}

Running == running <= Len(args.baselines)

End(i, agents, error) ==
    /\ call' = [call EXCEPT ![i].pc = IF error THEN "failed" ELSE "answered", ![i].answer = agents]
    /\ finished' = Append(finished, Prediction(cases[i], agents, error))

KeywordAnswers(i) ==
    /\ Running /\ Baseline = "keyword_router" /\ call[i].pc = "waiting"
    /\ \E agents \in KeywordRouter : End(i, agents, FALSE)
    /\ UNCHANGED <<args, cases, running, metrics, outcome>>

Ask(i) ==
    /\ Running /\ Baseline # "keyword_router" /\ call[i].pc = "waiting"
    /\ Cardinality(UnderWay) < args.concurrency
    /\ call' = [call EXCEPT ![i].pc = "asked", ![i].attempts = 1]
    /\ UNCHANGED <<args, cases, running, finished, metrics, outcome>>

RouterAnswers(i) ==
    /\ i \in UnderWay
    /\ \E agents \in Answers(Baseline) : End(i, agents, FALSE)
    /\ UNCHANGED <<args, cases, running, metrics, outcome>>

\* run_with_retry: the last failure is recorded as a question, with its error.
RouterFails(i) ==
    /\ i \in UnderWay
    /\ IF call[i].attempts <= args.retries
       THEN call' = [call EXCEPT ![i].attempts = @ + 1] /\ UNCHANGED finished
       ELSE End(i, {}, TRUE)
    /\ UNCHANGED <<args, cases, running, metrics, outcome>>

\* run_baseline returns its predictions in the order of their ids.
ScoreBaseline ==
    /\ Running /\ Len(finished) = Len(cases)
    /\ LET sorted == SortSeq(finished, LAMBDA p, q : p.id < q.id)
       IN metrics' = [b \in DOMAIN metrics \cup {Baseline} |->
                         IF b = Baseline THEN ComputeMetrics(sorted) ELSE metrics[b]]
    /\ running' = running + 1
    /\ call' = [i \in DOMAIN cases |-> Unsent]
    /\ finished' = <<>>
    /\ UNCHANGED <<args, cases, outcome>>

WriteReport ==
    /\ running = Len(args.baselines) + 1
    /\ running' = running + 1
    /\ outcome' = [lifts |-> ComputeLifts(metrics), claim |-> ClaimStatus(metrics)]
    /\ UNCHANGED <<args, cases, call, finished, metrics>>

RoutingNext ==
    \/ \E i \in DOMAIN cases : KeywordAnswers(i) \/ Ask(i) \/ RouterAnswers(i) \/ RouterFails(i)
    \/ ScoreBaseline \/ WriteReport

-----------------------------------------------------------------------------
(* Properties.                                                             *)

\* What a router is credited with is what its own calls came to, in whatever
\* order they ended: a case is right if the answer to it is the expected one,
\* where a call that failed with every retry counts as a question and as one
\* error; and the scores by source are shares of the same count.
ScoresAreOfCalls ==
    [][\A b \in DOMAIN metrics' \ DOMAIN metrics :
         LET m == metrics'[b]
             right(C) == Cardinality({i \in C : call[i].answer = cases[i].agents})
             spent == {i \in DOMAIN cases : call[i].attempts > args.retries}
         IN /\ m.route_accuracy = RateOr(right(DOMAIN cases), Len(cases), 0)
            /\ \A s \in DOMAIN m.source_accuracy :
                 LET of == {i \in DOMAIN cases : cases[i].source = s}
                 IN m.source_accuracy[s] = Rate(right(of), Cardinality(of))
            /\ m.error_count = Cardinality({i \in DOMAIN cases : call[i].pc = "failed"})
            /\ \A i \in DOMAIN cases : call[i].pc = "failed" => i \in spent /\ call[i].answer = {}]_routing
=============================================================================
