--------------------------- MODULE MCStandalone ---------------------------
(***************************************************************************)
(* The evaluation programs and the audit list for TLC.  They share no      *)
(* state: one of them runs in a behaviour, so that their state spaces add  *)
(* up, and the others rest in an initial state without work.               *)
(***************************************************************************)
EXTENDS RoutingEval, ParsingEval, PubTablesEval, RankingEval, AuditPages

VARIABLE scene

MCName == {"hr", "legal_agent", "sales"}

MCArgs ==
    LET line(clinc, enterprise, cut, baselines) ==
            [clinc |-> clinc, enterprise |-> enterprise, cut |-> cut, concurrency |-> 2, retries |-> 1,
             baselines |-> baselines]
        llm == <<"single_llm_router", "langgraph_supervisor">>
    IN {line(0, 0, 0, <<>>), line(0, 2, 0, llm), line(3, 1, 3, llm), line(1, 1, 0, llm),
        line(1, 1, 0, <<"keyword_router">>)}

MCPlans ==
    LET line(limit, reparse) == [limit |-> limit, reparse |-> reparse]
    IN {<<>>, <<line(1, FALSE), line(1, TRUE), line(1, FALSE)>>,
        <<line(2, FALSE), line(2, FALSE)>>, <<line(3, FALSE)>>}

MCText ==
    {[headers |-> 4, labels |-> 4, numbers |-> 9, failure |-> FALSE], [Empty EXCEPT !.failure = TRUE]}

MCRows ==
    LET row(n, cells, image) == [name |-> n, cells |-> cells, image |-> image]
        low  == GoldCell(3, 30, FALSE)
    IN <<row(1, <<GoldCell(1, 0, FALSE), GoldCell(0, 0, FALSE)>>, TRUE),
         row(2, <<GoldCell(1, None, TRUE), GoldCell(2, None, FALSE), GoldCell(1, 9, FALSE)>>, TRUE),
         row(3, <<GoldCell(1, 0, TRUE), GoldCell(2, 9, FALSE), low>>, FALSE),
         row(4, <<GoldCell(1, 0, TRUE), GoldCell(2, 16, FALSE), low>>, TRUE)>>

\* The third run finds too few tables.
MCTableRuns ==
    LET line(limit, cells, refresh) == [limit |-> limit, min_cells |-> cells, refresh |-> refresh]
    IN <<line(2, 1, FALSE), line(2, 3, FALSE), line(2, 3, TRUE), line(1, 3, FALSE)>>

MCMatches == {{1}, {1, 2, 3}}

MCDocuments ==
    LET doc(s, c) == [source |-> s, category |-> c]
    IN <<doc("a", "x"), doc("b", "y"), doc("c", "x"), doc("b", "z")>>

MCNeighbours == {<<1, 2>>, <<2, 4>>}

MCQuestions ==
    LET question(type, evidence, mentions) == [type |-> type, evidence |-> evidence, mentions |-> mentions]
    IN <<question("comparison", {1, 2, 7}, <<"c", "b">>), question("null_query", {1}, <<>>),
         question("inference", {3}, <<>>)>>

MCOrders == {<<1, 2, 3, 4>>, <<4, 3, 1, 2>>}
MCMatching == {{1, 3}, {2, 3, 4}}

MCRankingPlans ==
    LET line(program, limit, k, rebuild) ==
            [program |-> program, limit |-> limit, top_k |-> k, candidates |-> 2, train |-> 1, dev |-> 0,
             insertions |-> 2, rebuild_index |-> rebuild, rebuild_graph |-> rebuild]
        retrieval == line("retrieval", 1, 3, FALSE)
    IN {<<>>, <<retrieval, line("retrieval", 1, 3, TRUE), retrieval>>,
        <<line("chunk", 2, 3, FALSE)>>, <<line("lambdamart", 2, 2, FALSE)>>,
        <<line("lambdamart", 1, 2, FALSE)>>}

\* The events of others; reading the list writes successes.
MCEventKinds ==
    {[tenant |-> "t1", outcome |-> "failure"], [tenant |-> "t2", outcome |-> "success"]}

all == <<routing, parsing, tables, ranking, auditing, scene>>

StandaloneInit ==
    /\ scene \in {"routing", "parsing", "tables", "ranking", "audit"}
    /\ RoutingInit /\ (scene = "routing" <=> args.baselines # <<>>)
    /\ ParsingInit /\ (scene = "parsing" <=> plan # <<>>)
    /\ TablesInit
    /\ AuditInit
    /\ RankingInit /\ (scene = "ranking" <=> todo # <<>>)

StandaloneNext ==
    \/ scene = "routing" /\ RoutingNext /\ UNCHANGED <<parsing, tables, ranking, auditing, scene>>
    \/ scene = "parsing" /\ ParsingNext /\ UNCHANGED <<routing, tables, ranking, auditing, scene>>
    \/ scene = "tables" /\ TablesNext /\ UNCHANGED <<routing, parsing, ranking, auditing, scene>>
    \/ scene = "ranking" /\ RankingNext /\ UNCHANGED <<routing, parsing, tables, auditing, scene>>
    \/ scene = "audit" /\ AuditNext /\ UNCHANGED <<routing, parsing, tables, ranking, scene>>

StandaloneSpec == StandaloneInit /\ [][StandaloneNext]_all
=============================================================================
