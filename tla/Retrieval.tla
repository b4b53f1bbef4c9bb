----------------------------- MODULE Retrieval -----------------------------
(***************************************************************************)
(* Searches of the knowledge base (main.py api_search, rag/rag_service.py) *)
(* and the evidence they leave in Redis (core/search.py): the backends are *)
(* asked at once, their lists fused and reranked by one thread, the context *)
(* is cut, taken apart into pieces of evidence, and these are cached for   *)
(* their reader.                                                           *)
(*                                                                         *)
(* Abstractions.  A user is a tenant's.  What is similar to a query is the *)
(* backend's and the reranker's choice.  The pipeline appears as documents *)
(* that enter and leave an index.  A section of the context is a record;   *)
(* its evidence id, a hash of file name and content, is these two.         *)
(***************************************************************************)
EXTENDS RankFusion, Sequences

CONSTANTS
    User, Tenant, Groups,   \* users, the tenant of each, the groups in each token
    Document, Owner,        \* documents are numbers; who uploaded each
    Chunk,                  \* pairs <<document, index>>
    File, Text,             \* the file name of a document, the text of a chunk
    Facts,                  \* the chunks that relations were extracted from
    Search, Reader,         \* requests, and the user who sends each
    Modes,                  \* modes that are asked for
    CandidateTopK,          \* settings.retrieval.candidate_top_k
    FusionLimit,            \* settings.retrieval.fusion_candidate_limit
    TopN,                   \* settings.reranker.top_n
    MaxChanges,             \* bound: changes of the indexes
    None

\* No token names a group like the text of a stored list.
ASSUME RetrievalAssumption ==
    /\ Reader \in [Search -> User] /\ None \notin Search
    /\ Chunk \subseteq Document \X Nat /\ Document \subseteq Nat /\ IsFiniteSet(Chunk)
    /\ Length \in [Chunk -> Nat] /\ Modes \subseteq {"milvus", "graph", "mg"}
    /\ CandidateTopK \in Nat /\ FusionLimit \in Nat /\ TopN \in Nat
    /\ \A u \in User : "['private']" \notin Groups[u]

VARIABLES
    held,       \* the chunks in each backend
    search,     \* the searches
    queue,      \* searches whose lists wait for the reranker's thread
    thread,     \* the search whose list the thread works on
    cache,      \* the evidence in Redis, by key
    audit,      \* events search.completed and search.failed, <<search, outcome>>
    changes     \* bookkeeping for MaxChanges

vars == <<held, search, queue, thread, cache, audit, changes>>

Asked(mode) == CASE mode = "milvus" -> {"milvus"}
                 [] mode = "graph" -> {"neo4j"}
                 [] mode = "mg" -> Backend

\* insert_service stores str(acl) of the list ["private"]: normalize_acl makes
\* one token of it, quotes and brackets included.
StoredAcl(d) == {"['private']"}

\* Mutant of Authorized: the tenant alone decides.
AuthorizedTenant(d, u) == Tenant[Owner[d]] = Tenant[u]

\* is_metadata_authorized, and the two branches of the backends' filter.
Authorized(d, u) ==
    /\ Tenant[Owner[d]] = Tenant[u]
    /\ \/ Owner[d] = u
       \/ (StoredAcl(d) \ {"private"}) \cap (Groups[u] \ {"private"}) # {}

AuthorizedChunks(b, u) == {c \in held[b] : Authorized(c[1], u)}

\* Lists of different chunks of a set, as many as there are but at most n.
Lists(S, n) ==
    LET k == IF Cardinality(S) < n THEN Cardinality(S) ELSE n
    IN {l \in [1..k -> S] : \A i, j \in 1..k : l[i] = l[j] => i = j}

Init ==
    /\ held \in [Backend -> {Chunk, {}}]
    /\ search = [s \in Search |-> [pc |-> "unsent"]]
    /\ queue = <<>> /\ thread = None
    /\ cache = [k \in {} |-> None]
    /\ audit = {} /\ changes = 0

-----------------------------------------------------------------------------
\* A search begins: it has passed the rate limit.
Begin(s) ==
    /\ search[s].pc = "unsent"
    /\ \E mode \in Modes :
         search' = [search EXCEPT ![s] =
             [pc |-> "retrieving", mode |-> mode, asked |-> Asked(mode),
              found |-> [b \in {} |-> <<>>], ranked |-> <<>>, answer |-> <<>>,
              cause |-> "none"]]
    /\ UNCHANGED <<held, queue, thread, cache, audit, changes>>

\* retrieve_candidates of one backend returns.  After the last one the lists are
\* fused and handed to the executor; without candidates nothing is reranked.
BackendAnswers(s, b) ==
    /\ search[s].pc = "retrieving" /\ b \in search[s].asked \ DOMAIN search[s].found
    /\ \E list \in Lists(AuthorizedChunks(b, Reader[s]), CandidateTopK) :
         LET old == search[s].found
             found == [a \in DOMAIN old \cup {b} |-> IF a = b THEN list ELSE old[a]]
             fused == Fuse(found, FusionLimit)
         IN IF DOMAIN found # search[s].asked
            THEN /\ search' = [search EXCEPT ![s].found = found]
                 /\ UNCHANGED queue
            ELSE /\ search' = [search EXCEPT ![s].found = found, ![s].ranked = fused,
                      ![s].pc = IF fused = <<>> THEN "caching" ELSE "reranking"]
                 /\ queue' = IF fused = <<>> THEN queue ELSE Append(queue, s)
    /\ UNCHANGED <<held, thread, cache, audit, changes>>

\* What the route makes of an exception: it catches ConnectionError and
\* TimeoutError, and RetrievalTimeoutError is a RuntimeError.
Caught(cause) == cause \in {"connection"}

Raises(s, cause) ==
    search' = [search EXCEPT ![s].cause = cause,
                             ![s].pc = IF Caught(cause) THEN "failing" ELSE "raised"]

\* The first exception of a backend ends the gather.
BackendFails(s) ==
    /\ search[s].pc = "retrieving" /\ DOMAIN search[s].found # search[s].asked
    /\ \E cause \in {"connection", "timeout", "other"} : Raises(s, cause)
    /\ UNCHANGED <<held, queue, thread, cache, audit, changes>>

\* The executor's one thread takes the next list.
RerankStarts ==
    /\ thread = None /\ queue # <<>>
    /\ thread' = Head(queue) /\ queue' = Tail(queue)
    /\ UNCHANGED <<held, search, cache, audit, changes>>

\* Mutant of Sections: the list as it came from the reranker.
SectionsUncut(s, ranked) == ranked

\* The chunks in the context, after filter_authorized_nodes, in its order: the
\* graph's context lists the facts before the mere texts.
Sections(s, ranked) ==
    LET nodes == Only(ranked, {c \in Elements(ranked) : Authorized(c[1], Reader[s])})
        chosen == AtPositions(nodes, Selected(nodes))
    IN IF search[s].mode = "graph"
       THEN Only(chosen, Facts) \o Only(chosen, Elements(chosen) \ Facts)
       ELSE chosen

\* parse_retrieval_context: a piece runs to the next header, so the graph's last
\* fact takes the title of the texts in.  A fused node is that of the first
\* backend that found it, only Neo4j's holds the facts, and only the graph's
\* context strips the names in them of their scope.
Pieces(s, ranked) ==
    LET list == Sections(s, ranked)
        Shape(i) ==
            IF list[i] \notin Facts \/ "milvus" \in FoundBy(search[s].found, list[i])
            THEN "text"
            ELSE IF search[s].mode = "mg" THEN "facts"
            ELSE IF i < Len(list) /\ list[i + 1] \notin Facts THEN "plainFactsAndTitle"
            ELSE "plainFacts"
    IN [i \in DOMAIN list |->
          [id |-> <<File[list[i][1]], Text[list[i]], Shape(i)>>,
           chunk |-> list[i],
           backends |-> IF search[s].mode = "mg"
                        THEN FoundBy(search[s].found, list[i]) ELSE {}]]

\* The model returns the best of the list, or raises.  Nobody may be waiting
\* for it any more; else the context is made and taken apart at once.
RerankReturns ==
    /\ thread # None /\ thread' = None
    /\ LET s == thread
       IN \/ /\ search[s].pc = "reranking"
             /\ \/ \E list \in Lists(Elements(search[s].ranked), TopN) :
                     search' = [search EXCEPT ![s].ranked = list,
                                   ![s].answer = Pieces(s, list), ![s].pc = "caching"]
                \/ Raises(s, "other")
          \/ search[s].pc # "reranking" /\ UNCHANGED search
    /\ UNCHANGED <<held, queue, cache, audit, changes>>

\* Mutant of RerankTimesOut: the time counts from when the thread takes it.
RerankTimesOutRunning(s) ==
    /\ search[s].pc = "reranking" /\ thread = s
    /\ Raises(s, "timeout")
    /\ UNCHANGED <<held, queue, thread, cache, audit, changes>>

\* wait_for gives up: a list still in the queue is cancelled, a running call of
\* the model goes on in the thread.
RerankTimesOut(s) ==
    /\ search[s].pc = "reranking"
    /\ Raises(s, "timeout")
    /\ queue' = Only(queue, Search \ {s})
    /\ UNCHANGED <<held, thread, cache, audit, changes>>

-----------------------------------------------------------------------------
\* Mutant of Key: the user is left out.
KeyOfTenant(u, id) == <<Tenant[u], id>>

\* _evidence_cache_key.
Key(u, id) == <<Tenant[u], u, id>>

\* What api_get_search_evidence returns: None stands for 404.
Opened(u, id) == IF Key(u, id) \in DOMAIN cache THEN cache[Key(u, id)] ELSE None

\* cache_search_evidence writes every piece in one transaction: the last one of
\* an id stays.
CacheEvidence(s) ==
    /\ search[s].pc = "caching"
    /\ LET pieces == search[s].answer
           At(k) == {i \in DOMAIN pieces : Key(Reader[s], pieces[i].id) = k}
           keys == {Key(Reader[s], pieces[i].id) : i \in DOMAIN pieces}
       IN cache' = [k \in DOMAIN cache \cup keys |->
                       IF k \in keys THEN pieces[Max(At(k))] ELSE cache[k]]
    /\ search' = [search EXCEPT ![s].pc = "auditing"]
    /\ UNCHANGED <<held, queue, thread, audit, changes>>

\* The event search.completed and the answer; then 200.
Complete(s) ==
    /\ search[s].pc = "auditing"
    /\ audit' = audit \cup {<<s, "success">>}
    /\ search' = [search EXCEPT ![s].pc = "answered"]
    /\ UNCHANGED <<held, queue, thread, cache, changes>>

\* The event search.failed, then 503.
Fail(s) ==
    /\ search[s].pc = "failing"
    /\ audit' = audit \cup {<<s, "failure">>}
    /\ search' = [search EXCEPT ![s].pc = "unavailable"]
    /\ UNCHANGED <<held, queue, thread, cache, changes>>

\* Redis or the database refuses: nothing was written, 500.
StoreFails(s) ==
    /\ \/ search[s].pc = "caching" /\ search[s].answer # <<>>
       \/ search[s].pc \in {"auditing", "failing"}
    /\ search' = [search EXCEPT ![s].pc = "raised",
                      ![s].cause = IF @ = "none" THEN "other" ELSE "store"]
    /\ UNCHANGED <<held, queue, thread, cache, audit, changes>>

-----------------------------------------------------------------------------
\* The pipeline: a document enters an index, or leaves it.
ChangeIndex(d, b) ==
    /\ changes < MaxChanges /\ changes' = changes + 1
    /\ LET of == {c \in Chunk : c[1] = d}
       IN held' = [held EXCEPT ![b] = IF of \subseteq @ THEN @ \ of ELSE @ \cup of]
    /\ UNCHANGED <<search, queue, thread, cache, audit>>

\* The time of a cached piece is over.
Expire(k) ==
    /\ cache' = [j \in DOMAIN cache \ {k} |-> cache[j]]
    /\ UNCHANGED <<held, search, queue, thread, audit, changes>>

\* Steps of the route that take place if they can: its wait_for, and what
\* follows a wait.
TimesOut(s) == BackendFails(s) \/ RerankTimesOut(s)
Proceeds(s) == CacheEvidence(s) \/ Complete(s) \/ Fail(s)

Next ==
    \/ \E s \in Search :
         \/ Begin(s) \/ TimesOut(s) \/ Proceeds(s) \/ StoreFails(s)
         \/ \E b \in Backend : BackendAnswers(s, b)
    \/ RerankStarts \/ RerankReturns
    \/ \E d \in Document, b \in Backend : ChangeIndex(d, b)
    \/ \E k \in DOMAIN cache : Expire(k)

Spec == Init /\ [][Next]_vars

\* The waits of the route have a timeout, or are for a store that answers or
\* raises; a backend and the reranker's thread may hang.
FairSpec == Spec /\ \A s \in Search : WF_vars(TimesOut(s)) /\ WF_vars(Proceeds(s))

-----------------------------------------------------------------------------
(* The list that goes to the reranker, cut to FusionLimit: no chunk stands  *)
(* before one that every backend that found it ranks higher, and what both *)
(* backends found stands before what one found (fuse_backend_results).     *)
(* The latter needs CandidateTopK <= RrfK, which the settings' bounds do   *)
(* not imply.                                                              *)
FusionIsFair ==
    \A s \in Search : search[s].pc = "reranking" =>
    LET found == search[s].found
        list == search[s].ranked
        Better(c, d) ==
            \/ FoundBy(found, c) = Backend /\ FoundBy(found, d) # Backend
            \/ /\ FoundBy(found, d) \subseteq FoundBy(found, c)
               /\ \A b \in FoundBy(found, d) : Rank(found[b], c) < Rank(found[b], d)
    IN /\ \A c \in Elements(list), d \in Candidates(found) :
            Better(d, c) => d \in Elements(list) /\ Rank(list, d) < Rank(list, c)
       /\ Elements(list) # Candidates(found) => Cardinality(Elements(list)) = FusionLimit

(* What an answer shows is the reader's, no chunk twice, within the share  *)
(* of a document and the length of a context, and nothing of the reranked  *)
(* list is missing that would have fitted: whatever left or entered the    *)
(* indexes, and however late the reranker was (format_fused_context,       *)
(* format_milvus_context, format_graph_retrieval_results).                 *)
AnswerIsSound ==
    \A s \in Search : search[s].pc \in {"auditing", "answered"} =>
    LET answer == search[s].answer
        shown == {answer[i].chunk : i \in DOMAIN answer}
        Chars(S) == Cardinality(Characters(S))
        Of(d) == Cardinality({c \in shown : c[1] = d})
        Fits(c) == Of(c[1]) < MaxPerDocument /\ Chars(shown \cup {c}) <= MaxChars
    IN /\ Cardinality(shown) = Len(answer)
       /\ \A c \in shown : Owner[c[1]] = Reader[s] /\ Of(c[1]) <= MaxPerDocument
       /\ Chars(shown) <= MaxChars
       /\ \A c \in Elements(search[s].ranked) \ shown : ~Fits(c)

(* A link to a piece of evidence opens, for whoever may be asking, only    *)
(* what a search of that user found in a document of that user, also after *)
(* other users searched texts that hash to the same id                     *)
(* (get_cached_search_evidence).                                           *)
EvidenceIsOwn ==
    LET Found(u) == UNION {Elements(search[s].answer) :
                             s \in {t \in Search : Reader[t] = u /\ search[t].pc # "unsent"}}
    IN \A u, v \in User : \A piece \in Found(v) :
         LET opened == Opened(u, piece.id)
         IN opened # None =>
              opened \in Found(u) /\ Owner[opened.chunk[1]] = u /\ opened.id = piece.id

(* A backend or the reranker that cannot be reached or takes too long is   *)
(* answered with 503 and leaves an event search.failed (api_search), unless *)
(* the event itself could not be written.                                  *)
FailureIsReported ==
    \A s \in Search : search[s].pc \in {"unavailable", "raised"} =>
        (search[s].cause \in {"connection", "timeout"} =>
            search[s].pc = "unavailable" /\ <<s, "failure">> \in audit)

(* Every search ends, also behind a call of the model that never returns.  *)
SearchesEnd ==
    \A s \in Search :
        search[s].pc # "unsent" ~> search[s].pc \in {"answered", "unavailable", "raised"}
=============================================================================
