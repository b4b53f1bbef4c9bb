----------------------------- MODULE RankFusion -----------------------------
(***************************************************************************)
(* Reciprocal rank fusion of two result lists (rag/retrieval.py), and the  *)
(* context made of a list of chunks (also rag/milvus/ingestion_milvus.py   *)
(* and rag/graph/ingestion_graph.py).                                      *)
(*                                                                         *)
(* A chunk is <<document, index>>: retrieval_identity, since the nodes of  *)
(* both backends carry tenant, document, version and index, and version is *)
(* that of the document.  A result list has no chunk twice.  Scores are    *)
(* exact fractions <<numerator, denominator>>: the sum of two              *)
(* contributions rounds the same in either order.                          *)
(***************************************************************************)
EXTENDS Naturals, FiniteSets, FiniteSetsExt

CONSTANTS
    RrfK,            \* settings.retrieval.rrf_k
    MaxPerDocument,  \* settings.retrieval.max_chunks_per_document
    MaxChars,        \* settings.retrieval.max_context_chars
    Length           \* of a chunk's section in the context, by chunk

ASSUME RrfAssumption ==
    RrfK \in Nat \ {0} /\ MaxPerDocument \in Nat /\ MaxChars \in Nat

Backend == {"milvus", "neo4j"}

Elements(list) == {list[i] : i \in DOMAIN list}
Rank(list, c) == CHOOSE i \in DOMAIN list : list[i] = c

\* The backends that found a chunk.  A list of a backend that was not asked
\* is not in found.
FoundBy(found, c) == {b \in DOMAIN found : c \in Elements(found[b])}

Candidates(found) == UNION {Elements(found[b]) : b \in DOMAIN found}

-----------------------------------------------------------------------------
\* What one list contributes: 1 / (rrf_k + rank).
Denominator(rank) == RrfK + rank
Single(rank) == <<1, Denominator(rank)>>
Double(rank1, rank2) ==
    << Denominator(rank1) + Denominator(rank2), Denominator(rank1) * Denominator(rank2) >>

Exceeds(x, y) == x[1] * y[2] > y[1] * x[2]

\* Mutant of FusionScore: the first contribution is not added to.
FusionScoreOfFirst(found, c) ==
    LET b == CHOOSE b \in FoundBy(found, c) : TRUE
    IN Single(Rank(found[b], c))

\* fusion_score of a candidate.
FusionScore(found, c) ==
    IF FoundBy(found, c) = Backend
    THEN Double(Rank(found["milvus"], c), Rank(found["neo4j"], c))
    ELSE LET b == CHOOSE b \in FoundBy(found, c) : TRUE
         IN Single(Rank(found[b], c))

\* The order of the identities, as strings.
IdentityExceeds(c, d) == c[1] > d[1] \/ (c[1] = d[1] /\ c[2] > d[2])

\* The sort key of fuse_backend_results, in reverse.
Precedes(found, c, d) ==
    LET x == FusionScore(found, c)
        y == FusionScore(found, d)
        m == Cardinality(FoundBy(found, c))
        n == Cardinality(FoundBy(found, d))
    IN \/ Exceeds(x, y)
       \/ ~Exceeds(y, x) /\ (m > n \/ (m = n /\ IdentityExceeds(c, d)))

\* fuse_backend_results: the candidates in that order, the first limit of them.
Fuse(found, limit) ==
    LET all == Candidates(found)
        place == [c \in all |-> 1 + Cardinality({d \in all : Precedes(found, d, c)})]
    IN [i \in {j \in 1..limit : j <= Cardinality(all)} |-> CHOOSE c \in all : place[c] = i]

-----------------------------------------------------------------------------
\* The characters of some chunks' sections.
Characters(chunks) == UNION {{c} \X (1..Length[c]) : c \in chunks}

\* The positions of a list that get into the context: one after the other, a
\* chunk is left out if its document has its share or if it does not fit, but
\* a later, shorter one may still fit.
Selected(list) ==
    LET Chunks(S) == {list[j] : j \in S}
        Fits(S, i) ==
            /\ Cardinality({c \in Chunks(S) : c[1] = list[i][1]}) < MaxPerDocument
            /\ Cardinality(Characters(Chunks(S \cup {i}))) <= MaxChars
    IN CHOOSE S \in SUBSET DOMAIN list :
          \A i \in DOMAIN list : i \in S <=> Fits({j \in S : j < i}, i)

\* The chunks at some positions, in their order.
AtPositions(list, S) ==
    [n \in 1..Cardinality(S) |->
        list[CHOOSE i \in S : Cardinality({j \in S : j <= i}) = n]]

\* What a list has of a set.
Only(list, S) == AtPositions(list, {i \in DOMAIN list : list[i] \in S})
=============================================================================
