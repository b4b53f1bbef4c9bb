-------------------------- MODULE KnowledgeReport --------------------------
(***************************************************************************)
(* The index report of api/knowledge_runtime.py over the rows and indexes  *)
(* the pipeline leaves: for every document of a tenant, is what Milvus and *)
(* Neo4j hold of it what its row says, and is there anything in them that  *)
(* no row speaks of?                                                       *)
(*                                                                         *)
(* Abstractions.  The report is of one moment: the rows are read before    *)
(* the two probes, and what changes in between may be reported either way. *)
(* A probe counts chunks only if it scanned the whole index of the tenant, *)
(* so scanned is the set of backends that answered in time, with no more   *)
(* rows than INDEX_SCAN_LIMIT.  The list is not cut off at                 *)
(* DOCUMENT_CHECK_LIMIT.                                                   *)
(***************************************************************************)
EXTENDS IngestionPipeline

\* document_chunks of a snapshot: how many chunks of each document it saw.
DocumentChunks(b) == [d \in Document |-> Cardinality(chunks[d][b])]

\* The chunks a ready document's row lets one expect in backend b.
ExpectedChunks(d, b) == IF b \in doc[d].backends THEN doc[d].count ELSE 0

Unrecorded(d) == doc[d].count = 0 \/ doc[d].backends = {}

\* Mutant of Miscounted: more chunks than expected pass for a complete index.
MiscountedIfFewer(d, scanned) ==
    \E b \in scanned : DocumentChunks(b)[d] < ExpectedChunks(d, b)

Miscounted(d, scanned) == \E b \in scanned : DocumentChunks(b)[d] # ExpectedChunks(d, b)

\* The state of a document that has a row.
DocumentCheck(d, scanned) ==
    IF doc[d].status # "ready" THEN "pending"
    ELSE IF Unrecorded(d) THEN "mismatch"
    ELSE IF ~(doc[d].backends \subseteq scanned) THEN "unknown"
    ELSE IF Miscounted(d, scanned) THEN "mismatch"
    ELSE "consistent"

\* Documents that only the indexes know.
Orphans(scanned) ==
    {d \in Document : ~Exists(d) /\ \E b \in scanned : DocumentChunks(b)[d] > 0}

\* document_checks: the state of every document the report lists.
Report(scanned) ==
    [d \in {e \in Document : Exists(e)} \cup Orphans(scanned) |->
        IF Exists(d) THEN DocumentCheck(d, scanned) ELSE "mismatch"]

-----------------------------------------------------------------------------
\* What of a document may be found by a search, if all went as it should.
Searchable(d, b) == IF doc[d].status = "ready" /\ b \in doc[d].backends
                    THEN 1..doc[d].count ELSE {}

(* Whatever failed, died or overlapped before: a document the report calls *)
(* consistent is found by a search as its row says, chunk by chunk,        *)
(* although the report compares numbers only; a mismatch is a real one;    *)
(* and what a half failed ingestion, a second parse or a deletion that was *)
(* overtaken left of a ready or removed document is in the report, once    *)
(* both indexes could be scanned (get_knowledge_index_runtime).            *)
ReportIsExact ==
    \A scanned \in SUBSET Backend :
    LET report == Report(scanned)
        Wrong(d) == \E b \in scanned : chunks[d][b] # Searchable(d, b)
    IN /\ \A d \in DOMAIN report :
            /\ report[d] = "consistent" => ~Wrong(d)
            /\ report[d] = "mismatch" => Wrong(d)
       /\ scanned = Backend =>
            \A d \in Document : doc[d].status \in {"ready", "gone"} /\ Wrong(d) =>
                d \in DOMAIN report /\ report[d] = "mismatch"
=============================================================================
