---------------------------- MODULE ParsingEval ----------------------------
(***************************************************************************)
(* The controlled parsing evaluation                                       *)
(* (evals/parsing/run_document_parsing_eval.py): three ways of parsing     *)
(* the same generated tables, the outputs kept in files so that a later    *)
(* run with the same --run-id takes them over, and the scores.             *)
(*                                                                         *)
(* Abstractions.  An output is how many of the values of its table it      *)
(* holds, by their kind, and whether it is the text of a failure; what a   *)
(* parser gives is any of Text.  Latencies and the report's wording are    *)
(* left out.  A run may be broken off before any of its steps.             *)
(***************************************************************************)
EXTENDS Rounding, Sequences, FiniteSets, SequencesExt, ParserRoute

CONSTANTS
    Plans,  \* the runs that share a directory, one after the other: command lines [limit, reparse]
    Text    \* what a parse may give: [headers, labels, numbers, failure]

VARIABLES
    plan,     \* the runs still to come
    job,      \* the command line of the run under way, or None
    results,  \* its results, in the order of the loops
    fresh,    \* a parse whose files are being written
    files,    \* the output and meta file of every sample and parser
    parses,   \* history: the parses that ended, as [key, output, raised]
    torn,     \* history: whose output was replaced by a run that broke off before the meta
    scores    \* metrics.json of the last complete run

parsing == <<plan, job, results, fresh, files, parses, torn, scores>>

-----------------------------------------------------------------------------
(* The samples.                                                            *)

\* make_table: four headers, four row labels and twelve numbers.
MakeTable == [headers |-> 4, labels |-> 4, numbers |-> 12]
Empty == [headers |-> 0, labels |-> 0, numbers |-> 0, failure |-> FALSE]

\* What the route sees of a generated file: a PDF of text without grid lines,
\* a PDF of one picture, a workbook.
DrawNativePdf  == File("pdf", TRUE, 0, 0, <<[chars |-> 190, images |-> 0, drawings |-> 0, blocks |-> 22]>>)
DrawScannedPdf == File("pdf", TRUE, 0, 0, <<[chars |-> 0, images |-> 1, drawings |-> 0, blocks |-> 1]>>)
DrawXlsx       == File("document", TRUE, 0, 0, <<>>)

SampleTypes == <<"native_pdf", "scanned_pdf", "xlsx">>

FileOf(type) == CASE type = "native_pdf" -> DrawNativePdf
                  [] type = "scanned_pdf" -> DrawScannedPdf
                  [] type = "xlsx" -> DrawXlsx

\* A third of the limit, rounded up, of each type in turn, up to the limit.
GenerateSamples(limit) ==
    LET third == (limit + 2) \div 3
        perType == IF third < 1 THEN 1 ELSE third
        size == IF limit < 0 THEN 0 ELSE IF limit < 3 * perType THEN limit ELSE 3 * perType
    IN [i \in 1..size |->
          [index |-> i - 1, type |-> SampleTypes[(i - 1) \div perType + 1], cloud_in_auto |-> FALSE]]

Parsers == <<"local_fast_only", "cloud_accurate_only", "auto_router">>

\* Every parser over every sample, in the order of the loops.
Keys(limit) ==
    LET samples == GenerateSamples(limit)
    IN FlattenSeq([p \in DOMAIN Parsers |->
           [i \in DOMAIN samples |-> [parser |-> Parsers[p], sample |-> samples[i]]]])

-----------------------------------------------------------------------------
(* Parses and their scores.                                                *)

\* What parses a sample: the parser, or "error".
Target(key) ==
    CASE key.parser = "local_fast_only" -> IF FileOf(key.sample.type).kind = "pdf" THEN "pymupdf" ELSE "office"
      [] key.parser = "cloud_accurate_only" -> "llama"
      [] key.parser = "auto_router" -> Route("auto", FileOf(key.sample.type))

\* An exception leaves the output empty.
Outcomes(key) ==
    (IF Target(key) = "error" THEN {} ELSE {[key |-> key, output |-> t, raised |-> FALSE] : t \in Text}) \cup
    {[key |-> key, output |-> Empty, raised |-> TRUE]}

IsEmpty(output) == output = Empty

\* Mutant of DetectParseError: the error recorded beside the output is dropped.
DetectInOutput(parser, output, existing) ==
    output.failure \/ (parser = "cloud_accurate_only" /\ IsEmpty(output))

DetectParseError(parser, output, existing) ==
    existing \/ output.failure \/ (parser = "cloud_accurate_only" /\ IsEmpty(output))

CloudCallCount(key) ==
    IF key.parser = "cloud_accurate_only" \/ (key.parser = "auto_router" /\ key.sample.cloud_in_auto) THEN 1 ELSE 0

\* The score is a weighted sum of recalls, each rounded after it is taken.
ScoreOutput(output) ==
    LET cells == MakeTable.headers + MakeTable.labels + MakeTable.numbers
        found == output.headers + output.labels + output.numbers
        cell  == <<found, cells>>
        part(x, w) == <<w * x[1], 4 * x[2]>>
        header == <<output.headers, MakeTable.headers>>
        number == <<output.numbers, MakeTable.numbers>>
        whole == Plus(part(cell, 2), Plus(part(header, 1), part(number, 1)))
    IN [cell_recall |-> Rate(cell[1], cell[2]), header_recall |-> Rate(header[1], header[2]),
        numeric_value_recall |-> Rate(number[1], number[2]), table_retention_score |-> Rate(whole[1], whole[2])]

Result(key, output, error) ==
    [key |-> key, output |-> output, error |-> error,
     cloud_call_count |-> CloudCallCount(key), metrics |-> ScoreOutput(output)]

Aggregate(rs) ==
    LET of(b) == SelectSeq(rs, LAMBDA r : r.key.parser = b)
        sum(s, F(_)) == FoldLeft(LAMBDA n, r : n + F(r), 0, s)
        mean(s, m) == RoundQuotient(sum(s, LAMBDA r : r.metrics[m]), Len(s))
        types(s) == {r.key.sample.type : r \in ToSet(s)}
        typed(s, t) == SelectSeq(s, LAMBDA r : r.key.sample.type = t)
        Metric == {"cell_recall", "header_recall", "numeric_value_recall", "table_retention_score"}
        parser == {r.key.parser : r \in ToSet(rs)}
        entry == [b \in parser |->
                    [sample_count |-> Len(of(b)),
                     error_count |-> Len(SelectSeq(of(b), LAMBDA r : r.error)),
                     cloud_call_count |-> sum(of(b), LAMBDA r : r.cloud_call_count),
                     means |-> [m \in Metric |-> mean(of(b), m)],
                     by_sample_type |-> [t \in types(of(b)) |->
                         [sample_count |-> Len(typed(of(b), t)),
                          means |-> [m \in {"cell_recall", "table_retention_score"} |-> mean(typed(of(b), t), m)]]]]]
        retention(b) == IF b \in parser THEN entry[b].means["table_retention_score"] ELSE None
        cost(b) == IF b \in parser THEN entry[b].cloud_call_count ELSE None
        reduction == RelativeLift(cost("auto_router"), cost("cloud_accurate_only"))
    IN [parsers |-> entry,
        retention_lift |-> RelativeLift(retention("auto_router"), retention("local_fast_only")),
        cost_reduction |-> IF reduction = None THEN None ELSE -reduction]

-----------------------------------------------------------------------------
(* The runs.                                                               *)

Absent == [output |-> None, meta |-> None]
AllKeys == UNION {ToSet(Keys(j.limit)) : j \in UNION {ToSet(p) : p \in Plans}}

ParsingInit ==
    /\ plan \in Plans
    /\ job = None
    /\ results = <<>>
    /\ fresh = None
    /\ files = [k \in AllKeys |-> Absent]
    /\ parses = {}
    /\ torn = {}
    /\ scores = None

Busy == job # None
Key == Keys(job.limit)[Len(results) + 1]
AtSample == Busy /\ Len(results) < Len(Keys(job.limit))

StartParsing ==
    /\ ~Busy /\ plan # <<>>
    /\ job' = Head(plan)
    /\ plan' = Tail(plan)
    /\ UNCHANGED <<results, fresh, files, parses, torn, scores>>

Cached(key) == files[key].output # None /\ files[key].meta # None /\ ~job.reparse

TakeCached ==
    /\ AtSample /\ fresh = None /\ Cached(Key)
    /\ LET kept  == files[Key]
           error == DetectParseError(Key.parser, kept.output, kept.meta.error)
       IN results' = Append(results, Result(Key, kept.output, error))
    /\ UNCHANGED <<plan, job, fresh, files, parses, torn, scores>>

Parse ==
    /\ AtSample /\ fresh = None /\ ~Cached(Key)
    /\ \E p \in Outcomes(Key) :
         /\ parses' = parses \cup {p}
         /\ fresh' = [output |-> p.output, written |-> FALSE,
                      error |-> DetectParseError(Key.parser, p.output, p.raised)]
    /\ UNCHANGED <<plan, job, results, files, torn, scores>>

WriteOutput ==
    /\ fresh # None /\ ~fresh.written
    /\ files' = [files EXCEPT ![Key].output = fresh.output]
    /\ fresh' = [fresh EXCEPT !.written = TRUE]
    /\ UNCHANGED <<plan, job, results, parses, torn, scores>>

WriteMeta ==
    /\ fresh # None /\ fresh.written
    /\ files' = [files EXCEPT ![Key].meta = [error |-> fresh.error]]
    /\ torn' = torn \ {Key}
    /\ results' = Append(results, Result(Key, fresh.output, fresh.error))
    /\ fresh' = None
    /\ UNCHANGED <<plan, job, parses, scores>>

WriteScores ==
    /\ Busy /\ Len(results) = Len(Keys(job.limit))
    /\ scores' = [results |-> results, metrics |-> Aggregate(results)]
    /\ job' = None
    /\ results' = <<>>
    /\ UNCHANGED <<plan, fresh, files, parses, torn>>

\* The process is stopped.
BreakOff ==
    /\ Busy
    /\ torn' = IF fresh # None /\ fresh.written /\ files[Key].meta # None THEN torn \cup {Key} ELSE torn
    /\ job' = None
    /\ fresh' = None
    /\ results' = <<>>
    /\ UNCHANGED <<plan, files, parses, scores>>

ParsingNext ==
    \/ StartParsing \/ TakeCached \/ Parse \/ WriteOutput \/ WriteMeta \/ WriteScores \/ BreakOff

-----------------------------------------------------------------------------
(* Properties.                                                             *)

\* The scores of a run are of one parse for every sample and parser, made by
\* this run or an earlier one, and a result counts as an error exactly when
\* that parse raised, gave the text of a failure or, in the cloud, nothing;
\* only where a --reparse was broken off between its two files is the old
\* error taken for the new output.  The calls to the cloud that the cost
\* reduction counts for the router are those its route would make.
ScoresAreOfParses ==
    [][scores' # scores =>
         LET rs == scores'.results
             failed(p) == p.raised \/ p.output.failure \/ (p.key.parser = "cloud_accurate_only" /\ IsEmpty(p.output))
             of(b) == {i \in DOMAIN rs : rs[i].key.parser = b}
         IN /\ IsInjective([i \in DOMAIN rs |-> rs[i].key])
            /\ \A i \in DOMAIN rs : \E p \in parses :
                 /\ p.key = rs[i].key /\ p.output = rs[i].output
                 /\ rs[i].key \notin torn => rs[i].error = failed(p)
            /\ \A b \in ToSet(Parsers) :
                 rs # <<>> =>
                   /\ Cardinality(of(b)) * Len(Parsers) = Len(rs)
                   /\ scores'.metrics.parsers[b].cloud_call_count =
                        Cardinality({i \in of(b) : Target(rs[i].key) = "llama"})]_parsing
=============================================================================
