--------------------------- MODULE PubTablesEval ---------------------------
(***************************************************************************)
(* The parsing evaluation on public tables                                 *)
(* (evals/parsing/run_pubtables_parsing_eval.py): tables are taken from a  *)
(* stream, noted in a manifest that later runs with the same --limit use,  *)
(* and given to three parsers.                                             *)
(*                                                                         *)
(* Abstractions.  A gold cell is its compacted text (0 for a text without  *)
(* letters or digits), the top of its box and whether it holds a digit; a  *)
(* parser finds any of the cells of a table.  The pictures and PDFs made   *)
(* of a row, latencies and the report's wording are left out.              *)
(***************************************************************************)
EXTENDS Rounding, Sequences, FiniteSets, SequencesExt, FiniteSetsExt

CONSTANTS
    Rows,       \* the dataset: a sequence of [name, cells, image]
    TableRuns,  \* the runs, one after the other: [limit, min_cells, refresh]
    Matches     \* the sets of texts a parser may find

VARIABLES
    turn,      \* the number of the run, 0 before the first
    at,        \* "idle", "load" or "score"
    samples,   \* the samples it loaded
    manifest,  \* manifest_test_<limit>.json, by limit
    marks,     \* its scores, in the order of the loops
    summary    \* metrics.json of the last run that ended

tables == <<turn, at, samples, manifest, marks, summary>>

-----------------------------------------------------------------------------
(* Tables.                                                                 *)

GoldCell(key, top, numeric) == [key |-> key, top |-> top, numeric |-> numeric]

\* The first cell of every text that has one.
DedupeCells(cells) ==
    LET first(i) == cells[i].key # 0 /\ \A j \in 1..i - 1 : cells[j].key # cells[i].key
        places == SelectSeq([i \in DOMAIN cells |-> i], first)
    IN [n \in DOMAIN places |-> cells[places[n]]]

\* Mutant of FlattenGoldCells: a text that occurs twice is two cells.
FlattenAllCells(row) == SelectSeq(row.cells, LAMBDA c : c.key # 0)

FlattenGoldCells(row) == DedupeCells(row.cells)

\* The cells within 16 points of the topmost box, or the first four.
SelectHeaderCells(cells) ==
    LET boxed == SelectSeq(cells, LAMBDA c : c.top # None)
        top   == Min({c.top : c \in ToSet(boxed)})
    IN IF boxed = <<>> THEN SubSeq(cells, 1, IF Len(cells) < 4 THEN Len(cells) ELSE 4)
       ELSE SelectSeq(boxed, LAMBDA c : c.top <= top + 16)

\* The rows a run takes: tables of enough cells with a picture, up to the limit.
CollectSamples(limit, min_cells) ==
    LET fits(r) == Len(FlattenGoldCells(r)) >= min_cells /\ r.image
        taken == SelectSeq(Rows, fits)
        \* The limit is looked at after a sample is added.
        size == IF limit < 1 THEN 1 ELSE limit
        upTo == SubSeq(taken, 1, IF Len(taken) < size THEN Len(taken) ELSE size)
    IN [i \in DOMAIN upTo |-> [name |-> upTo[i].name, gold_cells |-> FlattenGoldCells(upTo[i])]]

-----------------------------------------------------------------------------
(* Scores, to four places.                                                 *)

ParserNames == <<"pymupdf_text_only_pdf", "router_auto_pdf", "rapidocr_direct_image">>

\* A table without numbers (or headers) counts its cells in their place.
ScoreTable(parser, sample, matched, ok) ==
    LET cells   == sample.gold_cells
        numeric == SelectSeq(cells, LAMBDA c : c.numeric)
        headers == SelectHeaderCells(cells)
        found(s) == Len(SelectSeq(s, LAMBDA c : c.key \in matched))
        cell    == IF cells = <<>> THEN <<0, 1>> ELSE <<found(cells), Len(cells)>>
        share(s) == IF s = <<>> THEN cell ELSE <<found(s), Len(s)>>
        part(x, w) == <<w * x[1], 20 * x[2]>>
        whole   == Plus(part(cell, 12), Plus(part(share(numeric), 5), part(share(headers), 3)))
    IN [parser |-> parser, sample |-> sample.name, ok |-> ok, matched_cells |-> found(cells),
        cell_recall |-> Rate(cell[1], cell[2]),
        numeric_recall |-> Rate(share(numeric)[1], share(numeric)[2]),
        header_recall |-> Rate(share(headers)[1], share(headers)[2]),
        table_retention_score |-> Rate(whole[1], whole[2])]

AggregateScores(scored) ==
    LET of(b) == SelectSeq(scored, LAMBDA s : s.parser = b)
        mean(b, m) == RoundQuotient(FoldLeft(LAMBDA n, s : n + s[m], 0, of(b)), Len(of(b)))
    IN [b \in {s.parser : s \in ToSet(scored)} |->
          [samples |-> Len(of(b)),
           ok_rate |-> Rate(Len(SelectSeq(of(b), LAMBDA s : s.ok)), Len(of(b))),
           cell_recall |-> mean(b, "cell_recall"), numeric_recall |-> mean(b, "numeric_recall"),
           header_recall |-> mean(b, "header_recall"),
           table_retention_score |-> mean(b, "table_retention_score")]]

ComputeLift(means, baseline, candidate) ==
    LET base == means[baseline].table_retention_score
        ours == means[candidate].table_retention_score
    IN [baseline |-> base, candidate |-> ours, absolute |-> ours - base,
        relative |-> IF base > 0 THEN RelativeLift(ours, base) ELSE None]

-----------------------------------------------------------------------------
(* The runs.                                                               *)

Run == TableRuns[turn]

TablesInit ==
    /\ turn = 0
    /\ at = "idle"
    /\ samples = <<>>
    /\ manifest = [l \in {r.limit : r \in ToSet(TableRuns)} |-> None]
    /\ marks = <<>>
    /\ summary = None

StartTables ==
    /\ at = "idle" /\ turn < Len(TableRuns)
    /\ turn' = turn + 1
    /\ at' = "load"
    /\ UNCHANGED <<samples, manifest, marks, summary>>

\* Too few samples end the run; the manifest stays.
Load(loaded) ==
    IF Len(loaded) < Run.limit
    THEN at' = "idle" /\ UNCHANGED samples
    ELSE at' = "score" /\ samples' = loaded

\* The manifest is taken whatever min_cells it was made with.
LoadManifest ==
    /\ at = "load" /\ manifest[Run.limit] # None /\ ~Run.refresh
    /\ Load(manifest[Run.limit].samples)
    /\ UNCHANGED <<turn, manifest, marks, summary>>

CreateSamples ==
    /\ at = "load" /\ (manifest[Run.limit] = None \/ Run.refresh)
    /\ LET made == CollectSamples(Run.limit, Run.min_cells)
       IN /\ manifest' = [manifest EXCEPT ![Run.limit] = [min_cells |-> Run.min_cells, samples |-> made]]
          /\ Load(made)
    /\ UNCHANGED <<turn, marks, summary>>

\* Every parser in turn over a sample; one that raises or runs out of time
\* has found nothing.
RunParser ==
    /\ at = "score" /\ Len(marks) < Len(samples) * Len(ParserNames)
    /\ LET n      == Len(marks)
           sample == samples[n \div Len(ParserNames) + 1]
           parser == ParserNames[(n % Len(ParserNames)) + 1]
       IN \E ok \in BOOLEAN, matched \in Matches :
            marks' = Append(marks, ScoreTable(parser, sample, IF ok THEN matched ELSE {}, ok))
    /\ UNCHANGED <<turn, at, samples, manifest, summary>>

EndTables == at' = "idle" /\ samples' = <<>> /\ marks' = <<>>

WriteSummary ==
    /\ at = "score" /\ Len(marks) = Len(samples) * Len(ParserNames)
    /\ LET means == AggregateScores(marks)
       IN summary' = [means |-> means, lift |-> ComputeLift(means, "pymupdf_text_only_pdf", "router_auto_pdf")]
    /\ EndTables
    /\ UNCHANGED <<turn, manifest>>

\* The stream of rows fails or the process is stopped.
BreakOffTables == at # "idle" /\ EndTables /\ UNCHANGED <<turn, manifest, summary>>

TablesNext ==
    StartTables \/ LoadManifest \/ CreateSamples \/ RunParser \/ WriteSummary \/ BreakOffTables

-----------------------------------------------------------------------------
(* Properties.                                                             *)

\* A summary is of as many different tables as the run asked for, for every
\* parser; each has at least the number of different texts that the run which
\* wrote the manifest asked for (not always this run: a manifest is found by
\* --limit alone); and a parser that never ended well has retained nothing.
SummaryIsOfFitTables ==
    [][summary' # summary =>
         /\ Len(samples) = Run.limit
         /\ IsInjective([i \in DOMAIN samples |-> samples[i].name])
         /\ \A i \in DOMAIN samples :
              Cardinality({c.key : c \in ToSet(samples[i].gold_cells)}) >= manifest[Run.limit].min_cells
         /\ \A b \in ToSet(ParserNames) :
              /\ summary'.means[b].samples = Run.limit
              /\ summary'.means[b].ok_rate = 0 => summary'.means[b].table_retention_score = 0]_tables
=============================================================================
