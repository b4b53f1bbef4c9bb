---------------------------- MODULE ParserRoute ----------------------------
(***************************************************************************)
(* Which parser a document goes to (rag/documentParser/parser_route.py).   *)
(* A file is what the route looks at: the kind of its extension, whether   *)
(* it can be opened, the pictures and charts of an office file, and the    *)
(* counts of every page of a PDF: a record [chars, images, drawings,       *)
(* blocks].                                                                *)
(***************************************************************************)
EXTENDS Integers, Sequences, Folds

Mode == {"auto", "fast", "accurate"}

File(kind, readable, images, charts, pages) ==
    [kind |-> kind, readable |-> readable, images |-> images, charts |-> charts, pages |-> pages]

ProbeOffice(file) ==
    IF ~file.readable THEN "error"
    ELSE IF file.charts > 0 \/ file.images > 3 THEN "complex" ELSE "simple"

\* The first page is left out of a document of more than three; averages are
\* compared, so an empty document is an error (a division by zero).
ProbePdf(file) ==
    LET n     == Len(file.pages)
        taken == IF n <= 3 THEN 1..n ELSE 2..n
        k     == IF n <= 3 THEN n ELSE n - 1
        total(field) == MapThenFoldSet(+, 0, LAMBDA p : file.pages[p][field], LAMBDA S : CHOOSE p \in S : TRUE, taken)
    IN IF ~file.readable \/ n = 0 THEN "error"
       ELSE IF total("chars") < 150 * k /\ 2 * total("images") >= k THEN "scanned"
       ELSE IF \/ total("drawings") > 5 * k
               \/ total("images") > 2 * k
               \/ total("blocks") > 40 * k THEN "complex"
       ELSE "simple"

Probe(file) == IF file.kind = "pdf" THEN ProbePdf(file)
               ELSE IF file.kind = "document" THEN ProbeOffice(file)
               ELSE "unprobed"

\* route_and_parse: the parser, or "error" for a DocumentParsingError.
Route(mode, file) ==
    LET local == CASE file.kind \in {"slides", "document", "text"} -> "office"
                   [] file.kind = "image" -> "rapidocr"
                   [] file.kind = "pdf" -> IF ProbePdf(file) = "scanned" THEN "rapidocr" ELSE "pymupdf"
        cloud == \/ mode = "accurate" /\ file.kind # "text"
                 \/ mode = "auto" /\ (file.kind = "slides" \/ Probe(file) = "complex")
    IN IF file.kind = "other" \/ (mode # "accurate" /\ Probe(file) = "error") THEN "error"
       ELSE IF cloud THEN "llama" ELSE local
=============================================================================
