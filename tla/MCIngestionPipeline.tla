------------------------ MODULE MCIngestionPipeline ------------------------
(* IngestionPipeline with the sets of model values the runs permute.       *)
EXTENDS KnowledgeReport, TLC

Symmetry == Permutations(Job) \cup Permutations(Worker) \cup Permutations(Handler)
=============================================================================
