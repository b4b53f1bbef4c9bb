------------------------- MODULE MCResumableUpload -------------------------
(* ResumableUpload for TLC: the cfg gives the constants as model values.   *)
(* A history variable tells the behaviours in which a client waits for the *)
(* answer of a completion, or for its loss, from those in which it does    *)
(* not: some promises are kept to the first only.                          *)
EXTENDS ResumableUpload, TLC

VARIABLE overlapped   \* a completion ran beside another request of its upload

\* Requests are interchangeable.
Symmetry == Permutations(Request)

Overlapping ==
    \E r, s \in Request :
        /\ r # s /\ Running(r) /\ Running(s)
        /\ request[r].op = "complete" /\ request[r].upload = request[s].upload

MCInit == Init /\ overlapped = FALSE
MCNext == Next /\ overlapped' = (overlapped \/ Overlapping')
MCSpec == MCInit /\ [][MCNext]_<<vars, overlapped>>

-----------------------------------------------------------------------------
(* A client that waits is told what was created: AnswerTellsOutcome.       *)
WaitingClientIsTold == overlapped \/ AnswerTellsOutcome

(* A client that waits gets one document, however often it completes the   *)
(* session after an answer or a crash: OneDocumentPerSession.              *)
WaitingClientGetsOne == overlapped \/ OneDocumentPerSession

(* Without overlap a session whose chunks were all accepted completes:     *)
(* RefusedForMissingChunk.                                                 *)
RefusedOnlyIfIncomplete == [][overlapped' \/ RefusedForMissingChunk]_vars
=============================================================================
