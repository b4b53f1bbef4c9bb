----------------------------- MODULE JobLedger -----------------------------
(***************************************************************************)
(* What the job table promises to whoever reads it (api/jobs.py shows it): *)
(* a job is open from the request on, is tried at most MaxAttempts times,  *)
(* each failed try counted once, and closes once and for all as succeeded, *)
(* failed or removed with its document.  IngestionPipeline implements it.  *)
(***************************************************************************)
EXTENDS Naturals

CONSTANTS Job, Document, MaxAttempts, None

VARIABLES
    owner, \* the document of each requested job
    phase, \* where a reader sees the job
    tries  \* the attempts that ended, as the row counts them

ledger == <<owner, phase, tries>>

Phase == {"unrequested", "open", "succeeded", "failed", "removed"}

Init ==
    /\ owner = [j \in Job |-> None]
    /\ phase = [j \in Job |-> "unrequested"]
    /\ tries = [j \in Job |-> 0]

Request(j, d) ==
    /\ phase[j] = "unrequested"
    /\ owner' = [owner EXCEPT ![j] = d]
    /\ phase' = [phase EXCEPT ![j] = "open"]
    /\ UNCHANGED tries

\* The queue took no message: the job is never tried.
Refuse(j) ==
    /\ phase[j] = "open" /\ tries[j] = 0
    /\ phase' = [phase EXCEPT ![j] = "failed"]
    /\ UNCHANGED <<owner, tries>>

\* A try of job j ends and leaves the job in the given phase.
Try(j, next) ==
    /\ phase[j] = "open"
    /\ tries[j] < MaxAttempts
    /\ tries' = [tries EXCEPT ![j] = @ + 1]
    /\ phase' = [phase EXCEPT ![j] = next]
    /\ UNCHANGED owner

Retry(j) == tries[j] + 1 < MaxAttempts /\ Try(j, "open")
GiveUp(j) == tries[j] + 1 = MaxAttempts /\ Try(j, "failed")
Succeed(j) == Try(j, "succeeded")

\* The document is deleted, and its jobs with it.
Remove(d) ==
    /\ \E j \in Job : owner[j] = d /\ phase[j] = "open"
    /\ phase' = [j \in Job |-> IF owner[j] = d THEN "removed" ELSE phase[j]]
    /\ UNCHANGED <<owner, tries>>

Next ==
    \/ \E j \in Job : \/ \E d \in Document : Request(j, d)
                      \/ Refuse(j) \/ Retry(j) \/ GiveUp(j) \/ Succeed(j)
    \/ \E d \in Document : Remove(d)

Spec == Init /\ [][Next]_ledger
=============================================================================
