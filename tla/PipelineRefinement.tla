-------------------------- MODULE PipelineRefinement --------------------------
(***************************************************************************)
(* Pipeline implements SubmissionService.  How far a submission has come   *)
(* is read off its entry, its task and its response; the client is shown   *)
(* the status hash.                                                        *)
(***************************************************************************)
EXTENDS Pipeline

PhaseOf(s) ==
  CASE eid[s] = 0                      -> "new"
    [] eid[s] > 0 /\ runs[s] = 0       -> "queued"
    [] runs[s] > 0 /\ resp[s] = "none" -> "started"
    [] OTHER                           -> "judged"

Service ==
  INSTANCE SubmissionService
    WITH Answers <- Responses,
         phase   <- [s \in Submissions |-> PhaseOf(s)],
         answer  <- resp,
         status  <- hash

\* As long as no write to Redis goes unanswered, the pipeline keeps the promises
\* of SubmissionService through crashes, panics, lost reads and a Redis that
\* comes back empty.
ImplementsService == Service!Spec
=============================================================================
