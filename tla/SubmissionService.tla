-------------------------- MODULE SubmissionService --------------------------
(***************************************************************************)
(* What IronJudge promises about a submission, without queue, engines or   *)
(* tasks.  A submission is accepted, started and judged, each at most      *)
(* once; its status shows how far it has come and never runs ahead of it   *)
(* or falls back, except that it may expire; and the result a client reads *)
(* is the one answer of its judgement.                                     *)
(***************************************************************************)
CONSTANTS Submissions, Answers

VARIABLES
  phase,   \* how far the submission has come
  answer,  \* the answer of its judgement, "none" before
  status   \* what a client that polls is shown

vars == <<phase, answer, status>>

Init ==
  /\ phase  = [s \in Submissions |-> "new"]
  /\ answer = [s \in Submissions |-> "none"]
  /\ status = [s \in Submissions |-> "none"]

Accept(s) ==
  /\ phase[s] = "new"
  /\ phase'  = [phase EXCEPT ![s] = "queued"]
  /\ status' = [status EXCEPT ![s] = "pending"]
  /\ UNCHANGED answer

Start(s) ==
  /\ phase[s] = "queued"
  /\ phase' = [phase EXCEPT ![s] = "started"]
  /\ UNCHANGED <<answer, status>>

\* The status of a started submission may never get to say "processing".
ShowProgress(s) ==
  /\ phase[s] = "started"
  /\ status' = [status EXCEPT ![s] = "processing"]
  /\ UNCHANGED <<phase, answer>>

Judge(s, a) ==
  /\ phase[s] = "started"
  /\ phase'  = [phase EXCEPT ![s] = "judged"]
  /\ answer' = [answer EXCEPT ![s] = a]
  /\ UNCHANGED status

ShowAnswer(s) ==
  /\ phase[s] = "judged"
  /\ status' = [status EXCEPT ![s] = answer[s]]
  /\ UNCHANGED <<phase, answer>>

\* Statuses disappear, one at a time or all together.
Forget(S) ==
  /\ status' = [s \in Submissions |-> IF s \in S THEN "none" ELSE status[s]]
  /\ UNCHANGED <<phase, answer>>

Next ==
  \/ \E s \in Submissions :
       \/ Accept(s) \/ Start(s) \/ ShowProgress(s) \/ ShowAnswer(s)
       \/ \E a \in Answers : Judge(s, a)
  \/ \E S \in SUBSET Submissions : Forget(S)

Spec == Init /\ [][Next]_vars
=============================================================================
