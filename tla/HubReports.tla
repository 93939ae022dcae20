----------------------------- MODULE HubReports -----------------------------
(***************************************************************************)
(* GradeCallback and onSubmissionFinished, with the worker that calls      *)
(* them.  callback[g][s] is the handler of the stream on which grader g    *)
(* reports on s: idle, or the report it has checked and not yet written,   *)
(* or how far it is in onSubmissionFinished.                               *)
(***************************************************************************)
EXTENDS HubState

\* What no report handler writes.
notReports == <<queuedList, queuedListIndex, graderVars, outboxVars, streamVars,
                passVars, monitorVars, proc, worker, faults>>

\* The reports a job may send next: Running any number of times, and at the end
\* Finished or, if it was told to stop, Cancelled.
NextReports(job) ==
  CASE job = "active"   -> {"Running", "Finished"}
    [] job = "stopping" -> {"Finished", "Cancelled"}
    [] OTHER            -> {}

\* Only the grader that holds the claim may report ...
CallbackAccepted(g, s) ==
  /\ callback[g][s] = "idle"
  /\ session[g]
  /\ submissionGrader[s] = g
  /\ \E report \in NextReports(jobs[g][s]) :
       /\ callback' = [callback EXCEPT ![g][s] = report]
       /\ jobs' = [jobs EXCEPT ![g][s] = IF report \in Terminal THEN "none" ELSE @]
  /\ UNCHANGED <<schedulerWake, runningList, claimVars, reportVars, notReports>>

\* ... any other stream is refused, and its worker gives the job up.
CallbackDenied(g, s) ==
  /\ callback[g][s] = "idle"
  /\ NextReports(jobs[g][s]) # {}
  /\ ~session[g] \/ submissionGrader[s] # g
  /\ jobs' = [jobs EXCEPT ![g][s] = "none"]
  /\ UNCHANGED <<schedulerWake, runningList, claimVars, reportVars, callback, notReports>>

\* The checked report is written.
CallbackWrite(g, s) ==
  /\ callback[g][s] \in {"Running"} \cup Terminal
  /\ SetBrief(s, callback[g][s])
  /\ callback' = [callback EXCEPT ![g][s] = IF @ \in Terminal THEN "finish" ELSE "idle"]
  /\ UNCHANGED <<schedulerWake, runningList, claimVars, unfinished, jobs, notReports>>

\* A job told to stop before its container was started goes away without a
\* report (its context is found done after the download).
JobStopsSilently(g, s) ==
  /\ jobs[g][s] = "stopping"
  /\ jobs' = [jobs EXCEPT ![g][s] = "none"]
  /\ UNCHANGED <<schedulerWake, runningList, claimVars, reportVars, callback, notReports>>

\* onSubmissionFinished: the unfinished marker, the claim and the subscriptions,
\* and the running list.
CallbackFinish(g, s) ==
  /\ callback[g][s] = "finish"
  /\ unfinished' = unfinished \ {s}
  /\ callback' = [callback EXCEPT ![g][s] = "release"]
  /\ UNCHANGED <<schedulerWake, runningList, claimVars, brief, jobs, notReports>>

CallbackRelease(g, s) ==
  /\ callback[g][s] = "release"
  /\ ReleaseSubmission(s)
  /\ callback' = [callback EXCEPT ![g][s] = "drop"]
  /\ UNCHANGED <<schedulerWake, runningList, reportVars, jobs, notReports>>

CallbackDrop(g, s) ==
  /\ callback[g][s] = "drop"
  /\ FinishDrop(s)
  /\ callback' = [callback EXCEPT ![g][s] = "idle"]
  /\ UNCHANGED <<claimVars, reportVars, jobs, notReports>>

ReportNext(g, s) ==
  \/ CallbackAccepted(g, s) \/ CallbackDenied(g, s) \/ CallbackWrite(g, s)
  \/ JobStopsSilently(g, s) \/ CallbackFinish(g, s) \/ CallbackRelease(g, s) \/ CallbackDrop(g, s)
=============================================================================
