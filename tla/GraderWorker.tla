---------------------------- MODULE GraderWorker ----------------------------
(***************************************************************************)
(* One grader process: WorkLoop receives grade and cancel requests over    *)
(* the heartbeat stream and starts gradeOneSubmission for each grade       *)
(* request; that runs the Docker grader (DockerGrader) and a reporter      *)
(* (ReportSession) as goroutines of their own.  The hub is here what       *)
(* decides which reports count: whether this grader holds the submission.  *)
(***************************************************************************)
EXTENDS DockerGrader, ReportSession

Init ==
  /\ cancelChs = [s \in Subs |-> 0]
  /\ ctxDone = [j \in Jobs |-> FALSE]
  /\ main = [j \in Jobs |-> "idle"]
  /\ buffer = [j \in Jobs |-> <<>>]
  /\ bufferClosed = [j \in Jobs |-> FALSE]
  /\ docker = [j \in Jobs |-> "none"]
  /\ meta = [j \in Jobs |-> "none"]
  /\ notifyClosed = [j \in Jobs |-> FALSE]
  /\ outcome = [j \in Jobs |-> "none"]
  /\ containers = {}
  /\ reporter = [j \in Jobs |-> "none"]
  /\ unsent = [j \in Jobs |-> <<>>]
  /\ handler = [j \in Jobs |-> "none"]
  /\ wire = [j \in Jobs |-> <<>>]
  /\ claim = [s \in Subs |-> FALSE]
  /\ metadata = [s \in Subs |-> 0]
  /\ applied = [j \in Jobs |-> <<>>]
  /\ result = [s \in Subs |-> 0]
  /\ crashed = FALSE
  /\ reregister = FALSE
  /\ lost = [j \in Jobs |-> FALSE]
  /\ disturbed = 0

-----------------------------------------------------------------------------
(* gradeOneSubmission *)

notMain == <<dockerVars, sendVars, streamVars, hubVars, metadata, crashed, reregister, disturbed>>

MainGo(j, from, to) ==
  /\ main[j] = from
  /\ main' = [main EXCEPT ![j] = to]

Downloaded(j) ==
  /\ MainGo(j, "download", "check")
  /\ UNCHANGED <<buffer, bufferClosed, ctxVars, notMain>>

\* A file cannot be fetched, or the fetch was cut off by the cancelled context:
\* the job reports Failed, its context is cancelled and the buffer is closed.
DownloadFails(j) ==
  /\ MainGo(j, "download", "failed")
  /\ BufferSend(j, "Failed")
  /\ UNCHANGED <<bufferClosed, ctxVars, notMain>>

CloseFailed(j) ==
  /\ MainGo(j, "failed", "check")
  /\ ForgetContext(sub(j))
  /\ bufferClosed' = [bufferClosed EXCEPT ![j] = TRUE]
  /\ UNCHANGED <<buffer, notMain>>

\* A context that is done ends the job here: nothing more is reported, and the
\* buffer is left as it is.
Abandon(j) ==
  /\ MainGo(j, "check", "done")
  /\ ctxDone[j]
  /\ ForgetContext(sub(j))
  /\ UNCHANGED <<buffer, bufferClosed, notMain>>

StartDocker(j) ==
  /\ MainGo(j, "check", "range")
  /\ ~ctxDone[j]
  /\ docker' = [docker EXCEPT ![j] = "slot"]
  /\ UNCHANGED <<buffer, bufferClosed, ctxVars, meta, notifyClosed, outcome, containers,
                 sendVars, streamVars, hubVars, metadata, crashed, reregister, disturbed>>

\* Mutant: the buffer is not closed.
RangeEndsOpen(j) ==
  /\ MainGo(j, "range", "done")
  /\ notifyClosed[j]
  /\ ForgetContext(sub(j))
  /\ UNCHANGED <<buffer, bufferClosed, notMain>>

\* The loop over notifyC ends.
RangeEnds(j) ==
  /\ MainGo(j, "range", "done")
  /\ notifyClosed[j]
  /\ ForgetContext(sub(j))
  /\ bufferClosed' = [bufferClosed EXCEPT ![j] = TRUE]
  /\ UNCHANGED <<buffer, notMain>>

MainNext(j) ==
  \/ Downloaded(j) \/ DownloadFails(j) \/ CloseFailed(j)
  \/ Abandon(j) \/ StartDocker(j) \/ RangeEnds(j)

-----------------------------------------------------------------------------
(* WorkLoop *)

\* A grade request: the hub has claimed the submission for this grader.  The
\* job's context replaces whatever is registered for the submission.
BeginGrade(j) ==
  /\ main[j] = "idle" /\ ~reregister
  /\ \A k \in Jobs : k < j => main[k] # "idle"
  /\ ~claim[sub(j)]
  /\ claim' = [claim EXCEPT ![sub(j)] = TRUE]
  /\ cancelChs' = [cancelChs EXCEPT ![sub(j)] = j]
  /\ main' = [main EXCEPT ![j] = "download"]
  /\ reporter' = [reporter EXCEPT ![j] = "dial"]
  /\ UNCHANGED <<ctxDone, buffer, bufferClosed, dockerVars, unsent, streamVars, applied, result,
                 metadata, crashed, reregister, disturbed>>

\* A cancel request
CancelJob(s) ==
  /\ ~reregister /\ claim[s]
  /\ Disturb("cancel")
  /\ ForgetContext(s)
  /\ UNCHANGED <<jobVars, dockerVars, sendVars, streamVars, hubVars, metadata, crashed, reregister>>

\* The hub's onGraderOffline: its submissions go back to the queue.
GraderOffline ==
  /\ ~reregister
  /\ Disturb("offline")
  /\ claim' = [s \in Subs |-> FALSE]
  /\ reregister' = TRUE
  /\ UNCHANGED <<jobVars, dockerVars, sendVars, streamVars, applied, result, metadata, ctxVars,
                 crashed>>

\* Registration: containers that the metadata names are removed.  The metadata
\* itself stays: the call that deletes it carries no session.
Reregister ==
  /\ reregister
  /\ reregister' = FALSE
  /\ containers' = {j \in containers : metadata[sub(j)] # j}
  /\ UNCHANGED <<jobVars, docker, meta, notifyClosed, outcome, sendVars, streamVars, hubVars,
                 metadata, ctxVars, crashed, disturbed>>

-----------------------------------------------------------------------------
(* A step of the worker needs a process that has not crashed; after a crash    *)
(* the hub reads on what was sent.                                             *)

Next ==
  \/ \E j \in Jobs :
       \/ Alive /\ (BeginGrade(j) \/ MainNext(j) \/ DockerNext(j) \/ ReporterNext(j))
       \/ HandlerNext(j)
       \/ BreakStream(j)
  \/ Alive /\ \E s \in Subs : CancelJob(s)
  \/ Alive /\ (GraderOffline \/ Reregister)

\* Each goroutine goes on while it can; grade requests, cancellation and
\* failures are up to the environment.  The Docker grader's waits all end: the
\* container has a time limit and the daemon answers.
Fairness ==
  /\ \A j \in Jobs :
       /\ WF_vars(Alive /\ MainNext(j))
       /\ WF_vars(Alive /\ DockerNext(j))
       /\ WF_vars(Alive /\ ReporterNext(j))
       /\ WF_vars(HandlerNext(j))
  /\ WF_vars(Alive /\ Reregister)

Spec == Init /\ [][Next]_vars /\ Fairness

-----------------------------------------------------------------------------
(* Properties *)

\* Every variable has its type.
TypeOK ==
  /\ cancelChs \in [Subs -> Jobs \cup {0}]
  /\ ctxDone \in [Jobs -> BOOLEAN]
  /\ main \in [Jobs -> MainPcs]
  /\ docker \in [Jobs -> DockerPcs]
  /\ meta \in [Jobs -> MetaPcs]
  /\ outcome \in [Jobs -> Final \cup {"none"}]
  /\ containers \subseteq Jobs
  /\ reporter \in [Jobs -> ReporterPcs]
  /\ handler \in [Jobs -> Handlers]
  /\ claim \in [Subs -> BOOLEAN]
  /\ metadata \in [Subs -> Jobs \cup {0}]
  /\ result \in [Subs -> Jobs \cup {0}]
  /\ crashed \in BOOLEAN /\ reregister \in BOOLEAN
  /\ \A j \in Jobs : \A q \in {buffer[j], unsent[j], applied[j]} :
       \A i \in DOMAIN q : q[i] \in Reports

\* A reporter that has ended has brought the job's last report to the hub
\* (submissionReporter, reportSession), unless the hub refused the stream or
\* the report was in flight on a stream that broke.
DeliveredUnlessBroken ==
  \A j \in Jobs : reporter[j] = "done" =>
    \/ handler[j] = "denied" \/ lost[j]
    \/ buffer[j] = <<>> /\ unsent[j] = <<>> /\ bufferClosed[j] /\ Ended(applied[j])

\* What the hub takes from a job is Running and then one last report, each at
\* most once, although sessions break and are resumed (sendReports keeps the
\* unsent tail) - for as long as no other job of the submission was started.
AppliedInOrder ==
  \A j \in Jobs : (\A k \in Jobs : k # j /\ sub(k) = sub(j) => main[k] = "idle") =>
    /\ Len(applied[j]) <= 2
    /\ \A i, k \in DOMAIN applied[j] : i < k => applied[j][i] = "Running" /\ applied[j][k] \in Final

\* A job whose buffer is open still has a goroutine that will report and close
\* it, unless its context was done before the Docker grader started.
OpenBufferHasWriter ==
  \A j \in Jobs : main[j] = "done" /\ ~bufferClosed[j] => ctxDone[j] /\ docker[j] = "none"

\* A job that was started ends, and so does its reporter once the buffer is
\* closed, unless the worker crashes.
JobsEnd ==
  \A j \in Jobs :
    /\ (main[j] # "idle") ~> (main[j] = "done" \/ crashed)
    /\ bufferClosed[j] ~> (reporter[j] = "done" \/ crashed)
=============================================================================
