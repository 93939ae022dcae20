----------------------------- MODULE WorkerState -----------------------------
(***************************************************************************)
(* The state of one grader process (GraderWorker) and of what it shares    *)
(* with the hub: the callback streams, the claims and the container        *)
(* metadata.  A job is one grade request the hub has sent; two jobs may be *)
(* of the same submission (a regrade, or a submission that was requeued    *)
(* and came back).                                                         *)
(***************************************************************************)
EXTENDS Integers, Sequences, FiniteSets

CONSTANTS
  Jobs,            \* grade requests, 1..n in the order in which the hub sends them
  SubmissionOf,    \* SubmissionOf[j]: the submission job j grades
  Concurrency,     \* containers the Docker grader runs at a time
  Disturbances,    \* what may happen: subset of {"break", "offline", "cancel"}
  MaxDisturbances  \* bound: broken streams, losses of the grader and cancel requests

Subs == {SubmissionOf[j] : j \in Jobs}

ASSUME WorkerAssumption ==
  /\ Jobs \subseteq Nat \ {0}
  /\ IsFiniteSet(Jobs)
  /\ DOMAIN SubmissionOf = Jobs
  /\ Concurrency \in Nat \ {0}
  /\ Disturbances \subseteq {"break", "offline", "cancel"}
  /\ MaxDisturbances \in Nat

VARIABLES
  \* GraderWorker: the job whose context is registered for a submission (0: none),
  \* and the contexts that are done
  cancelChs, ctxDone,
  \* gradeOneSubmission; its report buffer
  main, buffer, bufferClosed,
  \* DockerProgrammingGrader.GradeSubmission, the goroutine that reports its
  \* container, whether notifyC is closed, and what the run came to
  docker, meta, notifyClosed, outcome,
  \* the containers of the Docker daemon, by the job that created them
  containers,
  \* submissionReporter: its program counter, what it has yet to send
  reporter, unsent,
  \* the callback stream of the job: the hub's handler, and what is in flight
  handler, wire,
  \* the hub: submissions this grader holds, container metadata, what GradeCallback wrote
  claim, metadata, applied, result,
  \* the worker died of a send on a closed channel; it must register again
  crashed, reregister,
  \* what happened so far: last reports lost with a stream, and the bound
  lost, disturbed

jobVars    == <<main, buffer, bufferClosed>>
dockerVars == <<docker, meta, notifyClosed, outcome, containers>>
sendVars   == <<reporter, unsent>>
streamVars == <<handler, wire, lost>>
hubVars    == <<claim, applied, result>>
ctxVars    == <<cancelChs, ctxDone>>
vars == <<jobVars, dockerVars, sendVars, streamVars, hubVars, metadata, ctxVars,
          crashed, reregister, disturbed>>

-----------------------------------------------------------------------------
(* Types *)

Final       == {"Finished", "Failed", "Cancelled"}
Metadata    == {"Created", "Started"}            \* reports that carry DockerMetadata
Reports     == {"Running"} \cup Metadata \cup Final
MainPcs     == {"idle", "download", "failed", "check", "range", "done"}
DockerPcs   == {"none", "slot", "running", "create", "start", "started", "wait", "final",
                "close", "done"}
MetaPcs     == {"none", "id", "created", "start", "started", "done"}
ReporterPcs == {"none", "dial", "open", "close", "done"}
Handlers    == {"none", "open", "ok", "denied", "broken"}

-----------------------------------------------------------------------------
(* Shared operations *)

sub(j) == SubmissionOf[j]

\* ReportBuffer.Send: a report sent after the buffer was closed is dropped.
BufferSend(j, r) ==
  buffer' = [buffer EXCEPT ![j] = IF bufferClosed[j] THEN @ ELSE Append(@, r)]

\* GraderWorker.onSubmissionFinished: whatever context is registered for the
\* submission is cancelled and forgotten.
ForgetContext(s) ==
  /\ ctxDone' = [j \in Jobs |-> ctxDone[j] \/ cancelChs[s] = j]
  /\ cancelChs' = [cancelChs EXCEPT ![s] = 0]

\* cond.Wait of GradeSubmission ends while fewer than Concurrency runs are inside.
InsideDocker == {j \in Jobs : docker[j] \notin {"none", "slot", "done"}}

\* The last report is among q, at its end.
Ended(q) == q # <<>> /\ q[Len(q)] \in Final

Alive == ~crashed

Disturb(kind) ==
  /\ kind \in Disturbances
  /\ disturbed < MaxDisturbances
  /\ disturbed' = disturbed + 1
=============================================================================
