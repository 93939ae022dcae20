---------------------------- MODULE DockerGrader ----------------------------
(***************************************************************************)
(* DockerProgrammingGrader.GradeSubmission and runDocker: a run waits for  *)
(* a slot, reports Running, pulls, creates and starts a container, waits   *)
(* for it, reads the results, and reports the end on notifyC.  A second    *)
(* goroutine reports on the same channel that the container was created    *)
(* and started.  notifyC has no buffer: a send waits for the loop of       *)
(* gradeOneSubmission, which puts the report into the job's buffer.        *)
(***************************************************************************)
EXTENDS WorkerState

notDocker == <<main, bufferClosed, sendVars, streamVars, hubVars, metadata, ctxVars,
               reregister, disturbed>>

\* A send on notifyC that is received.
Notify(j, r) ==
  /\ main[j] = "range"
  /\ ~notifyClosed[j]
  /\ BufferSend(j, r)

Go(j, from, to) ==
  /\ docker[j] = from
  /\ docker' = [docker EXCEPT ![j] = to]

\* cond.Wait ends while fewer than concurrency runs are inside.
TakeSlot(j) ==
  /\ Go(j, "slot", "running")
  /\ Cardinality(InsideDocker) < Concurrency
  /\ UNCHANGED <<buffer, meta, notifyClosed, outcome, containers, crashed, notDocker>>

\* The Running report; then the goroutine that reports the container starts.
ReportRunning(j) ==
  /\ Go(j, "running", "create")
  /\ Notify(j, "Running")
  /\ meta' = [meta EXCEPT ![j] = "id"]
  /\ UNCHANGED <<notifyClosed, outcome, containers, crashed, notDocker>>

\* runDocker returns: containerIdCh and containerStartCh are closed, so the
\* other goroutine stops waiting on them.
Return(j, o) ==
  /\ docker' = [docker EXCEPT ![j] = "final"]
  /\ outcome' = [outcome EXCEPT ![j] = o]
  /\ meta' = [meta EXCEPT ![j] = IF @ \in {"id", "start"} THEN "done" ELSE @]

\* What a Docker call that failed makes of the run.  A failure reported inside
\* the progress of the pull is not looked at for cancellation.
Errors(j) == CASE ~ctxDone[j]          -> {"Failed"}
               [] docker[j] = "create" -> {"Failed", "Cancelled"}
               [] OTHER                -> {"Cancelled"}

\* The pull, the creation or the start of the container fails.
RunFails(j) ==
  /\ docker[j] \in {"create", "start"}
  /\ \E o \in Errors(j) : Return(j, o)
  /\ UNCHANGED <<buffer, notifyClosed, containers, crashed, notDocker>>

\* The image is pulled and the container created.  It is named after the
\* submission, so a second one cannot be created; its id is handed to the
\* other goroutine.
CreateContainer(j) ==
  /\ Go(j, "create", "start")
  /\ \A k \in containers : sub(k) # sub(j)
  /\ containers' = containers \cup {j}
  /\ meta' = [meta EXCEPT ![j] = "created"]
  /\ UNCHANGED <<buffer, notifyClosed, outcome, crashed, notDocker>>

StartContainer(j) ==
  /\ Go(j, "start", "started")
  /\ j \in containers
  /\ UNCHANGED <<buffer, meta, notifyClosed, outcome, containers, crashed, notDocker>>

\* containerStartCh <- true waits until the other goroutine listens.
TellStarted(j) ==
  /\ Go(j, "started", "wait")
  /\ meta[j] = "start"
  /\ meta' = [meta EXCEPT ![j] = "started"]
  /\ UNCHANGED <<buffer, notifyClosed, outcome, containers, crashed, notDocker>>

\* Mutant: a run that takes too long is given no result.
WaitContainerTimeout(j) ==
  /\ docker[j] = "wait"
  /\ \E o \in {"Finished", "Failed", "none"} \cup (IF ctxDone[j] THEN {"Cancelled"} ELSE {}) :
       Return(j, o)
  /\ UNCHANGED <<buffer, notifyClosed, containers, crashed, notDocker>>

\* The container exits and its results are read, or the wait or the reading
\* fails, the run takes too long, or the context is done; when several are
\* ready any of them is taken.
WaitContainer(j) ==
  /\ docker[j] = "wait"
  /\ \E o \in {"Finished", "Failed"} \cup (IF ctxDone[j] THEN {"Cancelled"} ELSE {}) :
       Return(j, o)
  /\ UNCHANGED <<buffer, notifyClosed, containers, crashed, notDocker>>

\* The last report.  A cancelled run changes the status of the brief report it
\* has sent as Running: where that has not left the process it says Cancelled now.
Recast(q) == [i \in DOMAIN q |-> IF q[i] = "Running" THEN "Cancelled" ELSE q[i]]

ReportFinal(j) ==
  /\ Go(j, "final", "close")
  /\ main[j] = "range"
  /\ IF outcome[j] = "Cancelled"
     THEN /\ buffer' = [buffer EXCEPT ![j] =
                          IF bufferClosed[j] THEN Recast(@) ELSE Append(Recast(@), "Cancelled")]
          /\ unsent' = [unsent EXCEPT ![j] = Recast(@)]
     ELSE /\ Notify(j, outcome[j])
          /\ UNCHANGED unsent
  /\ outcome' = [outcome EXCEPT ![j] = "none"]
  /\ UNCHANGED <<meta, notifyClosed, containers, crashed, main, bufferClosed,
                 reporter, streamVars, hubVars, metadata, ctxVars, reregister, disturbed>>

\* notifyC is closed; the deferred calls give the slot back, signal one
\* waiting run and have the container removed in the background.
LeaveDocker(j) ==
  /\ Go(j, "close", "done")
  /\ notifyClosed' = [notifyClosed EXCEPT ![j] = TRUE]
  /\ UNCHANGED <<buffer, meta, outcome, containers, crashed, notDocker>>

RemoveContainer(j) ==
  /\ docker[j] = "done" /\ j \in containers
  /\ containers' = containers \ {j}
  /\ UNCHANGED <<buffer, docker, meta, notifyClosed, outcome, crashed, notDocker>>

-----------------------------------------------------------------------------
(* The goroutine that reports the container *)

\* Mutant: it stops after the first report.
NextMetaDeaf(j) == "done"

\* After "created" it listens for the start, or finds containerStartCh closed.
NextMeta(j) ==
  IF meta[j] = "created" /\ docker[j] \in {"start", "started"} THEN "start" ELSE "done"

MetaReport(j) ==
  /\ meta[j] \in {"created", "started"}
  /\ Notify(j, IF meta[j] = "created" THEN "Created" ELSE "Started")
  /\ meta' = [meta EXCEPT ![j] = NextMeta(j)]
  /\ UNCHANGED <<docker, notifyClosed, outcome, containers, crashed, notDocker>>

\* A send on the closed notifyC is a panic, and nothing recovers it.
MetaPanics(j) ==
  /\ meta[j] \in {"created", "started"}
  /\ notifyClosed[j]
  /\ crashed' = TRUE
  /\ UNCHANGED <<buffer, docker, meta, notifyClosed, outcome, containers, notDocker>>

DockerNext(j) ==
  \/ TakeSlot(j) \/ ReportRunning(j) \/ RunFails(j) \/ CreateContainer(j)
  \/ StartContainer(j) \/ TellStarted(j) \/ WaitContainer(j) \/ ReportFinal(j) \/ LeaveDocker(j)
  \/ RemoveContainer(j) \/ MetaReport(j) \/ MetaPanics(j)
=============================================================================
