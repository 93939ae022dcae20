------------------------------ MODULE HubState ------------------------------
(***************************************************************************)
(* The state of the grader hub (GraderHubService), of the two repositories *)
(* it writes, of the heartbeat streams it serves and of the goroutines     *)
(* that act on it, with the operations several of them share.  The actions *)
(* are in HubScheduler, HubMonitor, HubReports and HubClients; GraderHub   *)
(* composes them.                                                          *)
(***************************************************************************)
EXTENDS Integers, Sequences, FiniteSets, PendingList

CONSTANTS
  Submissions,   \* submission ids
  Graders,       \* grader ids: positive numbers, 0 is "no grader"
  Callers,       \* goroutines serving CancelSubmission and RegradeSubmission
  GraderTags,    \* GraderTags[g]: the tags grader g registered with
  RequestTags,   \* RequestTags[s]: the tags the assignment of s asks for
  Concurrency,   \* Concurrency[g]: how many submissions g runs at a time
  Operations,    \* the calls Callers may make, a subset of {"cancel", "regrade"}
  FaultKinds,    \* a subset of {"break", "crash", "timeout", "restart"}
  MaxStreams,    \* bound: heartbeat streams a grader opens
  MaxFaults      \* bound: faults in one behaviour

ASSUME HubAssumption ==
  /\ IsFiniteSet(Submissions)
  /\ Graders \subseteq Nat \ {0}
  /\ IsFiniteSet(Graders)
  /\ Callers \cap Submissions = {}
  /\ Concurrency \in [Graders -> Nat]
  /\ MaxStreams \in Nat \ {0}
  /\ MaxFaults \in Nat

VARIABLES
  \* pending requests (queuedMu) and the scheduler's wake-up channel of capacity 1
  queuedList, queuedListIndex, schedulerWake,
  \* requests handed to a grader (runningMu)
  runningList,
  \* GraderRepository: claims by submission and by grader, and the grader records
  submissionGrader, graderSubmissions, status,
  \* SubmissionReportRepository: brief report status and the unfinished markers
  brief, unfinished,
  \* graders the scheduler may use (onlineMu); graders whose session token is valid
  onlineGraders, session,
  \* per grader, the outbox in use (0: none), and every outbox ever created
  gradeRequestQueues, requests, closed,
  \* per heartbeat stream: handler, connection, and whether its send loop runs
  handler, linkUp, sendLoop,
  \* goroutines
  scheduler, todo, loads, candidates, target, targetQueue, progressed,
  monitor, monQueue, monSubs, monRequeue, monCur, monFinal,
  callback,      \* GradeCallback handlers
  proc,          \* runSubmission, regradeSubmission and CancelGrade
  worker, jobs,  \* the grader processes
  faults         \* faults so far

queueVars   == <<queuedList, queuedListIndex, schedulerWake>>
claimVars   == <<submissionGrader, graderSubmissions>>
reportVars  == <<brief, unfinished>>
graderVars  == <<status, onlineGraders, session>>
outboxVars  == <<gradeRequestQueues, requests, closed>>
streamVars  == <<handler, linkUp, sendLoop>>
passVars    == <<scheduler, todo, loads, candidates, target, targetQueue, progressed>>
monitorVars == <<monitor, monQueue, monSubs, monRequeue, monCur, monFinal>>
workerVars  == <<worker, jobs>>
vars == <<queueVars, runningList, claimVars, reportVars, graderVars, outboxVars,
          streamVars, passVars, monitorVars, callback, proc, workerVars, faults>>

-----------------------------------------------------------------------------
(* Types *)

Streams  == 1..MaxStreams
Terminal == {"Finished", "Cancelled"}         \* Finished stands for Failed too
Briefs   == {"None", "Queued", "Running", "Cancelling"} \cup Terminal
Request  == [sub : Submissions, cancel : BOOLEAN]
\* The goroutine running submission s is named s itself.
Procs    == Callers \cup Submissions
ProcPcs  == {"idle", "mark", "push", "queued", "cancel", "owner", "send", "cancelling",
             "cancelled", "finish", "release", "drop", "done"}
Proc     == [pc : ProcPcs, sub : Submissions \cup {"none"}, then : {"mark", "done"},
             grader : Graders \cup {0},
             queue : 0..MaxStreams]

-----------------------------------------------------------------------------
(* Operations shared by several goroutines *)

\* schedulePass runs with queuedMu held from its first to its last step.
QueuedMuFree == scheduler \in {"lock", "wait"}

\* Mutant: the request is put into the list and not into the index.
PushPendingUnindexed(s) ==
  /\ QueuedMuFree
  /\ queuedList' = PushBack(queuedList, s)
  /\ schedulerWake' = TRUE
  /\ UNCHANGED queuedListIndex

\* pushPendingGradeQueue, under queuedMu.
PushPending(s) ==
  /\ QueuedMuFree
  /\ queuedList' = PushBack(queuedList, s)
  /\ queuedListIndex' = queuedListIndex \cup {s}
  /\ schedulerWake' = TRUE

\* GraderRepository.ClaimSubmission.  A claim of another grader on s is
\* overwritten in the index by submission and left in the index by grader.
ClaimSubmission(g, s) ==
  /\ submissionGrader' = [submissionGrader EXCEPT ![s] = g]
  /\ graderSubmissions' = [graderSubmissions EXCEPT ![g] = @ \cup {s}]

\* Mutant: a release that forgets the index by grader.
ReleaseSubmissionHalf(s) ==
  /\ submissionGrader' = [submissionGrader EXCEPT ![s] = 0]
  /\ UNCHANGED graderSubmissions

\* GraderRepository.ReleaseSubmission: whoever holds the claim loses it.
ReleaseSubmission(s) ==
  /\ submissionGrader' = [submissionGrader EXCEPT ![s] = 0]
  /\ graderSubmissions' =
       [g \in Graders |-> IF g = submissionGrader[s]
                          THEN graderSubmissions[g] \ {s} ELSE graderSubmissions[g]]

\* Mutant: onSubmissionFinished without its trailing wakeScheduler.
FinishDropSilently(s) ==
  /\ runningList' = runningList \ {s}
  /\ UNCHANGED schedulerWake

\* The end of onSubmissionFinished, after the unfinished marker, the claim and
\* the subscriptions of s are gone.
FinishDrop(s) ==
  /\ runningList' = runningList \ {s}
  /\ schedulerWake' = TRUE

\* GradeRequestQueue.Push on an outbox that is still open.
Push(g, n, req) ==
  /\ ~closed[g][n]
  /\ requests' = [requests EXCEPT ![g][n] = Append(@, req)]

\* One of the faults a behaviour may have.
Fault(kind) == kind \in FaultKinds /\ faults < MaxFaults /\ faults' = faults + 1

SetBrief(s, st) == brief' = [brief EXCEPT ![s] = st]
=============================================================================
