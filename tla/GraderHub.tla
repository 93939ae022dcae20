------------------------------ MODULE GraderHub ------------------------------
(***************************************************************************)
(* The grader hub: the scheduler, the monitors and heartbeat streams, the  *)
(* report callbacks and the web service's calls, interleaved; with the     *)
(* faults the hub is written for.                                          *)
(***************************************************************************)
EXTENDS HubScheduler, HubMonitor, HubReports, HubClients

\* NewGraderHubService over an empty database: no grader has ever registered.
Init ==
  /\ queuedList = <<>> /\ queuedListIndex = {} /\ schedulerWake = FALSE
  /\ runningList = {}
  /\ submissionGrader = [s \in Submissions |-> 0]
  /\ graderSubmissions = [g \in Graders |-> {}]
  /\ status = [g \in Graders |-> "None"]
  /\ brief = [s \in Submissions |-> "None"]
  /\ unfinished = {}
  /\ onlineGraders = {}
  /\ session = [g \in Graders |-> FALSE]
  /\ gradeRequestQueues = [g \in Graders |-> 0]
  /\ requests = [g \in Graders |-> [n \in Streams |-> <<>>]]
  /\ closed = [g \in Graders |-> [n \in Streams |-> FALSE]]
  /\ handler = [g \in Graders |-> [n \in Streams |-> "new"]]
  /\ linkUp = [g \in Graders |-> [n \in Streams |-> FALSE]]
  /\ sendLoop = [g \in Graders |-> [n \in Streams |-> FALSE]]
  /\ scheduler = "lock" /\ todo = <<>> /\ candidates = {}
  /\ loads = [g \in Graders |-> 0]
  /\ target = 0 /\ targetQueue = 0 /\ progressed = FALSE
  /\ monitor = [g \in Graders |-> "none"]
  /\ monQueue = [g \in Graders |-> 0]
  /\ monSubs = [g \in Graders |-> {}]
  /\ monRequeue = [g \in Graders |-> {}]
  /\ monCur = [g \in Graders |-> "none"]
  /\ monFinal = [g \in Graders |-> "None"]
  /\ callback = [g \in Graders |-> [s \in Submissions |-> "idle"]]
  /\ proc = [p \in Procs |-> [pc |-> "idle", sub |-> IF p \in Submissions THEN p ELSE "none",
                              then |-> "done", grader |-> 0, queue |-> 0]]
  /\ worker = [g \in Graders |-> "register"]
  /\ jobs = [g \in Graders |-> [s \in Submissions |-> "none"]]
  /\ faults = 0

-----------------------------------------------------------------------------
(* Faults *)

\* The connection of a heartbeat stream breaks.
StreamBreak(g, n) ==
  /\ Fault("break")
  /\ linkUp[g][n]
  /\ linkUp' = [linkUp EXCEPT ![g][n] = FALSE]
  /\ UNCHANGED <<queueVars, runningList, claimVars, reportVars, graderVars, outboxVars,
                 handler, sendLoop, passVars, monitorVars, callback, proc, workerVars>>

\* A grader process dies with its jobs and comes back without its session token.
GraderCrash(g) ==
  /\ Fault("crash")
  /\ worker[g] # "register" \/ \E s \in Submissions : jobs[g][s] # "none"
  /\ worker' = [worker EXCEPT ![g] = "register"]
  /\ jobs' = [jobs EXCEPT ![g] = [s \in Submissions |-> "none"]]
  /\ session' = [session EXCEPT ![g] = FALSE]
  /\ linkUp' = [linkUp EXCEPT ![g] = [n \in Streams |-> FALSE]]
  /\ UNCHANGED <<queueVars, runningList, claimVars, reportVars, status, onlineGraders,
                 outboxVars, handler, sendLoop, passVars, monitorVars, callback, proc>>

\* Mutant: the claims of the previous process are left in the database.
RestartKeepsClaims == UNCHANGED <<submissionGrader, graderSubmissions>>

\* GraderRepository.ClearRunning: no claim survives a restart.
ClearRunning ==
  /\ submissionGrader' = [s \in Submissions |-> 0]
  /\ graderSubmissions' = [g \in Graders |-> {}]

\* Mutant: nobody picks up the unfinished submissions.
RestartForgetsUnfinished ==
  proc' = [p \in Procs |->
             [proc[p] EXCEPT !.pc = IF @ = "idle" THEN "idle" ELSE "done",
                             !.grader = 0, !.queue = 0]]

\* Every call in progress is gone; each unfinished submission gets a new
\* runSubmission.
runUnfinishedSubmissions ==
  proc' = [p \in Procs |->
             [proc[p] EXCEPT !.pc = IF p \in unfinished THEN "mark"
                                    ELSE IF @ = "idle" THEN "idle" ELSE "done",
                             !.grader = 0, !.queue = 0]]

\* NewGraderHubService: empty queues and maps, one monitor per grader record.
NewGraderHubService ==
  /\ queuedList' = <<>> /\ queuedListIndex' = {} /\ schedulerWake' = FALSE
  /\ runningList' = {}
  /\ status' = [g \in Graders |-> IF status[g] = "Online" THEN "Unknown" ELSE status[g]]
  /\ onlineGraders' = {}
  /\ session' = [g \in Graders |-> FALSE]
  /\ gradeRequestQueues' = [g \in Graders |-> 0]
  /\ requests' = [g \in Graders |-> [n \in Streams |-> <<>>]]
  /\ scheduler' = "lock" /\ todo' = <<>> /\ candidates' = {}
  /\ loads' = [g \in Graders |-> 0]
  /\ target' = 0 /\ targetQueue' = 0 /\ progressed' = FALSE
  /\ monitor' = [g \in Graders |-> IF status[g] = "None" THEN "none" ELSE "idle"]
  /\ monQueue' = [g \in Graders |-> 0]
  /\ monSubs' = [g \in Graders |-> {}]
  /\ monRequeue' = [g \in Graders |-> {}]
  /\ monCur' = [g \in Graders |-> "none"]
  /\ monFinal' = [g \in Graders |-> "None"]

\* The server process dies, with every stream and every handler, and starts
\* again over the database it left.
Restart ==
  /\ Fault("restart")
  /\ NewGraderHubService
  /\ ClearRunning
  /\ runUnfinishedSubmissions
  /\ handler' = [g \in Graders |-> [n \in Streams |->
                   IF handler[g][n] = "new" THEN "new" ELSE "done"]]
  /\ linkUp' = [g \in Graders |-> [n \in Streams |-> FALSE]]
  /\ sendLoop' = [g \in Graders |-> [n \in Streams |-> FALSE]]
  /\ callback' = [g \in Graders |-> [s \in Submissions |-> "idle"]]
  /\ UNCHANGED <<reportVars, closed, workerVars>>

-----------------------------------------------------------------------------

Next ==
  \/ SchedulerNext
  \/ \E g \in Graders : RegisterGrader(g) \/ Reconnect(g) \/ MonitorTimeout(g)
                        \/ MonitorWriteBack(g) \/ OfflineNext(g) \/ GraderCrash(g)
  \/ \E g \in Graders, n \in Streams : StreamNext(g, n) \/ StreamBreak(g, n)
  \/ \E g \in Graders, s \in Submissions : ReportNext(g, s)
  \/ \E s \in Submissions : CreateSubmission(s)
  \/ \E p \in Callers, s \in Submissions : CancelSubmission(p, s) \/ RegradeSubmission(p, s)
  \/ \E p \in Procs : ProcNext(p)
  \/ Restart

Spec == Init /\ [][Next]_vars

\* Goroutines that can run do run.  Where two goroutines compete, for queuedMu,
\* for a monitor's channel or for a worker's job to come to its end, Go's queues
\* of waiters and the time limit of a job make the fairness strong.  Of the calls
\* and of the reports of a grader only some one is asked to go on: each has
\* finitely many steps, so that is enough for all of them.
Fairness ==
  /\ WF_vars(SchedulerNext)
  /\ WF_vars(\E p \in Procs : ProcNext(p))
  /\ SF_vars(\E p \in Procs : RunPush(p) \/ CancelPending(p))
  /\ \A g \in Graders :
       /\ WF_vars(RegisterGrader(g) \/ Reconnect(g) \/ \E n \in Streams : GraderHeartbeat(g, n))
       /\ WF_vars(OfflineNext(g) \/ MonitorWriteBack(g))
       /\ SF_vars(OfflinePush(g))
       /\ \A n \in Streams :
            /\ WF_vars(HeartbeatNotRegistered(g, n) \/ HeartbeatReceived(g, n) \/ RecvError(g, n))
            /\ WF_vars(SendRequests(g, n) \/ SendFails(g, n))
            /\ SF_vars(MonitorBeat(g, n) \/ MonitorStreamEnded(g, n))
       /\ SF_vars(\E s \in Submissions : CallbackAccepted(g, s) /\ callback'[g][s] \in Terminal)
       /\ WF_vars(\E s \in Submissions : CallbackWrite(g, s) \/ CallbackFinish(g, s)
                                         \/ CallbackRelease(g, s) \/ CallbackDrop(g, s))

FairSpec == Spec /\ Fairness

-----------------------------------------------------------------------------
(* Type invariant *)

MonitorPcs == {"none", "idle", "writeback", "offline", "take", "claims", "collect",
               "release", "push", "brief"}

PendingType ==
  /\ queuedList \in Seq([sub : Submissions, rank : Int])
  /\ queuedListIndex \subseteq Submissions

RunningType ==
  /\ schedulerWake \in BOOLEAN
  /\ runningList \subseteq Submissions

RepositoryType ==
  /\ submissionGrader \in [Submissions -> Graders \cup {0}]
  /\ graderSubmissions \in [Graders -> SUBSET Submissions]
  /\ status \in [Graders -> {"None", "Online", "Unknown", "Offline"}]
  /\ brief \in [Submissions -> Briefs]
  /\ unfinished \subseteq Submissions

StreamType ==
  /\ onlineGraders \subseteq Graders
  /\ session \in [Graders -> BOOLEAN]
  /\ gradeRequestQueues \in [Graders -> 0..MaxStreams]
  /\ requests \in [Graders -> [Streams -> Seq(Request)]]
  /\ closed \in [Graders -> [Streams -> BOOLEAN]]
  /\ handler \in [Graders -> [Streams -> {"new", "recv", "beat", "nil", "done"}]]
  /\ linkUp \in [Graders -> [Streams -> BOOLEAN]]
  /\ sendLoop \in [Graders -> [Streams -> BOOLEAN]]

PassType ==
  /\ scheduler \in {"lock", "visit", "run", "claim", "push", "undoRunning",
                    "undoClaim", "wait"}
  /\ todo \in Seq(Submissions)
  /\ loads \in [Graders -> Nat]
  /\ candidates \subseteq Graders
  /\ target \in Graders \cup {0}
  /\ targetQueue \in 0..MaxStreams
  /\ progressed \in BOOLEAN

MonitorType ==
  /\ monitor \in [Graders -> MonitorPcs]
  /\ monQueue \in [Graders -> 0..MaxStreams]
  /\ monSubs \in [Graders -> SUBSET Submissions]
  /\ monRequeue \in [Graders -> SUBSET Submissions]
  /\ monCur \in [Graders -> Submissions \cup {"none"}]
  /\ monFinal \in [Graders -> {"None", "Offline"}]

WorkerType ==
  /\ callback \in [Graders -> [Submissions ->
                     {"idle", "Running", "finish", "release", "drop"} \cup Terminal]]
  /\ worker \in [Graders -> {"register", "open", "stream"}]
  /\ jobs \in [Graders -> [Submissions -> {"none", "active", "stopping"}]]
  /\ faults \in 0..MaxFaults

ProcType == proc \in [Procs -> Proc]

\* Every variable of the hub has its type: in particular the pending list holds
\* only submissions, and no goroutine reaches a step it has no case for.
TypeOK ==
  /\ PendingType /\ RunningType /\ RepositoryType /\ StreamType
  /\ PassType /\ MonitorType /\ WorkerType /\ ProcType

-----------------------------------------------------------------------------
(* The pending list and the scheduler *)

\* The rank shown to a waiting client (GetPendingRank, onPendingRankChanged) is
\* the request's position in the pending list, however pushes, cancels and
\* dispatches of other submissions interleave.
RankIsPosition == \A i \in 1..Len(queuedList) : queuedList[i].rank = i

\* No grader is ever handed more submissions than its concurrency, although
\* pickGrader decides on a snapshot that claims and releases make stale.
CapacityRespected ==
  \A g \in Graders : Cardinality(graderSubmissions[g]) <= Concurrency[g]

\* A goroutine that has yet to wake the scheduler.
WakePending ==
  \/ schedulerWake
  \/ \E p \in Procs : proc[p].pc \in {"finish", "release", "drop"}
  \/ \E g \in Graders, s \in Submissions : callback[g][s] \in {"finish", "release", "drop"}
  \/ \E g \in Graders : monRequeue[g] # {} \/ monitor[g] = "push"

\* Grader g, connected, could take s now.
HasRoomFor(g, s) ==
  /\ g \in onlineGraders
  /\ \E n \in Streams : gradeRequestQueues[g] = n /\ handler[g][n] # "done" /\ linkUp[g][n]
  /\ Cardinality(graderSubmissions[g]) < Concurrency[g]
  /\ graderHasTags(g, s)

\* The scheduler never sleeps, with no wake-up on its way, on a request that a
\* connected grader has room for: the capacity-1 channel of wakeScheduler keeps
\* a notification that arrives while a pass works on a stale snapshot.
NoMissedCapacity ==
  scheduler = "wait" /\ ~WakePending =>
    \A i \in 1..Len(queuedList), g \in Graders : ~HasRoomFor(g, queuedList[i].sub)

\* s has been regraded, which can put it into the list beside its first run.
Regraded(s) == \E p \in Callers : proc[p].sub = s /\ proc[p].then = "mark"

\* A submission that was not regraded is in the pending list at most once
\* ("requeue each submission once"), and queuedListIndex finds it exactly then,
\* whatever call for it or for others interleaves.
QueuedOnce ==
  \A s \in Submissions :
    \/ Regraded(s)
    \/ Cardinality({i \in 1..Len(queuedList) : queuedList[i].sub = s})
         = (IF s \in queuedListIndex THEN 1 ELSE 0)

\* Outside a pass, a submission that waits for a grader is not also running and
\* holds no grader's slot (schedulePass, onSubmissionFinished, onGraderOffline),
\* unless it was regraded.
WaitingHoldsNothing ==
  QueuedMuFree => \A s \in queuedListIndex :
    \/ Regraded(s)
    \/ s \notin runningList /\ submissionGrader[s] = 0

\* The two claim indexes of the grader repository say the same, so that the load
\* of a grader counts the submissions it owns and no others.
ClaimIndexesAgree ==
  \A g \in Graders : graderSubmissions[g] = {s \in Submissions : submissionGrader[s] = g}

\* All views of who is pending, running and claimed agree (queuedList,
\* queuedListIndex, runningList and the two claim indexes), at whatever moment of
\* its life a submission is cancelled.
ViewsAgree == QueuedOnce /\ WaitingHoldsNothing /\ ClaimIndexesAgree

-----------------------------------------------------------------------------
(* Strengthenings *)

\* A goroutine past its first step knows the submission it works on.
PassControl ==
  scheduler \in {"run", "claim", "push", "undoRunning", "undoClaim"} => todo # <<>>

MonitorControl ==
  \A g \in Graders : monitor[g] = "push" => monCur[g] \in Submissions

ProcControl ==
  /\ \A p \in Procs : proc[p].pc # "idle" => proc[p].sub \in Submissions
  /\ \A s \in Submissions : proc[s].sub = s

ControlInv == PassControl /\ MonitorControl /\ ProcControl

\* s is in the pending list, where a pass finds it whether or not it is indexed.
Listed(s) == \E i \in 1..Len(queuedList) : queuedList[i].sub = s

\* removePendingGradeRequest finds what queuedListIndex promises, even while a
\* second element of the same submission is in the list.
IndexedIsPending == \A s \in queuedListIndex : Listed(s)

\* The loads of a pass never underestimate the load of a grader it may still
\* choose, whatever is claimed or released since the snapshot, and they never
\* exceed its concurrency; a grader just picked has room for one more claim.
PassLoads ==
  /\ scheduler \notin {"lock", "wait"} =>
       \A g \in candidates :
         Cardinality(graderSubmissions[g]) <= loads[g] /\ loads[g] <= Concurrency[g]
  /\ scheduler \in {"run", "claim"} =>
       target \in candidates /\ Cardinality(graderSubmissions[target]) < loads[target]

-----------------------------------------------------------------------------
(* No submission is lost *)

\* Some goroutine is about to push s to the pending list, or to finish it.
InHands(s) ==
  \/ \E p \in Procs : proc[p].sub = s /\ proc[p].pc \in {"mark", "push", "cancelled", "finish"}
  \/ \E g \in Graders :
       \/ s \in monRequeue[g]
       \/ monitor[g] = "push" /\ monCur[g] = s
       \/ callback[g][s] = "finish"

\* A caller has asked to cancel or to regrade s.
Called(s) == \E p \in Callers : proc[p].pc # "idle" /\ proc[p].sub = s

\* While a submission is marked unfinished the hub knows of it: it is in the
\* pending list, or running, or some goroutine has it in hands.  onGraderOffline,
\* a refused push, a restart and the cancelling or regrading of others move
\* submissions between these without dropping one.
UnfinishedIsTracked ==
  \A s \in unfinished : Called(s) \/ Listed(s) \/ s \in runningList \/ InHands(s)

\* An accepted submission is graded in the end: the unfinished marker set by
\* runSubmission is removed by onSubmissionFinished.
UnfinishedFinishes ==
  \A s \in Submissions : s \in unfinished ~> s \notin unfinished
=============================================================================
